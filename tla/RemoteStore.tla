---------------------------- MODULE RemoteStore -----------------------------
(***************************************************************************)
(* Stores of AgAccount objects by processes of which some cannot write the *)
(* database file.                                                          *)
(*                                                                         *)
(* A manager that opened the file read-only sends the changes of an        *)
(* account to a D-Bus service, which stores them and replies with the id   *)
(* of the account.  The call may be refused, or time out before the        *)
(* service has done anything, or after.  The service is not in this        *)
(* repository; it is taken to run the same SQL as a local store.           *)
(*                                                                         *)
(* Values of settings are left out.  What is kept of a row is for which    *)
(* account it was written, which the database itself does not know: the    *)
(* n-th account ever inserted is account n of the history.                 *)
(***************************************************************************)
EXTENDS Naturals, Sequences, Functions

CONSTANTS
  Processes,   (* Each with a manager, and at most one AgAccount.           *)
  ReadOnly,    (* Those whose manager is_readonly,                          *)
  Connected,   (* and those of them with use_dbus.                          *)
  Services,    (* Services, and                                             *)
  Global,      (* the service 0 of the settings of the account itself.      *)
  MaxRows,     (* Bound: accounts ever inserted.                            *)
  MaxSent      (* Bound: calls of the remote store.                         *)

ASSUME RemoteAssumption ==
  /\ ReadOnly \subseteq Processes /\ Connected \subseteq ReadOnly
  /\ Global \notin Services
  /\ MaxRows \in Nat /\ MaxSent \in Nat

VARIABLES
  rows,        (* The Accounts table.                                       *)
  settings,    (* The Settings table, without values.                       *)
  lastRow,     (* sqlite_sequence: the last AUTOINCREMENT id.               *)
  inserted,    (* History: accounts ever inserted.                          *)
  object,      (* The account of a process, and its priv->changes.          *)
  messages,    (* Calls of the remote store, as sent.                       *)
  awaited,     (* The call whose reply a process awaits, or 0,              *)
  blocked,     (* and whether it does so in g_dbus_connection_call_sync().  *)
  result       (* What the last store of a process returned.                *)

tableVars  == <<rows, settings, lastRow, inserted>>
callVars   == <<messages, awaited, blocked>>
remoteVars == <<tableVars, object, callVars, result>>
-----------------------------------------------------------------------------
Sections  == Services \cup {Global}
Ids       == 1..MaxRows
Nth       == 0..MaxRows
NoChanges == [created |-> FALSE, deleted |-> FALSE, columns |-> FALSE,
              sections |-> {}]
Changes   == [created : BOOLEAN, deleted : BOOLEAN, columns : BOOLEAN,
              sections : SUBSET Sections]

\* "nth" is history: the account the object stands for.
Object(i, n, c) == [held |-> TRUE, id |-> i, nth |-> n, changes |-> c]
Objects         == [held : BOOLEAN, id : Nth, nth : Nth, changes : Changes]
Nobody          == [held |-> FALSE, id |-> 0, nth |-> 0, changes |-> NoChanges]

\* What a client asks for, on an account made or loaded before.
Created    == [NoChanges EXCEPT !.created = TRUE]
Deletion   == [NoChanges EXCEPT !.deleted = TRUE]
Enabling   == [NoChanges EXCEPT !.columns = TRUE]
Setting(s) == [NoChanges EXCEPT !.sections = {s}]
Merge(c, d) == [created |-> c.created \/ d.created,
                deleted |-> c.deleted \/ d.deleted,
                columns |-> c.columns \/ d.columns,
                sections |-> c.sections \cup d.sections]

\* The columns of a live row were last written for account "by".
RowsOf  == [live : BOOLEAN, nth : Nth, by : Nth]
Message == [object : Objects, reply : {"none", "error", "id"}, id : Nth]

RemoteTypeOK ==
  /\ rows \in [Ids -> RowsOf]
  /\ settings \subseteq [account : Ids, section : Sections, by : Nth]
  /\ lastRow \in Nth /\ inserted \in Nth
  /\ object \in [Processes -> Objects]
  /\ messages \in Seq(Message)
  /\ awaited \in [Processes -> 0..Len(messages)]
  /\ blocked \subseteq {p \in Processes : awaited[p] # 0}
  /\ result \in [Processes -> {"none", "ok", "db", "readonly"}]

RemoteInit ==
  /\ rows = [i \in Ids |-> [live |-> FALSE, nth |-> 0, by |-> 0]]
  /\ settings = {} /\ lastRow = 0 /\ inserted = 0
  /\ object = [p \in Processes |-> Nobody]
  /\ messages = <<>>
  /\ awaited = [p \in Processes |-> 0]
  /\ blocked = {}
  /\ result = [p \in Processes |-> "none"]
-----------------------------------------------------------------------------
(* The tables.                                                             *)

Live == {i \in Ids : rows[i].live}

\* Mutant: ids without AUTOINCREMENT; the largest in use is followed.
NewId_largest ==
  1 + (IF Live = {} THEN 0 ELSE CHOOSE i \in Live : \A j \in Live : j <= i)

\* The id of the next row, of Accounts.id INTEGER PRIMARY KEY AUTOINCREMENT.
NewId == lastRow + 1

\* INSERT OR REPLACE INTO Settings; there need not be such an account.
Replace(o, i) ==
  {r \in settings : r.account # i \/ r.section \notin o.changes.sections}
    \cup [account : {i}, section : o.changes.sections, by : {o.nth}]

\* The SQL of _ag_account_get_store_sql() for the object o.
DeleteRow(o) ==
  /\ o.changes.deleted
  /\ rows' = [i \in Ids |-> IF i = o.id THEN [rows[i] EXCEPT !.live = FALSE]
                            ELSE rows[i]]
  /\ settings' = {r \in settings : r.account # o.id}
  /\ UNCHANGED <<lastRow, inserted>>

InsertRow(o) ==
  /\ ~o.changes.deleted /\ o.id = 0 /\ inserted < MaxRows
  /\ rows' = [rows EXCEPT ![NewId] =
                [live |-> TRUE, nth |-> inserted + 1, by |-> inserted + 1]]
  /\ settings' = Replace([o EXCEPT !.nth = inserted + 1], NewId)
  /\ lastRow' = NewId /\ inserted' = inserted + 1

UpdateRow(o) ==
  /\ ~o.changes.deleted /\ o.id # 0
  /\ rows' = IF o.changes.columns /\ rows[o.id].live
             THEN [rows EXCEPT ![o.id].by = o.nth] ELSE rows
  /\ settings' = Replace(o, o.id)
  /\ UNCHANGED <<lastRow, inserted>>

Execute(o) == DeleteRow(o) \/ InsertRow(o) \/ UpdateRow(o)

\* The id that the transaction is about.
IdOf(o) == IF o.changes.deleted \/ o.id # 0 THEN o.id ELSE NewId
-----------------------------------------------------------------------------
(* Accounts of a process.                                                  *)

Has(p, o) == object' = [object EXCEPT ![p] = o]
Return(p, r) == result' = [result EXCEPT ![p] = r]
Calling(p) == awaited[p] # 0

\* ag_manager_load_account() of an account that is there, and
\* ag_manager_create_account().
Load(p, i) == rows[i].live /\ Has(p, Object(i, rows[i].nth, NoChanges))

\* The account of p with the changes d made to it.
Changed(p, d) == [object[p] EXCEPT !.changes = Merge(@, d)]
-----------------------------------------------------------------------------
(* Storing the account o of p.                                             *)

StoreNothing(p, o) ==
  o.changes = NoChanges /\ Has(p, o) /\ Return(p, "ok")
    /\ UNCHANGED <<tableVars, callVars>>

\* ag_manager_store_local_sync(), as AccountStore describes it: the changes
\* are lost when it fails.
StoreLocal(p, o) ==
  /\ o.changes # NoChanges /\ p \notin ReadOnly
  /\ \/ /\ Execute(o)
        /\ Has(p, Object(IdOf(o), IF IdOf(o) = o.id THEN o.nth ELSE inserted',
                         NoChanges))
        /\ Return(p, "ok")
     \/ /\ Has(p, [o EXCEPT !.changes = NoChanges])
        /\ Return(p, "db") /\ UNCHANGED tableVars
  /\ UNCHANGED callVars

\* The changes stay in the object when there is no D-Bus,
StoreRefused(p, o) ==
  /\ o.changes # NoChanges /\ p \in ReadOnly \ Connected
  /\ Has(p, o) /\ Return(p, "readonly") /\ UNCHANGED <<tableVars, callVars>>

\* and leave it with the call otherwise.
Send(p, o, blocking) ==
  /\ o.changes # NoChanges /\ p \in Connected /\ Len(messages) < MaxSent
  /\ messages' = Append(messages, [object |-> o, reply |-> "none", id |-> 0])
  /\ awaited' = [awaited EXCEPT ![p] = Len(messages')]
  /\ blocked' = IF blocking THEN blocked \cup {p} ELSE blocked
  /\ Has(p, [o EXCEPT !.changes = NoChanges])
  /\ Return(p, "none")
  /\ UNCHANGED tableVars

\* ag_account_store_blocking(), and ag_account_store_async() in a read-only
\* manager.
StoreBlocking(p, o) == \/ StoreNothing(p, o) \/ StoreLocal(p, o)
                       \/ StoreRefused(p, o) \/ Send(p, o, TRUE)
StoreAsync(p, o)    == \/ StoreNothing(p, o)
                       \/ StoreRefused(p, o) \/ Send(p, o, FALSE)
-----------------------------------------------------------------------------
(* The service, and the replies.                                           *)

Unread(n) == messages[n].reply = "none"

\* The reply, which is lost when nobody awaits it any more.
Replies(n, r, i) ==
  messages' = [messages EXCEPT ![n] =
    [object |-> Nobody, reply |-> r,
     id |-> IF n \in Range(awaited) THEN i ELSE 0]]

\* The service stores the changes, or refuses to; the caller may be gone.
Serve(n) ==
  /\ Unread(n) /\ Execute(messages[n].object)
  /\ Replies(n, "id", IdOf(messages[n].object))
  /\ UNCHANGED <<object, awaited, blocked, result>>

Refuse(n) ==
  /\ Unread(n) /\ Replies(n, "error", 0)
  /\ UNCHANGED <<tableVars, object, awaited, blocked, result>>

\* Mutant: the next call counts as a blocking one too.
Ends_staysBlocked(p) ==
  /\ awaited' = [awaited EXCEPT ![p] = 0]
  /\ UNCHANGED <<blocked, tableVars>>
  /\ messages' = [messages EXCEPT ![awaited[p]].id = 0]

\* The process goes on, and the reply is gone.
Ends(p) ==
  /\ awaited' = [awaited EXCEPT ![p] = 0]
  /\ blocked' = blocked \ {p}
  /\ messages' = [messages EXCEPT ![awaited[p]].id = 0]
  /\ UNCHANGED tableVars

ReplyTo(p) == messages[awaited[p]]

Succeeds(p) == Calling(p) /\ ReplyTo(p).reply = "id"

\* The reply is an error, or the call times out.
Fails(p) == Calling(p) /\ ReplyTo(p).reply # "id"

NthOf(i) == IF i \in Ids THEN rows[i].nth ELSE 0

\* on_dbus_store_done() and ag_manager_store_dbus_sync(): a new account takes
\* the id of the reply, and keeps what was changed during the call.
StoreDone(p) ==
  /\ Succeeds(p)
  /\ Has(p, IF object[p].id # 0 THEN object[p]
            ELSE Object(ReplyTo(p).id, NthOf(ReplyTo(p).id),
                        object[p].changes))
  /\ Return(p, "ok") /\ Ends(p)

\* Whatever went wrong is a read-only error, and the changes are lost.
StoreFails(p) ==
  /\ Fails(p) /\ Return(p, "readonly") /\ Ends(p) /\ UNCHANGED object

Library(p) == StoreDone(p) \/ StoreFails(p)
Service    == \E n \in 1..Len(messages) : Serve(n) \/ Refuse(n)
=============================================================================
