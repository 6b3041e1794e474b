---------------------------- MODULE AccountStore ----------------------------
(***************************************************************************)
(* Storing the changes of AgAccount objects through one AgManager.         *)
(*                                                                         *)
(* ag_account_store_async() and ag_account_store_blocking() turn the       *)
(* pending changes of an account into one SQL transaction.  The database   *)
(* is shared with other processes: BEGIN EXCLUSIVE may find it locked, in  *)
(* which case an asynchronous store becomes an idle source that is retried *)
(* by the main loop and a blocking store sleeps in its caller's thread.    *)
(* The answer of an asynchronous store travels in a GTask, whose callback  *)
(* runs at once or in a later iteration of the main loop.                  *)
(*                                                                         *)
(* One call of either function is one element of Calls.  The settings of   *)
(* an account are abstracted to a few keys whose values are edit numbers,  *)
(* so that a larger value is a later edit by the client.  Other processes  *)
(* lock the database and delete accounts; their edits of accounts are the  *)
(* subject of ChangeNotification.                                          *)
(***************************************************************************)
EXTENDS Naturals, FiniteSets

CONSTANTS
  Accounts,    (* AgAccount objects the client holds, all of one manager.   *)
  Stored,      (* Those that are in the database when the manager starts.   *)
  Keys,        (* Settings of an account.                                   *)
  Calls,       (* Calls of a store function that the client may make.       *)
  Target,      (* The account each call is made on.                         *)
  NoCall,      (* A NULL priv->store_task.                                  *)
  NoAccount,   (* A missing entry of the manager's hash of accounts.        *)
  Env,         (* What clients and environment do beyond the plain use.     *)
  MaxEdits,    (* Bound: edits made by the client.                          *)
  MaxRows,     (* Bound: rows ever inserted in the Accounts table.          *)
  MaxLocks,    (* Bound: times another process locks the database.          *)
  MaxSleeps    (* Sleeps of a blocking store before it gives up; 8 in the   *)
               (* code (200 ms doubled up to 30 s).                         *)

(***************************************************************************)
(* The members of Env:                                                     *)
(*   "blocking"      the client uses ag_account_store_blocking()           *)
(*   "overtake"      ... even while an asynchronous store is pending       *)
(*   "reuse"         it starts an asynchronous store when the previous one *)
(*                   was answered but its callback did not return yet      *)
(*   "cancel"        it cancels the GCancellable of a store                *)
(*   "delete"        it deletes accounts that are in the database          *)
(*   "delete_new"    it deletes accounts that were never stored            *)
(*   "exec_fails"    the SQL of a transaction may fail                     *)
(*   "commit_fails"  its COMMIT may fail                                   *)
(*   "others_delete" another process deletes accounts                      *)
(***************************************************************************)
Liberties == {"blocking", "overtake", "reuse", "cancel", "delete",
              "delete_new", "exec_fails", "commit_fails", "others_delete"}

ASSUME ConstantsAssumption ==
  /\ Stored \subseteq Accounts
  /\ IsFiniteSet(Stored)
  /\ Target \in [Calls -> Accounts]
  /\ NoCall \notin Calls
  /\ NoAccount \notin Accounts
  /\ Env \subseteq Liberties
  /\ MaxEdits \in Nat
  /\ MaxRows \in Nat
  /\ MaxLocks \in Nat
  /\ MaxSleeps \in Nat \ {0}

VARIABLES
  edits,       (* Number of edits made by the client.                       *)
  lastEdit,    (* History: the last edit of each key of each account.       *)
  changes,     (* priv->changes, what the next store will write.            *)
  id,          (* account->id, 0 until the account is stored.               *)
  mem,         (* The settings the account object shows to its users.       *)
  gone,        (* priv->deleted.                                            *)
  storeTask,   (* priv->store_task.                                         *)
  status,      (* Where each call is.                                       *)
  request,     (* The changes a call stole, and the SQL made from them.     *)
  result,      (* What the call returned in its task, or to its caller.     *)
  wanted,      (* History: lastEdit when the call was made.                 *)
  cancelled,   (* Calls whose GCancellable was cancelled.                   *)
  sleeps,      (* Sleeps of the blocking store in progress.                 *)
  rows,        (* The committed rows of Accounts with their Settings.       *)
  nextRow,     (* The next AUTOINCREMENT id of the Accounts table.          *)
  foreign,     (* History: rows that another process has deleted.           *)
  lastId,      (* priv->last_account_id of the manager.                     *)
  cache,       (* priv->accounts, the manager's hash of accounts by id.     *)
  created,     (* Ids for which "account-created" was emitted.              *)
  removed,     (* Ids for which "account-deleted" was emitted.              *)
  dbLock,      (* Who is in a transaction: no one, another process, or the  *)
               (* manager's own connection after a failed COMMIT.           *)
  locks        (* Times another process has locked the database.            *)

clientVars  == <<edits, lastEdit, changes, cancelled>>
callVars    == <<storeTask, status, request, result, wanted, sleeps>>
accountVars == <<id, mem, gone, cache, created, removed, rows, nextRow,
                 foreign>>
dataVars    == <<accountVars, lastId>>
lockVars    == <<dbLock, locks>>
vars        == <<clientVars, callVars, dataVars, lockVars>>
-----------------------------------------------------------------------------
(* Types and small helpers.                                                *)

Values   == [Keys -> 0..MaxEdits]
NoValues == [k \in Keys |-> 0]
RowIds   == 0..MaxRows

Changes   == [created : BOOLEAN, deleted : BOOLEAN, vals : Values]
NoChanges == [created |-> FALSE, deleted |-> FALSE, vals |-> NoValues]

\* The SQL is fixed when the call is made: row 0 is an INSERT.
Request(r, c) == [row |-> r, created |-> c.created, deleted |-> c.deleted,
                  vals |-> c.vals]
Requests      == [row : RowIds, created : BOOLEAN, deleted : BOOLEAN,
                  vals : Values]
NoRequest     == Request(0, NoChanges)

Row      == [live : BOOLEAN, vals : Values]
EmptyRow == [live |-> FALSE, vals |-> NoValues]

(***************************************************************************)
(* "waiting": an idle source of the manager (priv->locks) retries it;      *)
(* "returned": its task has a result and the callback is deferred to a     *)
(* source of the main loop; "callback": that source is running the         *)
(* callback; "idle_callback": the callback runs inside the retry;          *)
(* "sleeping": a blocking store holds the thread; "freed": its task was    *)
(* finalized while a source still refers to it.                            *)
(***************************************************************************)
Statuses == {"unused", "waiting", "returned", "callback", "idle_callback",
             "sleeping", "done", "freed"}
Results  == {"none", "ok", "db", "deleted", "in_progress", "cancelled"}

TypeOK ==
  /\ edits \in 0..MaxEdits
  /\ lastEdit \in [Accounts -> Values]
  /\ changes \in [Accounts -> Changes]
  /\ id \in [Accounts -> RowIds]
  /\ mem \in [Accounts -> Values]
  /\ gone \in [Accounts -> BOOLEAN]
  /\ storeTask \in [Accounts -> Calls \cup {NoCall}]
  /\ status \in [Calls -> Statuses]
  /\ request \in [Calls -> Requests]
  /\ result \in [Calls -> Results]
  /\ wanted \in [Calls -> Values]
  /\ cancelled \subseteq Calls
  /\ sleeps \in 0..MaxSleeps
  /\ rows \in [RowIds -> Row]
  /\ nextRow \in 1..(MaxRows + 1)
  /\ foreign \subseteq RowIds \ {0}
  /\ lastId \in RowIds
  /\ cache \in [RowIds -> Accounts \cup {NoAccount}]
  /\ created \subseteq RowIds
  /\ removed \subseteq RowIds
  /\ dbLock \in {"free", "other", "self"}
  /\ locks \in 0..MaxLocks

\* Mutant: INSERT OR IGNORE, the older value stays.
Overlay_ignores(old, new) ==
  [k \in Keys |-> IF old[k] = 0 THEN new[k] ELSE old[k]]

Overlay(old, new) == [k \in Keys |-> IF new[k] = 0 THEN old[k] ELSE new[k]]

Allowed(what) == what \in Env

\* The client's thread: it is also the one that runs the main loop.
ThreadFree == \A c \in Calls : status[c] # "sleeping"
LoopFree   == \A c \in Calls :
                status[c] \notin {"sleeping", "callback", "idle_callback"}

\* The call got past the STORE_IN_PROGRESS check: its task is the one that
\* priv->store_task points to, with a weak pointer on it.
Accepted(c) == result[c] # "in_progress"

Waiting(a) == {c \in Calls : Target[c] = a /\ status[c] = "waiting"}

\* The caller has been told the result.
Told == {"callback", "idle_callback", "done"}

\* What ag_account_store_finish() gives to the callback of c:
\* g_task_propagate_boolean() checks the cancellable before the result.
Reported(c) == IF c \in cancelled THEN "cancelled" ELSE result[c]
-----------------------------------------------------------------------------
(***************************************************************************)
(* Initial states: the accounts of Stored have been loaded in any order,   *)
(* the others come from ag_manager_create_account().                       *)
(***************************************************************************)
\* Mutant: a new account is not flagged as created.
NewChanges_notFlagged == NoChanges

NewChanges == [NoChanges EXCEPT !.created = TRUE]

StoredIds ==
  {f \in [Accounts -> 0..Cardinality(Stored)] :
     /\ \A a \in Accounts : f[a] = 0 <=> a \notin Stored
     /\ \A a, b \in Stored : f[a] = f[b] => a = b}

Init ==
  /\ Cardinality(Stored) <= MaxRows
  /\ id \in StoredIds
  /\ nextRow = Cardinality(Stored) + 1
  /\ rows = [r \in RowIds |->
               [live |-> r \in 1..Cardinality(Stored), vals |-> NoValues]]
  /\ cache = [r \in RowIds |->
                IF \E a \in Stored : id[a] = r
                THEN CHOOSE a \in Stored : id[a] = r ELSE NoAccount]
  /\ changes = [a \in Accounts |->
                  IF a \in Stored THEN NoChanges ELSE NewChanges]
  /\ edits = 0
  /\ lastEdit = [a \in Accounts |-> NoValues]
  /\ mem = [a \in Accounts |-> NoValues]
  /\ gone = [a \in Accounts |-> FALSE]
  /\ storeTask = [a \in Accounts |-> NoCall]
  /\ status = [c \in Calls |-> "unused"]
  /\ request = [c \in Calls |-> NoRequest]
  /\ result = [c \in Calls |-> "none"]
  /\ wanted = [c \in Calls |-> NoValues]
  /\ cancelled = {}
  /\ sleeps = 0
  /\ foreign = {}
  /\ lastId = 0
  /\ created = {}
  /\ removed = {}
  /\ dbLock = "free"
  /\ locks = 0
-----------------------------------------------------------------------------
(* The client changes its accounts.                                        *)

\* ag_account_set_variant() on the key: kept in priv->changes until a store.
Edit(a, k) ==
  /\ ThreadFree
  /\ edits < MaxEdits
  /\ edits' = edits + 1
  /\ lastEdit' = [lastEdit EXCEPT ![a][k] = edits + 1]
  /\ changes' = [changes EXCEPT ![a].vals[k] = edits + 1]
  /\ UNCHANGED <<cancelled, callVars, dataVars, lockVars>>

\* ag_account_delete().
Delete(a) ==
  /\ ThreadFree
  /\ Allowed(IF id[a] = 0 THEN "delete_new" ELSE "delete")
  /\ ~changes[a].deleted
  /\ changes' = [changes EXCEPT ![a].deleted = TRUE]
  /\ UNCHANGED <<edits, lastEdit, cancelled, callVars, dataVars, lockVars>>

\* g_cancellable_cancel() on the cancellable given to the call.
Cancel(c) ==
  /\ ThreadFree
  /\ Allowed("cancel")
  /\ status[c] \in {"waiting", "returned"} /\ Accepted(c)
  /\ c \notin cancelled
  /\ cancelled' = cancelled \cup {c}
  /\ UNCHANGED <<edits, lastEdit, changes, callVars, dataVars, lockVars>>
-----------------------------------------------------------------------------
(***************************************************************************)
(* The transaction: exec_transaction() once BEGIN EXCLUSIVE has succeeded. *)
(***************************************************************************)
IsInsert(r) == r.row = 0 /\ ~r.deleted

\* The row that holds the account when the transaction has succeeded: an
\* account without an id takes the manager's last_account_id.
LastIdAfter(r) == IF IsInsert(r) THEN nextRow ELSE lastId
\* Mutant: the rowid of the last INSERT, be it of a setting.
IdAfter_anyRowid(a, r) == IF id[a] = 0 THEN 1 ELSE id[a]

IdAfter(a, r)  == IF id[a] = 0 THEN LastIdAfter(r) ELSE id[a]

\* Mutant: the settings of a new account are not written.
RowsAfter_emptyInsert(r) ==
  CASE r.deleted /\ r.row = 0 -> rows
    [] r.deleted /\ r.row # 0 -> [rows EXCEPT ![r.row] = EmptyRow]
    [] IsInsert(r) -> [rows EXCEPT ![nextRow].live = TRUE]
    [] OTHER -> [rows EXCEPT ![r.row].vals = Overlay(@, r.vals)]

\* Mutant: the settings of a deleted account stay.
RowsAfter_keepsSettings(r) ==
  CASE r.deleted /\ r.row = 0 -> rows
    [] r.deleted /\ r.row # 0 -> [rows EXCEPT ![r.row].live = FALSE]
    [] IsInsert(r) -> [rows EXCEPT ![nextRow] =
                         [live |-> TRUE, vals |-> r.vals]]
    [] OTHER -> [rows EXCEPT ![r.row].vals = Overlay(@, r.vals)]

\* Mutant: the deletion of an account that was changed too is not written.
RowsAfter_keepsChanged(r) ==
  CASE r.deleted /\ r.row = 0 -> rows
    [] r.deleted /\ r.row # 0 /\ r.vals = NoValues ->
         [rows EXCEPT ![r.row] = EmptyRow]
    [] IsInsert(r) -> [rows EXCEPT ![nextRow] =
                         [live |-> TRUE, vals |-> r.vals]]
    [] OTHER -> [rows EXCEPT ![r.row].vals = Overlay(@, r.vals)]

\* The effect of the SQL of _ag_account_get_store_sql().
RowsAfter(r) ==
  CASE r.deleted /\ r.row = 0 -> rows
    [] r.deleted /\ r.row # 0 -> [rows EXCEPT ![r.row] = EmptyRow]
    [] IsInsert(r) -> [rows EXCEPT ![nextRow] =
                         [live |-> TRUE, vals |-> r.vals]]
    [] OTHER -> [rows EXCEPT ![r.row].vals = Overlay(@, r.vals)]

\* The COMMIT is done: the account object and the manager's hash are updated
\* and the signals emitted; the manager's own handler of "account-deleted"
\* drops the entry of that id.
Commit(a, r) ==
  LET new == IdAfter(a, r)
  IN  /\ dbLock = "free"
      /\ IsInsert(r) => nextRow <= MaxRows
      /\ rows' = RowsAfter(r)
      /\ nextRow' = IF IsInsert(r) THEN nextRow + 1 ELSE nextRow
      /\ lastId' = LastIdAfter(r)
      /\ id' = [id EXCEPT ![a] = new]
      /\ cache' = [cache EXCEPT ![new] =
                     IF r.deleted THEN NoAccount
                     ELSE IF id[a] = 0 THEN a ELSE @]
      /\ mem' = [mem EXCEPT ![a] = Overlay(@, r.vals)]
      /\ gone' = [gone EXCEPT ![a] = @ \/ r.deleted]
      /\ created' = IF r.created THEN created \cup {new} ELSE created
      /\ removed' = IF r.deleted THEN removed \cup {new} ELSE removed
      /\ UNCHANGED <<foreign, lockVars>>

\* Mutant: the statements do not run in one transaction.
ExecFails_noTransaction(r) ==
  /\ Allowed("exec_fails")
  /\ dbLock = "free"
  /\ rows' = IF r.row = 0 THEN rows ELSE RowsAfter(r)
  /\ lastId' = lastId
  /\ UNCHANGED <<id, mem, gone, cache, created, removed, nextRow, foreign,
                 lockVars>>

\* The SQL fails and is rolled back.  The id of a new account is a variable
\* of the manager, set by one of the statements: it is not rolled back.
ExecFails(r) ==
  /\ Allowed("exec_fails")
  /\ dbLock = "free"
  /\ lastId' \in {lastId, LastIdAfter(r)} \cap RowIds
  /\ UNCHANGED <<accountVars, lockVars>>

\* The COMMIT fails: there is no ROLLBACK, so that the transaction stays
\* open unless SQLite itself has rolled it back.
CommitFails(r) ==
  /\ Allowed("commit_fails")
  /\ dbLock = "free"
  /\ IsInsert(r) => nextRow <= MaxRows
  /\ lastId' = LastIdAfter(r)
  /\ dbLock' \in {"free", "self"}
  /\ UNCHANGED <<accountVars, locks>>

\* Mutant: inside an open transaction BEGIN is tried again for ever.
BeginFails_retries ==
  /\ FALSE
  /\ UNCHANGED <<dataVars, lockVars>>

\* BEGIN fails inside a transaction that was left open.
BeginFails ==
  /\ dbLock = "self"
  /\ UNCHANGED <<dataVars, lockVars>>

\* The database part of call c on the request r, answered by res.
Transaction(c, r, res) ==
  \/ res = "ok" /\ Commit(Target[c], r)
  \/ res = "db" /\ (ExecFails(r) \/ CommitFails(r) \/ BeginFails)
-----------------------------------------------------------------------------
(* ag_account_store_async().                                               *)

NewRequest(a) == Request(id[a], changes[a])

Move(c, s)   == status' = [status EXCEPT ![c] = s]
Answer(c, x) == result' = [result EXCEPT ![c] = x]

\* The client makes the call c; unless the environment is more liberal, not
\* before the callback of its previous store on the account has returned.
BeginAsync(c) ==
  /\ ThreadFree
  /\ status[c] = "unused"
  /\ \/ Allowed("reuse")
     \/ \A d \in Calls : Target[d] = Target[c] /\ Accepted(d) =>
          status[d] \notin {"returned", "callback"}
  /\ wanted' = [wanted EXCEPT ![c] = lastEdit[Target[c]]]
  /\ UNCHANGED <<edits, lastEdit, cancelled, sleeps>>

Steal(c) ==
  LET a == Target[c]
  IN  /\ changes' = [changes EXCEPT ![a] = NoChanges]
      /\ request' = [request EXCEPT ![c] = NewRequest(a)]

\* Another store is in progress: the error has a task of its own.
StoreRejected(c) ==
  /\ BeginAsync(c)
  /\ storeTask[Target[c]] # NoCall
  /\ Move(c, "returned") /\ Answer(c, "in_progress")
  /\ UNCHANGED <<changes, storeTask, request, dataVars, lockVars>>

\* No changes: answered at once, and store_task cleared.
StoreNothing(c) ==
  /\ BeginAsync(c)
  /\ storeTask[Target[c]] = NoCall
  /\ changes[Target[c]] = NoChanges
  /\ Move(c, "returned") /\ Answer(c, "ok")
  /\ UNCHANGED <<changes, storeTask, request, dataVars, lockVars>>

\* Mutant: a store in progress is not looked for.
StoreStarts_unchecked(c) ==
  /\ BeginAsync(c)
  /\ changes[Target[c]] # NoChanges

StoreStarts(c) ==
  /\ BeginAsync(c)
  /\ storeTask[Target[c]] = NoCall
  /\ changes[Target[c]] # NoChanges

\* A deleted account: store_task keeps pointing to the task, which no longer
\* owns it, until the deferred callback has run.
StoreDeleted(c) ==
  /\ StoreStarts(c)
  /\ gone[Target[c]]
  /\ Move(c, "returned") /\ Answer(c, "deleted")
  /\ storeTask' = [storeTask EXCEPT ![Target[c]] = c]
  /\ UNCHANGED <<changes, request, dataVars, lockVars>>

\* BEGIN EXCLUSIVE finds the database locked: an idle source will retry.
StoreBusy(c) ==
  /\ StoreStarts(c)
  /\ ~gone[Target[c]]
  /\ dbLock = "other"
  /\ Steal(c)
  /\ Move(c, "waiting")
  /\ storeTask' = [storeTask EXCEPT ![Target[c]] = c]
  /\ UNCHANGED <<result, dataVars, lockVars>>

\* The transaction runs within the call; the answer is deferred and
\* store_task cleared.
StoreNow(c) ==
  /\ StoreStarts(c)
  /\ ~gone[Target[c]]
  /\ Steal(c)
  /\ \E res \in {"ok", "db"} :
       Transaction(c, NewRequest(Target[c]), res) /\ Answer(c, res)
  /\ Move(c, "returned")
  /\ UNCHANGED storeTask

StoreAsync(c) ==
  \/ StoreRejected(c)
  \/ StoreNothing(c)
  \/ StoreDeleted(c)
  \/ StoreBusy(c)
  \/ StoreNow(c)
-----------------------------------------------------------------------------
(***************************************************************************)
(* The main loop.  The deferred callbacks have a higher priority than the  *)
(* idle sources of the manager.                                            *)
(***************************************************************************)
RetryReady(c) ==
  /\ LoopFree
  /\ status[c] = "waiting"
  /\ \A d \in Calls : status[d] # "returned"
  /\ Move(c, "idle_callback")
  /\ UNCHANGED <<clientVars, storeTask, request, wanted, sleeps>>

\* exec_transaction_idle() with the lock available (a retry that finds it
\* taken changes nothing): the callback is run before the call is completed.
Retry(c) ==
  /\ RetryReady(c)
  /\ c \notin cancelled
  /\ \E res \in {"ok", "db"} :
       Transaction(c, request[c], res) /\ Answer(c, res)

\* exec_transaction_idle() when the call was cancelled: its changes are lost.
RetryCancelled(c) ==
  /\ RetryReady(c)
  /\ c \in cancelled
  /\ Answer(c, "cancelled")
  /\ UNCHANGED <<dataVars, lockVars>>

RunCallback(c) ==
  /\ LoopFree
  /\ status[c] = "returned"
  /\ Move(c, "callback")
  /\ UNCHANGED <<clientVars, storeTask, request, result, wanted, sleeps,
                 dataVars, lockVars>>

\* Mutant: the weak pointer is installed before the check.
EndCallback_alwaysResets(c) ==
  /\ ThreadFree
  /\ status[c] = "callback"
  /\ Move(c, "done")
  /\ storeTask' = [storeTask EXCEPT ![Target[c]] = NoCall]
  /\ UNCHANGED <<clientVars, request, result, wanted, sleeps, dataVars,
                 lockVars>>

\* The callback has returned and the last reference to the task is dropped:
\* its weak pointer resets store_task, whatever it points to by now.
EndCallback(c) ==
  /\ ThreadFree
  /\ status[c] = "callback"
  /\ Move(c, "done")
  /\ storeTask' = IF Accepted(c)
                  THEN [storeTask EXCEPT ![Target[c]] = NoCall] ELSE storeTask
  /\ UNCHANGED <<clientVars, request, result, wanted, sleeps, dataVars,
                 lockVars>>

\* _ag_account_store_completed() after the callback of a retried store: the
\* reference it drops is that of store_task, whatever it points to by now.
EndIdleCallback(c) ==
  LET held == storeTask[Target[c]]
  IN  /\ ThreadFree
      /\ status[c] = "idle_callback"
      /\ status' = [d \in Calls |-> IF d = c THEN "done"
                                    ELSE IF d = held THEN "freed"
                                    ELSE status[d]]
      /\ storeTask' = [storeTask EXCEPT ![Target[c]] = NoCall]
      /\ UNCHANGED <<clientVars, request, result, wanted, sleeps, dataVars,
                     lockVars>>
-----------------------------------------------------------------------------
(* ag_account_store_blocking().  It does not look at store_task.           *)

BeginBlocking(c) ==
  /\ ThreadFree
  /\ Allowed("blocking")
  /\ status[c] = "unused"
  /\ Allowed("overtake") \/ Waiting(Target[c]) = {}
  /\ wanted' = [wanted EXCEPT ![c] = lastEdit[Target[c]]]
  /\ UNCHANGED <<edits, lastEdit, cancelled, storeTask>>

BlockingNothing(c) ==
  /\ BeginBlocking(c)
  /\ changes[Target[c]] = NoChanges
  /\ Move(c, "done") /\ Answer(c, "ok")
  /\ UNCHANGED <<changes, request, sleeps, dataVars, lockVars>>

BlockingDeleted(c) ==
  /\ BeginBlocking(c)
  /\ changes[Target[c]] # NoChanges
  /\ gone[Target[c]]
  /\ Move(c, "done") /\ Answer(c, "deleted")
  /\ UNCHANGED <<changes, request, sleeps, dataVars, lockVars>>

BlockingBusy(c) ==
  /\ BeginBlocking(c)
  /\ changes[Target[c]] # NoChanges
  /\ ~gone[Target[c]]
  /\ dbLock = "other"
  /\ Steal(c)
  /\ Move(c, "sleeping")
  /\ sleeps' = 1
  /\ UNCHANGED <<result, dataVars, lockVars>>

BlockingNow(c) ==
  /\ BeginBlocking(c)
  /\ changes[Target[c]] # NoChanges
  /\ ~gone[Target[c]]
  /\ Steal(c)
  /\ \E res \in {"ok", "db"} :
       Transaction(c, NewRequest(Target[c]), res) /\ Answer(c, res)
  /\ Move(c, "done")
  /\ UNCHANGED sleeps

StoreBlocking(c) ==
  \/ BlockingNothing(c)
  \/ BlockingDeleted(c)
  \/ BlockingBusy(c)
  \/ BlockingNow(c)

\* Mutant: one sleep too many.
WakeBusy_oneMore(c) ==
  /\ status[c] = "sleeping"
  /\ dbLock = "other"
  /\ IF sleeps <= MaxSleeps
     THEN sleeps' = sleeps + 1 /\ UNCHANGED <<status, result>>
     ELSE sleeps' = 0 /\ Move(c, "done") /\ Answer(c, "db")
  /\ UNCHANGED <<clientVars, storeTask, request, wanted, dataVars, lockVars>>

\* A sleep is over: BEGIN EXCLUSIVE is tried again.
WakeBusy(c) ==
  /\ status[c] = "sleeping"
  /\ dbLock = "other"
  /\ IF sleeps < MaxSleeps
     THEN sleeps' = sleeps + 1 /\ UNCHANGED <<status, result>>
     ELSE sleeps' = 0 /\ Move(c, "done") /\ Answer(c, "db")
  /\ UNCHANGED <<clientVars, storeTask, request, wanted, dataVars, lockVars>>

WakeNow(c) ==
  /\ status[c] = "sleeping"
  /\ \E res \in {"ok", "db"} :
       Transaction(c, request[c], res) /\ Answer(c, res)
  /\ Move(c, "done")
  /\ sleeps' = 0
  /\ UNCHANGED <<clientVars, storeTask, request, wanted>>
-----------------------------------------------------------------------------
(* Another process that writes to the database, and its signals.           *)

OtherLocks ==
  /\ dbLock = "free"
  /\ locks < MaxLocks
  /\ dbLock' = "other"
  /\ locks' = locks + 1
  /\ UNCHANGED <<clientVars, callVars, dataVars>>

OtherUnlocks ==
  /\ dbLock = "other"
  /\ dbLock' = "free"
  /\ UNCHANGED <<locks, clientVars, callVars, dataVars>>

\* The transaction of the other process deletes an account.
OtherDeletes(r) ==
  /\ Allowed("others_delete")
  /\ dbLock = "other"
  /\ rows[r].live
  /\ rows' = [rows EXCEPT ![r] = EmptyRow]
  /\ foreign' = foreign \cup {r}
  /\ dbLock' = "free"
  /\ UNCHANGED <<locks, clientVars, callVars, id, mem, gone, cache, created,
                 removed, nextRow, lastId>>

\* The signal of that deletion reaches an account of the manager, which has
\* it marked as deleted, announced and dropped from the hash.
DeletionArrives(a) ==
  /\ LoopFree
  /\ id[a] \in foreign
  /\ cache[id[a]] = a
  /\ gone' = [gone EXCEPT ![a] = TRUE]
  /\ cache' = [cache EXCEPT ![id[a]] = NoAccount]
  /\ removed' = removed \cup {id[a]}
  /\ UNCHANGED <<clientVars, callVars, lockVars, id, mem, created, rows,
                 nextRow, foreign, lastId>>

Others ==
  \/ OtherLocks
  \/ OtherUnlocks
  \/ \E r \in RowIds \ {0} : OtherDeletes(r)
  \/ \E a \in Accounts : DeletionArrives(a)
-----------------------------------------------------------------------------
Client ==
  \/ \E a \in Accounts : Delete(a) \/ \E k \in Keys : Edit(a, k)
  \/ \E c \in Calls : Cancel(c) \/ StoreAsync(c) \/ StoreBlocking(c)

Thread(c) ==
  \/ Retry(c)
  \/ RetryCancelled(c)
  \/ RunCallback(c)
  \/ EndCallback(c)
  \/ EndIdleCallback(c)
  \/ WakeBusy(c)
  \/ WakeNow(c)

Next == Client \/ (\E c \in Calls : Thread(c)) \/ Others

Spec == Init /\ [][Next]_vars

\* The main loop keeps running, a sleep ends, a callback returns, and the
\* other processes end their transactions.
Fairness == WF_vars(OtherUnlocks) /\ \A c \in Calls : WF_vars(Thread(c))

FairSpec == Spec /\ Fairness
-----------------------------------------------------------------------------
(* Properties.                                                             *)

\* At most one asynchronous store of an account waits for the database: this
\* is what AG_ACCOUNTS_ERROR_STORE_IN_PROGRESS is for.
OnePendingStore ==
  \A c, d \in Calls :
    /\ status[c] = "waiting" /\ status[d] = "waiting"
    /\ Target[c] = Target[d]
    => c = d

\* A call that waits for the database or runs its callback from the retry is
\* the one store_task points to, so that the next store is refused.
PendingIsGuarded ==
  \A c \in Calls :
    status[c] \in {"waiting", "idle_callback"} => storeTask[Target[c]] = c

\* No source of the main loop is left with a task that was finalized.
NoDanglingTask == \A c \in Calls : status[c] # "freed"

\* The account is still the manager's own to write: neither was it deleted
\* through the manager, nor has another process deleted its row.
Ours(a) == ~gone[a] /\ id[a] \notin foreign

\* A store that is reported as successful has written the account and every
\* edit the client had made before the call, or something newer: no more is
\* missing than what a store that reported a failure had taken.
Failed(a) == {d \in Calls : Target[d] = a /\ result[d] \in {"db", "cancelled"}}

OkMeansSavedOrLost ==
  \A c \in Calls :
    LET a == Target[c]
    IN  /\ status[c] \in Told
        /\ Reported(c) = "ok"
        /\ Ours(a)
        => /\ \/ id[a] # 0 /\ rows[id[a]].live
              \/ \E d \in Failed(a) : request[d].created
           /\ \A k \in Keys :
                \/ rows[id[a]].vals[k] >= wanted[c][k]
                \/ \E d \in Failed(a) : request[d].vals[k] = wanted[c][k]

\* Nothing of a store that failed is in the database: a transaction writes
\* all of its request or none of it.
ErrorMeansNotWritten ==
  \A c \in Calls, k \in Keys, r \in RowIds :
    /\ result[c] \in {"db", "cancelled"}
    /\ request[c].vals[k] # 0
    => rows[r].vals[k] # request[c].vals[k]

\* An edit is never replaced in the database by an older one.
NoStaleOverwrite ==
  [][\A r \in RowIds, k \in Keys :
       rows'[r].live => rows'[r].vals[k] >= rows[r].vals[k]]_rows

\* What the object shows is what the database holds, whatever fails.
MemoryMatchesDatabase ==
  \A a \in Accounts :
    id[a] # 0 /\ Ours(a) => /\ rows[id[a]].live
                            /\ mem[a] = rows[id[a]].vals

\* Settings without an account are left behind only for a row that another
\* process has deleted, and each of them is one that a store of this manager
\* took before the signal of that deletion, wrote, and reported as saved.
NoOrphanSettings ==
  \A r \in RowIds, k \in Keys :
    /\ ~rows[r].live
    /\ rows[r].vals[k] # 0
    => /\ r \in foreign
       /\ \E c \in Calls : /\ result[c] = "ok"
                           /\ request[c].row = r
                           /\ request[c].vals[k] = rows[r].vals[k]

\* "account-deleted" is emitted only for ids that are not in the database.
DeletedIsTrue == \A r \in removed : ~rows[r].live

\* Two account objects never stand for the same row, and the manager's hash
\* finds the object by the id it has.
IdsAreDistinct ==
  /\ \A a, b \in Accounts : id[a] = id[b] /\ id[a] # 0 => a = b
  /\ \A r \in RowIds : cache[r] # NoAccount => id[cache[r]] = r

\* Every account written by the manager was announced as created, unless the
\* store that should have created it failed.
CreatedIsAnnounced ==
  \A a \in Accounts \ Stored :
    id[a] # 0 => \/ id[a] \in created
                 \/ \E d \in Failed(a) : request[d].created

\* Every store that was called is answered.
EveryStoreAnswered ==
  \A c \in Calls : status[c] # "unused" ~> status[c] = "done"
-----------------------------------------------------------------------------
(***************************************************************************)
(* The refinement mapping to StoreContract.                                *)
(***************************************************************************)
AsEdits(x) == [vals |-> x.vals, delete |-> x.deleted]

AsOutcome(c) ==
  CASE result[c] = "ok" -> "ok"
    [] result[c] \notin {"none", "ok"} -> "error"
    [] result[c] = "none" /\ status[c] \in {"waiting", "sleeping"} -> "taken"
    [] OTHER -> "open"

AsTold(x) == IF x \in {"ok", "cancelled"} THEN x ELSE "error"

KeptIn(a) == IF id[a] = 0 THEN NoValues ELSE rows[id[a]].vals

Contract ==
  INSTANCE StoreContract WITH
    unsaved  <- [a \in Accounts |-> AsEdits(changes[a])],
    taken    <- [c \in Calls |-> AsEdits(request[c])],
    kept     <- [a \in Accounts |-> KeptIn(a)],
    deleted  <- {a \in Accounts : gone[a] /\ id[a] \notin foreign},
    vanished <- {a \in Accounts : id[a] \in foreign},
    outcome  <- [c \in Calls |-> AsOutcome(c)],
    told     <- [c \in Calls |-> IF status[c] \in Told
                                 THEN AsTold(Reported(c)) ELSE "nothing"]

\* The store functions keep the contract.
KeepsContract == Contract!Spec
=============================================================================
