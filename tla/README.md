# A formal model of libaccounts-glib

libaccounts-glib is a C library for the accounts a user has with online
services. Every process that uses it opens the same SQLite database and talks to
the others over D-Bus; there is no server. This directory specifies in TLA+ how
processes open and create the database, how accounts are stored, locally or by a
remote service, how the copies of an account in several processes are kept equal,
how services get their ids, how accounts and services are listed, and how the
settings in memory, in the database and in the objects derived from them stay in
agreement. TLC checks the modules on small instances, and TLAPS proves their safety
properties for all instances.

`PROJECT.json` lists the components, the runs, the definitions with the lines
they model, the hazards with the properties aimed at them, and the theorems.

## 1. The system

| Part | State it keeps | Operations |
| --- | --- | --- |
| `AgAccount` (ag-account.c) | pending `changes`, cached settings per service, `display_name`, `enabled`, `deleted`, the selected service, watches, `store_task` | set, select, delete, store (asynchronous, blocking), watch, applying changes that were committed here or signalled by others |
| `AgManager` (ag-manager.c) | database connection with its statements, hash of live accounts (weak references), hash of services, queue `locks` of stores waiting for the database, `emitted_signals`, `processed_signals`, `last_account_id` | create, load, list, run a transaction, emit and receive D-Bus signals |
| Database | tables Accounts, Services, Settings, a trigger that deletes settings | `BEGIN EXCLUSIVE`, statements, `COMMIT`, `ROLLBACK` |
| D-Bus | one signal path per service type, and one named global | broadcast to the subscribed managers, the sender included |
| `AgAccountService` (ag-account-service.c) | account, service, `enabled`, a watch and a signal handler | follows the account, emits `enabled` and `changed` |
| `AgAuthData` (ag-auth-data.c) | immutable snapshot of authentication settings | read with fallbacks, insert parameters |
| Services (ag-manager.c, ag-service.c) | hash of `AgService` objects, the Services table, data files | look up, insert, create from a D-Bus message, read the file late |
| Providers, service types, applications | parsed data files | search of the data directories, parsing, default settings |
| Remote store | none here | a D-Bus service stores for managers that cannot write the file |
| Tools (src/tools) | none | command line front end, backup |

How the parts interact:

- A *store* turns the changes of an account into SQL and takes them away from the
  account. The manager begins a transaction. If the database is locked by another
  process, an asynchronous store is put in an idle source of the main loop and a
  blocking store sleeps in the client's thread. After `COMMIT` the manager gives a
  new account its id, signals the changes on D-Bus, applies them to the account
  and emits its own signals, all before it returns.
- The *answer* of an asynchronous store is in a `GTask`, whose callback runs
  inside the retry or in a later iteration of the main loop. In between,
  `store_task`, the guard against a second store, depends on references and on a
  weak pointer.
- A *signal* reaches all managers. They drop copies they have seen, skip their own
  unless something came in between, and apply the others to the account in their
  hash, creating it for a while when it was created or deleted elsewhere.
- A manager that opened the file *read-only* sends the changes of an account to a
  D-Bus service, which stores them and replies with the account's id. They leave
  the account with the call, whatever becomes of it.
- A *service* gets its id from the first manager that meets it. Settings rows and
  signals name the service by this id; an object made from a signal takes it from
  the sender.
- Every *query* may find the database locked until it gives up after
  `db_timeout`; the caller then sees no rows. A listing is many queries.
- *Applying changes* runs callbacks of the client: watches, `enabled`, `deleted`.
  `AgAccountService` is such a client; its handler changes the selected service.

What is hard here: stores of one account that overlap, failures after the changes
have been taken from the account, cancellation that races with the commit, two
orders (of commits and of signals) that need not agree, copies of one signal that
arrive apart, data kept twice (columns and rows, fields and cached settings), and
handlers that run in the middle of an update. Per component, correctness means:

- **Stores**: one store of an account at a time; an answer of TRUE means written;
  an error means not written; nothing older replaces something newer; every call
  is answered; ids, hash and signals name the right account.
- **Notification**: once all signals are handled every cache shows the database,
  deleted accounts are dropped, everyone has been told, each signal once.
- **Settings**: memory, rows and columns agree; watches and account services are
  told of what they follow; a deletion is noticed.
- **Remote store and tools**: settings stay with the account they were written
  for; a command that reports no error has done what it was asked.
- **Database and services**: an open manager has the whole schema; all processes
  know a service by the same id, and its type does not change under a client.
- **Listings**: what was enabled all the time is listed, nothing else is.
- **Reading**: iterators and authentication data agree with single lookups.

## 2. Modules

| Module | What it is |
| --- | --- |
| `StoreContract` | abstract: what the store functions promise |
| `AccountStore` | detailed: stores through one manager, sharing the database with other processes |
| `AccountStore_proofs` | types of `AccountStore`, and its guard against a second store |
| `AccountStoreData_proofs` | what `AccountStore` leaves in the database and in memory, and that it implements `StoreContract` |
| `ChangeNotification` | several managers, the database and the bus, for one account |
| `ChangeNotification_proofs` | theorems about it |
| `AccountSettings` | one account: settings, watches, account services, another process |
| `AccountSettings_proofs` | theorems about it |
| `RemoteStore` | processes whose stores go through a D-Bus service, next to others that write |
| `AccountTool` | the commands of ag-tool, and long-lived clients, on top of `RemoteStore` |
| `AccountTool_proofs` | theorems about `AccountTool` and `RemoteStore` |
| `DatabaseOpen` | opening the file, `create_db()` statement by statement |
| `DataFiles` | which of several directories a data file is read from |
| `ServiceRegistry` | `AgService` objects and the Services table; extends the two above |
| `ServiceRegistry_proofs` | theorems about `DatabaseOpen` and `ServiceRegistry` |
| `AccountListings` | listings of accounts and services; extends `ServiceRegistry` |
| `AccountListings_proofs` | theorems about it; extends `ServiceRegistry_proofs` |
| `SettingsReading` | lookups, default settings, iterators |
| `AuthData` | authentication data; extends `SettingsReading` |
| `AuthData_proofs` | theorems about both |
| `MC*` | instances for TLC |

### AccountStore

One element of `Calls` is one call of `ag_account_store_async()` or
`ag_account_store_blocking()`, and `status` says where it is:

    unused -> waiting -> idle_callback -> done     database locked, retried by the main loop
    unused -> returned -> callback -> done         answered in the call, callback deferred
    unused -> sleeping -> done                     blocking, database locked
    unused -> done                                 blocking

| Variable | In the code |
| --- | --- |
| `changes`, `mem`, `gone`, `storeTask`, `id` | `priv->changes`, the cached settings, `priv->deleted`, `priv->store_task`, `account->id` |
| `request`, `result` | the changes and the SQL of a `StoreCbData`, the result in the `GTask` |
| `cache`, `lastId` | `priv->accounts`, `priv->last_account_id` of the manager |
| `rows`, `nextRow`, `dbLock` | the tables, AUTOINCREMENT, the exclusive lock |
| `created`, `removed` | ids the manager's signals have named |
| `lastEdit`, `wanted`, `foreign` | history only; `foreign` are the rows that another process has deleted |

`StoreRejected` ... `StoreNow` are the paths of `ag_account_store_async()` down to
the end of `exec_transaction()`; `Blocking*` those of the blocking function;
`Retry` and `RetryCancelled` are `exec_transaction_idle()`; `WakeBusy` and
`WakeNow` an iteration of the sleep loop. `EndCallback` is the death of a task and
the reset of `store_task` through its weak pointer; `EndIdleCallback` is
`_ag_account_store_completed()`, which drops the reference of whatever
`store_task` then points to. A transaction that fails (`ExecFails`,
`CommitFails`) leaves the rows alone, but not `last_account_id`, which a statement
of the transaction has set and no ROLLBACK puts back. Another process may hold the
lock (`OtherLocks`) and delete an account in its transaction (`OtherDeletes`); the
manager learns of it later, from a signal (`DeletionArrives`), and until then
stores go on being written for a row that is not there.

Values are numbers of edits, so that "older" and "newer" have a meaning for the
settings in the database. What a setting is called, its type and its text are
abstracted away. A store that removes a setting is in `AccountSettings`.

`StoreContract` says the same without rows, tasks and locks. A call takes all the
unsaved edits of its account, at one moment. It then writes every one of them over
what the account held, in one step, or it writes none and they are lost; a refused
call takes nothing. Its caller is told the one outcome once, except that a
cancelled `GCancellable` hides it.

The constant `Env` names what clients and environment do beyond the plain use:
`blocking`, `overtake`, `reuse`, `cancel`, `delete`, `delete_new`, `exec_fails`,
`commit_fails`, `others_delete`. Each is possible in the code; a run or a theorem
says which ones it admits, and section 5 says what happens under those that break
a property.

### ChangeNotification

One account, several managers, each with a hash entry, an inbox of delivered
copies and the two lists of timestamps. `Create`, `Update` and `Delete` are the
commit of `exec_transaction()`; `Emit` sends the copy for one service type, and the
last one also remembers the timestamp, applies the changes and tells the client,
since nothing else of that process runs in between. `Duplicate`, `SkipOwn` and
`Process` are the three ways through `dbus_filter_callback()`. The bus gives all
receivers the same order. A store sets its keys to its own number in the order
of commits, which is also its timestamp. `Env` says whether another process may
get in between a COMMIT and the signal (`gap`) or between two copies (`split`).

### AccountSettings

One account with its services, followed by `AgAccountService` objects, and another
process that stores or deletes it and signals this. The global name and enabled
live in columns, in rows and in fields, and the model keeps them apart as the code
does. `DoneChanges` is `_ag_account_done_changes()` with everything that runs
inside it: the update of memory, the watches, `enabled` and `deleted` with the
handler of `AgAccountService`. `enabled` is emitted in the middle of the update,
once for each `enabled` setting of the change, and each time the handler computes
its flag from what is in memory by then (`Orders`, `Applied`, `Flags`). The order
in which a hash table is walked and in which several handlers run is left open.
Transactions succeed here and at most one signal is under way; this account stores
only when none is. `unset_columns` in `Env` lets the client unset the global name
and enabled; the runs have it empty.

### RemoteStore and AccountTool

| Variable | In the code |
| --- | --- |
| `rows`, `settings`, `lastRow` | the tables, `sqlite_sequence` |
| `inserted`, `nth`, `by` | history: how many accounts were ever inserted, and for which of them a row or a setting was written |
| `object` | an `AgAccount` with `priv->changes` |
| `messages`, `awaited`, `blocked` | calls of the D-Bus store and their replies; who waits for one, in `g_dbus_connection_call_sync()` or not |
| `result` | the answer of the last store |
| `tool` | a command of ag-tool: its next call, the accounts left in its loop, the errors printed |

A row of Settings does not know for which account it was written, and nothing
checks `Settings.account`. The model adds that as history, numbering the accounts
in the order of their insertion. `StoreLocal`, `StoreRefused` and `Send` are the
three ways of a store, each of which takes the changes from the account, for good
if it fails; `Serve` and `Refuse` the service, which is not in the
repository and is taken to run the SQL of a local store; `StoreDone` and
`StoreFails` are `on_dbus_store_done()` and the same code in
`ag_manager_store_dbus_sync()`. A call can fail before or after it was served,
which is what a timeout is. A client may go on changing the account during an
asynchronous call (`Edit`).

A command of ag-tool is the sequence of its library calls (`Steps`), one action
per call. Each may fail; the error is printed, and the loop goes on or the command
ends. A query that times out is no error: `ag_manager_list()` then gives no
accounts (`List`), and an account that is there cannot be loaded. What differs
between commands only in what they print is one command here, as the comment on
`Steps` says.

### DatabaseOpen, DataFiles and ServiceRegistry

`RunStatement` is one statement of `create_db()`, each a transaction of its own;
`RetryScript` starts over when the database is locked; `DieOpening` is a process
that dies in between. `FindFile` is the search order of
`_ag_find_libaccounts_file()`, and what a file says is abstracted to the place it
was read from, so that "read from another file than before" can be told.
`SelectRow`, `InsertRow` and `SelectId` are the three queries of
`ag_manager_get_service()` with `add_service_to_db()` in the middle; `call` holds
its local variables, and other managers run in between. `Consult` is an
`AgService` that reads its file only when asked for something it lacks;
`HandleMessage` is `_ag_manager_get_service_lazy()` under the D-Bus handler.
`locks` is the number of queries that may still find the database locked for
the whole timeout. A manager with `abort-on-db-timeout` ends there
(`AbortOnTimeout`).

### AccountListings

`listing` is the function a manager is in with its local variables: the accounts
and the directories still to be read, the services to be loaded, the output. One
action is one query or one directory, and loading a service is
`ServiceRegistry`'s own sequence of queries. `during` is history: what the
database held since the call began.

`foreign` are the accounts of a manager that a signal has put in its hash
(`Receive`), `memory` the services that signals have said to be enabled in them,
and `news` the signals still on their way. `ag_account_list_enabled_services()`
makes no query for such an account and answers from memory (`FromMemory`). It is
kept for two seconds at least, and for as long as the application refers to it, so
`Release` may come at any time. Stores send their signal at once here; the gap
between the two, and signals about accounts that were loaded from the database,
are in `ChangeNotification`.

### SettingsReading and AuthData

`entries` and `cache` are the `AgServiceSettings` of the account, `selected` its
service, `loaded` the sections whose default settings were parsed. `iter` is an
iterator: its stage is that of `ag_account_settings_iter_get_next()`, and `left`
what remains of the hash it walks. A hash that changes under its iterator has no
defined rest, so `Disturb` leaves any of its keys. `NewAuthData` is
`_ag_auth_data_new()`, two iterations over two sections in one step, since nothing
of the process runs in between. Each of them walks first the settings and then the
defaults, as the iterator does, and not by lookups, which the snapshot is compared
with.

## 3. Runs

| Run | Instance | Shows |
| --- | --- | --- |
| `store` | 1 new account, 1 key, 3 calls, 3 edits, 2 locks by others, 2 sleeps; `blocking`, `delete`, `cancel`, `exec_fails`, `commit_fails`, `others_delete` | the safety properties below, and that `AccountStore` implements `StoreContract` |
| `store_live` | 2 accounts, one in the database, 3 calls; `blocking`, `cancel`, `commit_fails` | every store is answered, even after a COMMIT that left its transaction open; ids stay distinct |
| `store_reuse` | 1 new account, 3 calls; `reuse` | finding: two stores of one account wait |
| `store_delete` | 2 new accounts; `delete_new` | finding: the deletion of the wrong account is announced |
| `notify` | 2 managers on all paths, 2 service types, 3 stores, a window of 3, `split` | convergence, deletions, announcements; no double processing while there are not more stores than the window holds |
| `notify_order` | 2 stores, `gap` | finding: a cache stays stale |
| `notify_window` | as `notify`, with 4 stores and no loading | finding: a signal is processed twice |
| `settings` | 1 service and the global settings, 2 pending changes, 1 watch, 1 account service | memory, rows, columns, watches and followers agree |
| `tools` | 2 tools, one on a read-only file; 2 clients, one without D-Bus; 2 accounts, 2 remote calls | settings stay with their account; a deletion without an error has deleted |
| `services` | 2 managers, 2 services, 3 places, an old database with 1 lock or a new one with 2 | whole schema, one id per service, stable types |
| `listings` | 2 managers, 1 service, 1 lock; 2 accounts in the database, or 1 that is created, listed from the database or from memory | `ag_manager_get_enabled_account_services()` is right when no query times out and no signal about the account was late |
| `reading` | 1 service and the global settings, 3 keys, 2 values, 1 lock | iterations and authentication data agree with lookups |

Properties of `store`: `OnePendingStore`, `PendingIsGuarded`, `NoDanglingTask`
(the guard); `OkMeansSavedOrLost`, `ErrorMeansNotWritten`, `NoStaleOverwrite`,
`KeepsContract` (answers and data); `MemoryMatchesDatabase`, `NoOrphanSettings`,
`DeletedIsTrue`, `CreatedIsAnnounced` (the manager's bookkeeping).
`NoOrphanSettings` does not say that there are none: another process may delete
the account before a store writes its settings. It says that each of them was
written by a store of this manager for a row that another process has deleted, and
was reported as saved.

Properties of the others are stated, with the code behaviour they are about, in
the comment before each. `EnabledListingIsRight` excludes calls one of whose
queries timed out: the code then returns a shorter list without telling. Of the
accounts listed from memory it excludes those about which a signal was on its way
when the call began, since what the code then lists is what it was told
before; without this condition TLC finds an enabled service that is missing.
`QuietMeansGone` is about the accounts that `ag_manager_list()` has returned to the
command, which is none when that query timed out.
`IterationMatchesLookups` excludes loops whose hash, selection or data file
changed between two calls: the first is undefined in GLib, and after the second
the code mixes the defaults of two services (section 5).

### What the runs leave out

A property that holds in a run says nothing of what the run excludes. Excluded
through `Env`:

| Excluded | From | Hazards not seen there | Where they are |
| --- | --- | --- | --- |
| `reuse` | `store`, `store_live` | a second store while the callback of the last is due: the guard lost, the wrong task dropped | the guard in `store_reuse`; that `NoDanglingTask` fails too is in section 5 |
| `overtake` | all runs of `AccountStore` | a blocking store beside a waiting one: older over newer, a second insertion | section 5; the theorems that need it excluded name it |
| `delete_new` | all but `store_delete` | a deletion under the id of another account | `store_delete` |
| `gap` | all but `notify_order` | signals in another order than the commits | `notify_order` |
| `split` with more than 3 stores | all but `notify_window` | a late copy processed as a new signal | `notify_window` |
| `unset_columns` | `settings` | columns and rows with different rules for a value that is unset | section 5 |

Some properties allow what the code does, and so do not catch it; each says so
where it is stated:

- `OkMeansSavedOrLost` has a disjunct for the edits a failed store had taken. The
  code frees the changes with the failed transaction, so a later store answers
  TRUE without them. `StoreContract` loses them in the same way, and lets the
  answer "cancelled" stand for a store that was written.
- `CreatedIsAnnounced` allows an account whose first store failed not to be
  announced: the flag is lost with the changes.
- `NothingLeftPending` allows the entries of `emitted_signals` whose signal went to
  no path the manager listens to; they stay in the list.
- `IterationMatchesLookups` and `ParametersMatchLookups` compare with lookups in
  the same memory. A service whose settings could not be read is empty for both.

### Why the bounds are enough

A hazard of the store path involves a store that
waits, a second that meets it, and a third that is let in or refused, so three
calls; three edits give each its own; two locks let a store wait, run, and another
wait again. The limit of sleeps is 8 in the code and 2 here, where only "before the
limit" and "at the limit" differ. In `notify` three stores give a store of each
manager and one between them. The window keeps its real size of 3, so that three
stores are also as many as it is enough for: `notify` shows that no signal is
processed twice up to this number, and `notify_window` that the fourth store makes
the difference. A manager with
a service type gets the global path and its own, so two types are what it can tell
apart. In `settings` two pending changes make a pair in one store, such as name
with enabled or the account's with the service's. In `tools` two accounts are
the one that is deleted and the one that comes after it; two remote calls let one
be served late, after the caller gave up. In `services` two managers are the one
that inserts and the one that meets it, two services give the ids of one the
chance to be those of the other; the 11 runs of the script are 2 here, which
tells a retry from a give-up. One lock puts the timeout at each query in turn,
and two make the script give up.

The modules that compose others have large products of independent behaviour.
Their MC modules narrow these with a predicate `Bounds`, named and explained
there: in `tools`, the second tool only deletes and `c2` only creates, alone; in
`services`, one manager runs the script while the others open and close, and one
signal is under way; in `listings`, one manager lists and the other only stores,
and with the account that is created the listing is of what is enabled, data files
stay, and two signals at most are under way; in `reading`, an iterator and an
`AgAuthData` do not live at once. `Bounds` removes steps, never parts of a step.
What it removes is not checked by that run, and the theorems, which are about
`Spec`, do not depend on it.

Deadlock is not checked: clients may stop, and all runs end when their bounded
calls, edits and stores are used up.

### Fairness

Only `store_live` uses fairness: weak fairness of each call's own step (the main
loop keeps running and runs its sources, a sleep ends, a callback returns) and of
the release of the lock by other processes. A retry that finds the database locked
changes nothing; other processes lock it a bounded number of times, so weak
fairness is enough. With processes that lock it again and again the code has no
fairness of its own, since it polls, and the property would need strong fairness
that SQLite does not give. No client action is fair.

## 4. Proofs

Every safety property of every passing run is also a theorem, for all values of
the constants that satisfy the assumptions in the modules: any accounts, calls,
managers, services, keys and values, and any bounds. Each proof has the same
form: an inductive invariant, a lemma per action or group of actions that keeps
it, and the property as its consequence. The invariants are the explanation of
why the code works; this section names them.

Some theorems assume that clients or the environment do not do a certain thing
(a member of `Env`). When one of these is admitted next to what the theorem
allows, TLC finds the property violated on an instance of three calls or three
stores (for `split`, with a window of one timestamp), so that the assumption is
needed; section 5 tells the most important of these behaviours.

### The store: AccountStore_proofs and AccountStoreData_proofs

| Theorem | Property | Not in `Env` |
| --- | --- | --- |
| `TypeCorrect` | `TypeOK` | |
| `StoreTaskIsPending` | `PendingIsGuarded` | `reuse` |
| `StoreIsGuarded` | `OnePendingStore` | `reuse` |
| `TasksOutliveSources` | `NoDanglingTask` | `reuse` |
| `FailuresWriteNothing` | `ErrorMeansNotWritten` | |
| `IdsStayDistinct` | `IdsAreDistinct` | `delete_new` |
| `DeletionsAreTrue` | `DeletedIsTrue` | `delete_new` |
| `ObjectsMatchDatabase` | `MemoryMatchesDatabase` | `reuse`, `overtake` |
| `SettingsHaveAccounts` | `NoOrphanSettings` | `reuse`, `overtake` |
| `NothingOlderIsWritten` | `NoStaleOverwrite` | `reuse`, `overtake` |
| `SuccessIsTrue` | `OkMeansSavedOrLost` | `reuse`, `overtake` |
| `CreationsAreTold` | `CreatedIsAnnounced` | `overtake` |
| `StoreKeepsContract` | `KeepsContract` | `reuse`, `overtake`, `delete_new` |

`reuse` and `overtake` are a store of an account that begins before the last one
has been answered to the client: an asynchronous one inside the callback of the
last, or a blocking one while an asynchronous one waits. Without them there is
one store of an account at a time, which is what `store_task` is for.

- `GuardInv` adds to the guard where a task that was answered can stand while its
  callback is still due: the reset of `store_task` by a dying task is harmless
  only because no accepted store of that account is waiting then, and that holds
  because the client waited for the callback. It is all the three theorems about
  `store_task` need, with every member of `Env` but `reuse`, `overtake` included.
- `EditsInv` and `WrittenInv` say where an edit is: in the pending changes of its
  account, in the request of one store, or, once that store has succeeded, in the
  database, and never in two of the first. That a failed store has written
  nothing follows for all clients, since the code takes the changes away from the
  account when the store begins and frees them with it.
- `IdInv` says that no row number is used twice, that an id belongs to one object
  and that the hash has each object under its own id. A deletion of an account
  without an id breaks it, as `store_delete` shows: the manager then takes the id
  of the account it created last.
- `RowInv` is what one store at a time gives: the request that waits was made for
  the row the object still stands for, the row is there, and memory is what it
  holds, unless another process has deleted it. `MemoryMatchesDatabase` is part of
  it.
- `ForeignInv` says that a row another process has deleted stays deleted, because
  its number is never given out again, and `OrphanInv` that what Settings holds of
  it is what stores have written since. `NoOrphanSettings` follows from both and
  `RowInv`, under which no other row that is gone is ever written to.
- `OrderInv` says that in each account pending changes are newer than the request
  that waits, which is newer than what is stored. Hence nothing is overwritten by
  something older.
- `SavedInv` follows the last edit of each setting, and the edits each call was
  asked to store, to where they are: safe, in the changes, in the request, or
  taken by a store that failed. `BornInv` does the same for "this account is new".
- `FirstInv` is why a creation is announced even when `reuse` has undone the guard:
  the flag that says "this account is new" is taken by the first accepted store of
  the account, and before it there is no other task whose death could reset
  `store_task`. Once that store is over, the account is announced or the store has
  failed, whatever the later ones do.
- The refinement: `ToldInv` says that a call has its result by the time its
  callback runs, `UnmadeInv` that a call that was not made holds no edits, and
  `GoneInv` that an account deleted through the manager has a row, which is gone.
  Every action of `AccountStore` is shown to be a step of `StoreContract` under the
  mapping in `AccountStore`, or to leave the mapped variables alone. A step tells
  one caller at most (`AnswersOne`). That a successful transaction writes exactly
  the edits its call has taken, to the one row of the caller's account, needs
  `IdInv` and `RowInv`: the SQL was built when the call was made, and the account
  must still be the one it names. With `reuse` or `overtake` it is not, and TLC
  finds a step that the contract does not have.

### Notification: ChangeNotification_proofs

| Theorem | Property | Not in `Env` |
| --- | --- | --- |
| `TypeCorrect` | `TypeOK` | |
| `OwnSignalsAreForgotten` | `NothingLeftPending` | |
| `ClientsAreTold` | `EveryoneIsTold` | |
| `SignalsAreProcessedOnce` | `ProcessedOnce` | `split` |
| `TheWindowIsEnough` | `OnceWithinWindow` | |
| `DeletionsReachEveryHash` | `DeletedAreDropped` | `gap`, `split` |
| `CachesAreRight` | `CachesConverge` | `gap`, `split` |

They hold for any managers, service types, lists of paths a manager listens to,
and numbers of stores and of remembered timestamps; the run has two managers that
listen to all paths. The run admits `split`, which three of the theorems exclude:
with at most three stores and a window of three timestamps nothing is lost, which
is `TheWindowIsEnough`. With more stores a copy that arrives after a window full of
other signals is processed again (`notify_window`) and may put an old value back:
with four stores and `split` TLC finds `CachesConverge` violated too. Without
`split` neither happens, however many stores there are and however small the
window. `CachesConverge` needs that there is no `gap` either (`notify_order`).

- `SignalInv`: a signal on the list of its sender has a copy coming, if the sender
  listens to one of its paths, and has not been processed; what is in an inbox was
  committed and its sending has begun. `EveryoneIsTold` adds only that a creation
  or deletion that was not told is coming (`ToldInv`), so that neither theorem
  depends on the scheduling.
- `BlockInv`: if the copies of a signal are sent without another signal between
  them, they are consecutive in every inbox, so one timestamp would be enough to
  drop the second.
- `WindowInv`: the list of processed timestamps has none twice, so that one is
  pushed out only by as many others as the window holds; with no more stores than
  that, a signal that was processed is still in it.
- `OrderInv` and `DeliveredInv`: without a gap the inboxes are in the order of the
  commits, and what was sent is in the inbox or handled. `DroppedInv` derives from
  them that a hash that holds a deleted account has the signal of the deletion
  coming.
- `CacheInv` is convergence before the end: where the account lives, a setting in
  a cache is what the database holds, or the store that wrote that value is still
  coming and nothing after it is. A manager's own value stays because its own
  signal is skipped, or processed in its turn when another one came in between.

### Settings: AccountSettings_proofs

| Theorem | Property | Not in `Env` |
| --- | --- | --- |
| `TypeCorrect` | `TypeOK` | |
| `SettingsAreThoseStored` | `SettingsMatchDatabase` | |
| `DeletionsAreSeen` | `DeletionIsSeen` | |
| `WatchesOfServicesAreTold` | `ServiceWatchesAreTold` | |
| `FollowersFollow` | `FollowersAreRight` | |
| `ColumnsAgreeWithRows` | `ColumnsMatchRows` | `unset_columns` |
| `FieldsAreThoseStored` | `FieldsMatchDatabase` | `unset_columns` |

The properties speak of states in which no signal is under way. `MemoryInv` and
`FieldsInv` say what holds in the others: what differs is what the signal says,
and the signal says what the database has. `LifeInv` is about accounts that are
new, deleted, or deleted by a process whose signal has not come yet. `LoadedInv`
says that what is watched or followed is in memory; a watch would miss a change
that is read from the database instead. `FollowersInv` makes the cached `enabled`
of an `AgAccountService` a function of the account, although the code computes it
in handlers that run while a change is half applied, in any order of its settings:
the last of them sees all of the change (`LastFlag`). The columns and the rows of
a name are written by different statements; one that unsets the name removes the
row and leaves the column, which is what `unset_columns` does.

### Reading: AuthData_proofs

`IteratorsMatchLookups`, `ParametersAreThoseLookedUp` and `TypeCorrect` state
`IterationMatchesLookups`, `ParametersMatchLookups` and `TypeOK`, for any
settings, templates and prefixes and any order of the hash. `IterInv` says at
every stage of an iterator that what it has returned and what is left make up the
table; the defaults come after the account's own keys, without those the account
has. The proof found an earlier `Disturb` too narrow: for an iterator that walks
the defaults it asked that what is left be keys of the account's hash, so that
some changes of the account during the walk could not happen in the model.

### Remote store and tools: AccountTool_proofs

From `RemoteAssumption` and `ToolAssumption`:

- `NoInheritance` (`NoInheritedSettings`). `IndInv` says that the number of an
  account equals its id wherever the two meet: in the rows, in the settings of
  accounts that are there or gone, in the objects of processes, in calls that wait
  to be served and in replies. All of it follows from AUTOINCREMENT (`lastRow =
  inserted`): no id is given out twice, so a late call or a stale object can leave
  settings of a deleted account behind, but never give them to a new one. The part
  about replies is what needs an invariant: the caller takes the id of a reply,
  and the account may have been deleted since.
- `DeletionsAreReported` (`QuietMeansGone`). What a command is given is the
  account that was named, or the list that `ag_manager_list()` returned, which is
  empty when that query times out. `DeletionInv` says which of them are gone at
  each of its calls: all but those still in its loop and, while it stores or
  waits, the one it has loaded. A command that waits for the D-Bus service awaits
  the reply to that deletion and no other (`CalledInv`), and a reply with an id
  means that the account is gone.
- `TypeCorrect` (`TypeOK`): a command is always at one of its own calls, and a
  process blocks only on a call that it awaits.

### Database, services, listings: ServiceRegistry_proofs, AccountListings_proofs

- `CompleteDatabase` (`OpenMeansComplete`). `SchemaInv` says that a manager at
  statement n of the script finds the first n-1 done, which stays true under any
  interleaving because nothing is ever dropped, and that a database whose version
  is 1 is complete, because the version is written last.
- `ServiceIds` (`IdsMatchRows`). `RegistryInv` adds to the property the shape of
  what a call holds and that no message has the id 0. A row is inserted only for a
  service without one, which no object and no message can know yet; an id is only
  ever taken from a row or from a message. Neither theorem uses an assumption
  about the constants.
- `ServicesAreTyped` (`ServicesTypeOK`) and `TypesDoNotChange` (`TypesAreStable`).
  The last id is the number of rows (`TypeInv`), which bounds the ids by the
  number of services; no object ever lacks its type, so none is ever given one
  later; and what a query asks for is missing until it ends (`AskedIsMissing`), so
  that its answer replaces nothing. This last part holds because a manager blocked
  in a query handles no message.
- `EnabledListings` (`EnabledListingIsRight`) and `ListingsAreTyped` (`TypeOK`).
  `HeardInv` says that what a manager remembers, or is about to hear, is about
  accounts that were created, and `KnownInv` that the last signal on its way says
  what the database holds, and when there is none the memory does. `EnabledInv`
  follows a listing through its queries (`WatchInv`, `TodoInv`, `MemoryInv`,
  `ListInv`): what was enabled all the time is in an account still to be asked, in
  a service still to be loaded, or in the list, and memory does not change, as no
  signal is handled during the call. A service that is loaded is found because a
  setting names only services that have a row (`SettingsInv`), and rows stay for
  ever (`RowsKept`): the listing would otherwise have a NULL in place of a service
  whose data file was removed. `NoServiceAssumption`, that a NULL pointer is not
  an object, is used here: an object that was found is in the list as itself.

### What is only model-checked

Liveness: `EveryStoreAnswered` needs fairness and ENABLED, which are out of reach
of the prover. The four runs that end in a violation (`store_reuse`,
`store_delete`, `notify_order`, `notify_window`) are counterexamples, and nothing is
to be proved of them.

## 5. What the checks found

1. `store_reuse`: the weak pointer of a finished task clears `store_task` under
   its successor. A client that calls `ag_account_store_async()` between the answer
   and the return of its callback can then have two stores of one account waiting.
2. `store_delete`: deleting and storing an account that was never stored announces
   `account-deleted` for the last account this manager created.
3. `notify_order`: the signal is sent after the commit has released the database,
   so signals may be in another order than the commits; a cache can keep the older
   value.
4. `notify_window`: the copies of one signal are recognised by the last three
   timestamps only. When three other signals come between two copies, the second
   is processed as a new signal, and the older values it carries are written over
   newer ones in memory.

Also reached by the model when `Env` admits them, without a sentence of the
documentation that speaks of them: with `overtake`, a blocking store commits
while an asynchronous one waits and the retry writes the older value over the
newer (`NoStaleOverwrite`) or inserts the account again
(`MemoryMatchesDatabase`); with `reuse`, the second of the two stores does the
same, and the task of the waiting one may be dropped under its source
(`NoDanglingTask`). With `gap`, a manager may hear of a deletion before the
creation, and have the deleted account in its hash (`DeletedAreDropped`). With
`unset_columns`, the client unsets the global name or enabled: the row of Settings
goes, the column of Accounts stays as it was (`ColumnsMatchRows`), and the next
process that loads the account has it back (`FieldsMatchDatabase`).

Other behaviour met while modelling, with no run of its own:

- After a COMMIT that failed the manager may keep its transaction open, and the
  database locked for all others. Its own stores fail from then on; they are still
  answered (`EveryStoreAnswered`).
- `update_settings()` handles the global name and enabled with a `continue` before
  it looks for watches (ag-account.c:641), so that a watch on them is never
  invoked. `ag_account_watch_key()` says "@callback will be invoked whenever the
  value of @key changes" (ag-account.c:2355).
- An `AgAccountService` that gets disabled by its account or by a deletion emits
  `enabled` and not `changed`. ag-account-service.c:105 says that "one can just
  monitor the #AgAccountService::changed signal".
- One store that enables the account and disables the service, or the reverse, may
  have `enabled` emitted twice, for a state that never was in the database.
- `ag_manager_get_enabled_account_services()` lists an account that was put in the
  hash by a signal from memory (ag-account.c:1737). While the next signal about it
  is on its way, what was enabled since is missing, although the database holds it.
- `ag-tool delete-account all` does nothing, and prints no error, when the database
  stays locked during `ag_manager_list()` (src/tools/main.c:842).
- The changes of a remote store that fails are lost, as those of a failed local
  one. A remote store may time out and still be served.
- An account created remotely is not entered in the manager's hash.
- A setting stored for an account that another process has deleted meanwhile stays
  in Settings for ever, and the store is answered with TRUE. `NoOrphanSettings`
  says that this is the only way, and `NoInheritance` that no later account shows
  it.
- A query that times out while an account loads a service leaves an empty entry,
  which is never read again. One that times out in
  `ag_account_list_enabled_services()` leaves a NULL in the list.
- `ag_manager_list_by_service_type()` sees only services some manager has put in
  the Services table before; `ag_manager_list_enabled_by_service_type()` returns
  an account once per enabled service.
- A read-only manager cannot load a service that no one has put in the table, and
  fails to open when its query of the version finds the database locked and
  tables are missing.
- An iterator that turns to the defaults takes those of the service selected at
  that time, not of its own.
- What `ag_auth_data_insert_parameters()` inserts is not seen by
  `ag_auth_data_get_login_parameters()`.
- `_ag_manager_get_service_id()` repairs an object with id 0. `IdsMatchRows` shows
  that there is none.

## 6. What is not modelled

- The D-Bus service that stores for read-only managers: only what its callers see.
  A blocking store during an asynchronous remote creation, which would create the
  account twice, and the cancellation of a remote store.
- Parsing and conversion: XML data files, `GValue` and text, escaping of names,
  D-Bus messages, command lines. The models abstract a value to what can be told
  apart of it.
- Signatures (`ag_account_sign()` is a stub), logging, the Python overrides.
- The backup tool: a straight line of SQLite calls in a process of its own. Its
  result is overwritten by TRUE (src/tools/backup.c:128).
- The second return on a task that was cancelled while waiting
  (`exec_transaction_idle()` falls through to `g_task_return_boolean()`): what it
  does depends on the version of GLib.
- In listings: the time between a commit and its signal, signals about accounts
  that were loaded from the database, and
  `ag_manager_list_enabled_by_service_type()` of another type than the manager's.
- Crashes of a process between commit and signal, the disposal of a manager with
  stores waiting, handlers that store or remove watches while they run.

## 7. Plan

The order goes from the core outward.

1. `AccountStore` with `StoreContract`; `ChangeNotification`; `AccountSettings`;
   type correctness and the guard of the store proved. *Done.*
2. `DatabaseOpen`, `DataFiles`, `ServiceRegistry`, `AccountListings`. *Done.*
3. `SettingsReading`, `AuthData`. *Done.*
4. `RemoteStore` with `AccountTool`, and `NoInheritance` proved. *Done.*
5. Foreign accounts in listings, deletions by other processes in `AccountStore`,
   half-applied changes in `AccountSettings`. *Done.* Left: disposal of the manager
   with stores waiting; handlers that store again in `AccountSettings`; a second
   store during a remote one.
6. `DbusEscape` (injective) and the conversion of values, with a reference
   definition.
7. The safety properties of all runs proved, and that `AccountStore` implements
   `StoreContract`. *Done.* Left: theorems about what items 5 and 6 add.
