------------------------- MODULE ChangeNotification -------------------------
(***************************************************************************)
(* How the AgManagers of several processes keep their copies of an account *)
(* up to date.                                                             *)
(*                                                                         *)
(* A manager that has committed a transaction emits a D-Bus signal with    *)
(* the changes, one copy for each service type they touch, and remembers   *)
(* its timestamp in emitted_signals.  Every manager, the emitter included, *)
(* gets the copies on the paths it subscribed to and applies the changes   *)
(* to the AgAccount in its hash.  A copy is dropped when its timestamp is  *)
(* one of the last few of processed_signals, and a signal of the manager's *)
(* own is skipped, unless a signal of another one was handled first: then  *)
(* it must be processed again, to end with the last of the two values.     *)
(*                                                                         *)
(* The database and the bus are two orders: the order of the commits and   *)
(* the order of the signals.  The bus delivers in one order to everyone.   *)
(* One account is modelled.  A store sets each of its keys to a new value, *)
(* the number of the store, which is also the timestamp of its signal.     *)
(***************************************************************************)
EXTENDS Naturals, Sequences

CONSTANTS
  Managers,    (* AgManager objects, each with a connection of its own.     *)
  Types,       (* Service types of the services the account has.            *)
  Global,      (* The type "global" of the account's own settings.          *)
  Keys,        (* Settings.                                                 *)
  TypeOf,      (* The service type of the service a setting belongs to.     *)
  Listens,     (* Types on whose path each manager has subscribed; a        *)
               (* manager without a service type gets every path.           *)
  Window,      (* Timestamps kept in processed_signals; 3 in the code.      *)
  Env,         (* What the scheduling of the processes may do, see below.   *)
  MaxStores,   (* Bound: transactions committed.                            *)
  MaxLoads     (* Bound: times a manager loads the account.                 *)

(***************************************************************************)
(* The members of Env:                                                     *)
(*   "gap"    a process may be overtaken between its COMMIT and the first  *)
(*            copy of its signal                                           *)
(*   "split"  it may be overtaken between two copies                       *)
(***************************************************************************)
ASSUME ConstantsAssumption ==
  /\ Global \in Types
  /\ TypeOf \in [Keys -> Types]
  /\ Listens \in [Managers -> SUBSET Types]
  /\ \A m \in Managers : Global \in Listens[m]
  /\ Window \in Nat \ {0}
  /\ Env \subseteq {"gap", "split"}
  /\ MaxStores \in Nat
  /\ MaxLoads \in Nat

VARIABLES
  state,             (* The account's row: "absent", "live" or "deleted".   *)
  db,                (* The committed settings, 0 for a missing one.        *)
  sent,              (* The changes of each committed store, in the order   *)
                     (* of the commits.                                     *)
  outbox,            (* The store a manager is signalling, with the paths   *)
                     (* still to be sent.                                   *)
  inbox,             (* Copies delivered to each manager, by timestamp.     *)
  emittedSignals,    (* priv->emitted_signals.                              *)
  processedSignals,  (* priv->processed_signals, latest first.              *)
  loaded,            (* The manager's hash of accounts has the account.     *)
  foreign,           (* It was instantiated from a creation signal.         *)
  selected,          (* Types for which the account has AgServiceSettings.  *)
  mem,               (* The settings in them.                               *)
  loads,             (* Number of times the account was loaded.             *)
  applied,           (* History: how often a manager processed a signal.    *)
  announced          (* History: what each manager has told its client.     *)

dbVars      == <<state, db, sent>>
busVars     == <<outbox, inbox>>
signalVars  == <<emittedSignals, processedSignals>>
objectVars  == <<loaded, foreign, selected, mem>>
historyVars == <<applied, announced>>
vars        == <<dbVars, busVars, signalVars, objectVars, loads, historyVars>>
-----------------------------------------------------------------------------
Stores   == 1..MaxStores
Values   == [Keys -> 0..MaxStores]
NoValues == [k \in Keys |-> 0]

Change(c, d, ks) == [created |-> c, deleted |-> d, keys |-> ks]
Changes          == [created : BOOLEAN, deleted : BOOLEAN, keys : SUBSET Keys]

Idle == [store |-> 0, paths |-> {}]

Emitted == [ts : Stores, mustProcess : BOOLEAN]

TypeOK ==
  /\ state \in {"absent", "live", "deleted"}
  /\ db \in Values
  /\ sent \in Seq(Changes) /\ Len(sent) <= MaxStores
  /\ outbox \in [Managers -> [store : 0..MaxStores, paths : SUBSET Types]]
  /\ inbox \in [Managers -> Seq(Stores)]
  /\ emittedSignals \in [Managers -> SUBSET Emitted]
  /\ \A m \in Managers : \A d, e \in emittedSignals[m] :
       d.ts = e.ts => d = e
  /\ processedSignals \in [Managers -> Seq(Stores)]
  /\ \A m \in Managers : Len(processedSignals[m]) <= Window
  /\ loaded \in [Managers -> BOOLEAN]
  /\ foreign \in [Managers -> BOOLEAN]
  /\ selected \in [Managers -> SUBSET Types]
  /\ mem \in [Managers -> Values]
  /\ loads \in 0..MaxLoads
  /\ applied \in [Managers -> [Stores -> Nat]]
  /\ announced \in [Managers -> SUBSET {"created", "deleted"}]

TypesOf(keys) == {TypeOf[k] : k \in keys}

\* _ag_account_changes_get_service_types(): one path for each type touched,
\* and the global one for an account that was created or deleted.
Paths(change) ==
  TypesOf(change.keys)
    \cup (IF change.created \/ change.deleted THEN {Global} ELSE {})

\* The manager's thread is not inside exec_transaction().
Ready(m) == outbox[m] = Idle

\* Someone has committed and not sent anything yet.
Unsent(m) == ~Ready(m) /\ outbox[m].paths = Paths(sent[outbox[m].store])

\* Someone has sent some of the copies.
HalfSent(m) == ~Ready(m) /\ ~Unsent(m)

Allowed(what) == what \in Env

\* An account that exists has been loaded by every manager, with all of its
\* services.
Init ==
  /\ state \in {"absent", "live"}
  /\ db = NoValues
  /\ sent = <<>>
  /\ outbox = [m \in Managers |-> Idle]
  /\ inbox = [m \in Managers |-> <<>>]
  /\ emittedSignals = [m \in Managers |-> {}]
  /\ processedSignals = [m \in Managers |-> <<>>]
  /\ loaded = [m \in Managers |-> state = "live"]
  /\ foreign = [m \in Managers |-> FALSE]
  /\ selected = [m \in Managers |-> IF state = "live" THEN Types ELSE {}]
  /\ mem = [m \in Managers |-> NoValues]
  /\ loads = 0
  /\ applied = [m \in Managers |-> [s \in Stores |-> 0]]
  /\ announced = [m \in Managers |-> {}]
-----------------------------------------------------------------------------
(* The account object of a manager.                                        *)

Put(m, l, f, sel, vals) ==
  /\ loaded' = [loaded EXCEPT ![m] = l]
  /\ foreign' = [foreign EXCEPT ![m] = f]
  /\ selected' = [selected EXCEPT ![m] = sel]
  /\ mem' = [mem EXCEPT ![m] = vals]

\* The settings of the types ts are replaced by those in the database.
Read(vals, ts) ==
  [k \in Keys |-> IF TypeOf[k] \in ts THEN db[k] ELSE vals[k]]

\* ag_manager_load_account(): the new object selects its global settings.
Load(m) ==
  /\ Ready(m)
  /\ state = "live"
  /\ ~loaded[m]
  /\ loads < MaxLoads
  /\ loads' = loads + 1
  /\ Put(m, TRUE, FALSE, {Global}, Read(NoValues, {Global}))
  /\ UNCHANGED <<dbVars, busVars, signalVars, historyVars>>

\* ag_account_select_service(): settings are read when there are none yet.
Select(m, t) ==
  /\ Ready(m)
  /\ loaded[m]
  /\ t \notin selected[m]
  /\ Put(m, TRUE, foreign[m], selected[m] \cup {t}, Read(mem[m], {t}))
  /\ UNCHANGED <<dbVars, busVars, signalVars, loads, historyVars>>

\* The last reference goes: account_weak_notify() clears the hash's entry.
Release(m) ==
  /\ Ready(m)
  /\ loaded[m]
  /\ Put(m, FALSE, FALSE, {}, NoValues)
  /\ UNCHANGED <<dbVars, busVars, signalVars, loads, historyVars>>
-----------------------------------------------------------------------------
(***************************************************************************)
(* exec_transaction(): the commit, then signal_account_changes(), then the *)
(* manager's own copy of the account and its client.                       *)
(***************************************************************************)
Commit(m, change) ==
  /\ Ready(m)
  /\ Len(sent) < MaxStores
  /\ Allowed("gap") \/ \A n \in Managers : ~Unsent(n)
  /\ sent' = Append(sent, change)
  /\ outbox' = [outbox EXCEPT ![m] = [store |-> Len(sent) + 1,
                                      paths |-> Paths(change)]]
  /\ db' = IF change.deleted THEN NoValues
           ELSE [k \in Keys |-> IF k \in change.keys THEN Len(sent) + 1
                                ELSE db[k]]
  /\ UNCHANGED <<inbox, signalVars, loads, historyVars>>

\* The first store of a new account, which then enters the manager's hash.
\* Its services were selected, without anything to read.
Create(m, keys) ==
  /\ state = "absent"
  /\ Commit(m, Change(TRUE, FALSE, keys))
  /\ state' = "live"
  /\ Put(m, TRUE, FALSE, {Global} \cup TypesOf(keys), NoValues)

\* A store of some settings, also when another process has just deleted the
\* row and this manager does not know it yet.
Update(m, keys) ==
  /\ loaded[m]
  /\ keys # {} /\ TypesOf(keys) \subseteq selected[m]
  /\ Commit(m, Change(FALSE, FALSE, keys))
  /\ UNCHANGED <<state, objectVars>>

Delete(m) ==
  /\ loaded[m]
  /\ Commit(m, Change(FALSE, TRUE, {}))
  /\ state' = "deleted"
  /\ UNCHANGED objectVars

\* update_settings(): the settings of services that were never selected are
\* left alone, unless the account is foreign.
Known(change, f, sel) == IF f THEN sel \cup TypesOf(change.keys) ELSE sel

Overlay(vals, change, ts, sel) ==
  [k \in Keys |-> IF k \in change.keys /\ TypeOf[k] \in sel THEN ts
                  ELSE vals[k]]

\* Mutant: a deleted account stays in the hash.
DoneChanges_keepsDeleted(m, ts, f, sel, vals) ==
  LET known == Known(sent[ts], f, sel)
  IN  Put(m, TRUE, f, known, Overlay(vals, sent[ts], ts, known))

\* _ag_account_done_changes() on an account that is in the hash, and the
\* handler of "account-deleted" that takes it out.
DoneChanges(m, ts, f, sel, vals) ==
  LET change == sent[ts]
      known  == Known(change, f, sel)
  IN  IF change.deleted
      THEN Put(m, FALSE, FALSE, {}, NoValues)
      ELSE Put(m, TRUE, f, known, Overlay(vals, change, ts, known))

\* Mutant: nothing is emitted for an account that is not in the hash.
Announce_loadedOnly(m, change) ==
  announced' = [announced EXCEPT ![m] =
                  @ \cup (IF change.created /\ loaded[m] THEN {"created"} ELSE {})
                    \cup (IF change.deleted /\ loaded[m] THEN {"deleted"} ELSE {})]

Announce(m, change) ==
  announced' = [announced EXCEPT ![m] =
                  @ \cup (IF change.created THEN {"created"} ELSE {})
                    \cup (IF change.deleted THEN {"deleted"} ELSE {})]

\* One copy of the signal goes to the managers that listen on its path.
Deliver(ts, path) ==
  inbox' = [n \in Managers |-> IF path \in Listens[n]
                               THEN Append(inbox[n], ts) ELSE inbox[n]]

\* After the last copy the signal is remembered, the changes are done and
\* the client is told, before anything else runs in this process.
Emit(m, path) ==
  LET ts   == outbox[m].store
      left == outbox[m].paths \ {path}
  IN  /\ path \in outbox[m].paths
      /\ Allowed("split") \/ \A n \in Managers \ {m} : ~HalfSent(n)
      /\ Deliver(ts, path)
      /\ IF left = {}
         THEN /\ outbox' = [outbox EXCEPT ![m] = Idle]
              /\ emittedSignals' = [emittedSignals EXCEPT ![m] =
                                      @ \cup {[ts |-> ts,
                                               mustProcess |-> FALSE]}]
              /\ DoneChanges(m, ts, foreign[m], selected[m], mem[m])
              /\ Announce(m, sent[ts])
         ELSE /\ outbox' = [outbox EXCEPT ![m] =
                                 [store |-> ts, paths |-> left]]
              /\ UNCHANGED <<emittedSignals, objectVars, announced>>
      /\ UNCHANGED <<dbVars, processedSignals, loads, applied>>
-----------------------------------------------------------------------------
(***************************************************************************)
(* dbus_filter_callback() on the next copy in the inbox.                   *)
(***************************************************************************)
Arrives(m, ts) ==
  /\ Ready(m)
  /\ inbox[m] # <<>>
  /\ ts = Head(inbox[m])
  /\ inbox' = [inbox EXCEPT ![m] = Tail(@)]
  /\ UNCHANGED <<outbox, dbVars, loads>>

\* check_signal_processed().
Processed(m, ts) ==
  \E i \in DOMAIN processedSignals[m] : processedSignals[m][i] = ts

\* Mutant: one timestamp too few is kept.
Remember_fewer(m, ts) ==
  processedSignals' =
    [processedSignals EXCEPT ![m] = SubSeq(<<ts>> \o @, 1,
       IF Len(@) < Window - 1 THEN Len(@) + 1 ELSE Window - 1)]

Remember(m, ts) ==
  processedSignals' =
    [processedSignals EXCEPT ![m] = SubSeq(<<ts>> \o @, 1,
       IF Len(@) < Window THEN Len(@) + 1 ELSE Window)]

Ours(m, ts)        == \E e \in emittedSignals[m] : e.ts = ts
MustProcess(m, ts) == [ts |-> ts, mustProcess |-> TRUE] \in emittedSignals[m]

\* A copy of a signal seen before.
Duplicate(m, ts) ==
  /\ Arrives(m, ts)
  /\ Processed(m, ts)
  /\ UNCHANGED <<signalVars, objectVars, historyVars>>

\* Our own signal: its changes were processed when the transaction succeeded.
SkipOwn(m, ts) ==
  /\ Arrives(m, ts)
  /\ ~Processed(m, ts)
  /\ Ours(m, ts) /\ ~MustProcess(m, ts)
  /\ Remember(m, ts)
  /\ emittedSignals' = [emittedSignals EXCEPT ![m] =
                          {e \in @ : e.ts # ts}]
  /\ UNCHANGED <<objectVars, historyVars>>

\* Mutant: nothing is marked.
MarkPending_forgets(m, ts) ==
  emittedSignals' = [emittedSignals EXCEPT ![m] = {x \in @ : x.ts # ts}]

\* Mutant: the signal that must be processed is not taken off the list.
MarkPending_keepsOwn(m, ts) ==
  emittedSignals' = [emittedSignals EXCEPT ![m] =
    {[ts |-> e.ts, mustProcess |-> TRUE] : e \in @}]

\* Mutant: a marked copy is put beside the entry.
MarkPending_copies(m, ts) ==
  emittedSignals' = [emittedSignals EXCEPT ![m] =
    LET rest == {x \in @ : x.ts # ts}
    IN  rest \cup {[ts |-> e.ts, mustProcess |-> TRUE] : e \in rest}]

\* The signals of ours that did not come back yet must be processed: the
\* current one may modify what they modified.
MarkPending(m, ts) ==
  emittedSignals' = [emittedSignals EXCEPT ![m] =
    {[ts |-> e.ts, mustProcess |-> TRUE] : e \in {x \in @ : x.ts # ts}}]

\* An account that was created or deleted elsewhere is instantiated.
Process(m, ts) ==
  LET change == sent[ts]
  IN  /\ Arrives(m, ts)
      /\ ~Processed(m, ts)
      /\ Ours(m, ts) => MustProcess(m, ts)
      /\ Remember(m, ts)
      /\ MarkPending(m, ts)
      /\ IF loaded[m]
         THEN DoneChanges(m, ts, foreign[m], selected[m], mem[m])
         ELSE IF (change.created \/ change.deleted) /\ ~Ours(m, ts)
         THEN DoneChanges(m, ts, change.created, {}, NoValues)
         ELSE UNCHANGED objectVars
      /\ Announce(m, change)
      /\ applied' = [applied EXCEPT ![m] =
                       [applied[m] EXCEPT ![ts] = applied[m][ts] + 1]]

Receive(m) ==
  \E ts \in Stores : Duplicate(m, ts) \/ SkipOwn(m, ts) \/ Process(m, ts)
-----------------------------------------------------------------------------
Client(m) ==
  \/ Load(m)
  \/ Release(m)
  \/ \E t \in Types : Select(m, t)
  \/ \E keys \in SUBSET Keys : Create(m, keys) \/ Update(m, keys)
  \/ Delete(m)

Work(m) == Receive(m) \/ \E path \in Types : Emit(m, path)

Next == \E m \in Managers : Client(m) \/ Work(m)

Spec == Init /\ [][Next]_vars
-----------------------------------------------------------------------------
(* Properties.                                                             *)

\* The manager has handled every signal sent so far, and no store is under
\* way anywhere.
AtRest(m) == inbox[m] = <<>> /\ \A n \in Managers : Ready(n)

\* A manager that has handled all signals shows what the database holds, for
\* every service whose changes it listens to.
CachesConverge ==
  \A m \in Managers : AtRest(m) /\ loaded[m] =>
    \A k \in Keys : TypeOf[k] \in selected[m] \cap Listens[m] =>
      mem[m][k] = db[k]

\* No manager keeps an account in its hash once it knows of the deletion.
DeletedAreDropped ==
  \A m \in Managers : AtRest(m) /\ loaded[m] => state = "live"

\* Every manager has told its client that an account was created or deleted
\* once the signals have been handled.
EveryoneIsTold ==
  \A m \in Managers, s \in DOMAIN sent : AtRest(m) =>
    /\ sent[s].created => "created" \in announced[m]
    /\ sent[s].deleted => "deleted" \in announced[m]

\* "Do not process the same signal more than once" (ag-manager.c:724), however
\* many of its copies a manager receives and whatever comes between them.
ProcessedOnce == \A m \in Managers, s \in Stores : applied[m][s] <= 1

\* What a window of timestamps is enough for: a copy is taken for a new signal
\* only when more stores than the window holds have been signalled.
OnceWithinWindow ==
  (\E m \in Managers, s \in Stores : applied[m][s] > 1) => Len(sent) > Window

\* A manager forgets its own signals once they have come back to it.
NothingLeftPending ==
  \A m \in Managers : AtRest(m) =>
    \A e \in emittedSignals[m] : Paths(sent[e.ts]) \cap Listens[m] = {}
=============================================================================
