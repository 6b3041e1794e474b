---------------------------- MODULE DatabaseOpen ----------------------------
(***************************************************************************)
(* How managers open the accounts database, and create its tables when it  *)
(* has none.                                                               *)
(*                                                                         *)
(* create_db() runs one script in which every statement is a transaction   *)
(* of its own: another manager may run between two of them, find the       *)
(* database locked, or find what a process that died has left.  What tells *)
(* the next manager that nothing is missing is the user_version, which the *)
(* script writes last.                                                     *)
(***************************************************************************)
EXTENDS Naturals, Sequences

CONSTANTS
  Managers,   (* AgManager objects, each in a process of its own.           *)
  ReadOnly,   (* Those that may not write the database file.                *)
  MaxTries    (* Bound: times create_db() runs its script; 11 in the code.  *)

ASSUME OpenAssumption ==
  /\ ReadOnly \subseteq Managers
  /\ MaxTries \in Nat \ {0}

VARIABLES
  schema,     (* What CREATE statements have put in the database.           *)
  version,    (* PRAGMA user_version.                                       *)
  phase,      (* How far ag_manager_initable_init() is.                     *)
  statement,  (* The statement of the script to run next.                   *)
  tries,      (* Times the script has been started.                         *)
  locks       (* Bound: times a query may still find the database locked by *)
              (* some other program until it gives up.                      *)

openVars == <<schema, version, phase, statement, tries>>
-----------------------------------------------------------------------------
Objects == {"Accounts", "Services", "idx_service", "Settings", "idx_setting",
            "tg_delete_account", "Signatures", "idx_signatures"}

\* Mutant: the version is written first, so that nobody creates the tables
\* twice.
Script_versionFirst ==
  <<"user_version", "Accounts", "Services", "idx_service", "Settings",
    "idx_setting", "tg_delete_account", "Signatures", "idx_signatures">>

\* The statements of create_db(), in their order.
Script ==
  <<"Accounts", "Services", "idx_service", "Settings", "idx_setting",
    "tg_delete_account", "Signatures", "idx_signatures", "user_version">>

OpenTypeOK ==
  /\ schema \subseteq Objects
  /\ version \in 0..1
  /\ phase \in [Managers -> {"closed", "opened", "creating", "ready", "open"}]
  /\ statement \in [Managers -> 1..Len(Script) + 1]
  /\ tries \in [Managers -> 0..MaxTries]
  /\ locks \in Nat

\* The database is new, or an old one.
OpenInit ==
  /\ \/ schema = {} /\ version = 0
     \/ schema = Objects /\ version = 1
  /\ phase = [m \in Managers |-> "closed"]
  /\ statement = [m \in Managers |-> 1]
  /\ tries = [m \in Managers |-> 0]
  /\ locks \in Nat

\* A query finds the database locked until it gives up.
Locked    == locks > 0 /\ locks' = locks - 1
NotLocked == UNCHANGED locks

\* create_db() forgets where it was when it returns.
Enter(m, p) ==
  /\ phase' = [phase EXCEPT ![m] = p]
  /\ statement' = [statement EXCEPT ![m] = 1]
  /\ tries' = [tries EXCEPT ![m] = IF p = "creating" THEN 1 ELSE 0]
-----------------------------------------------------------------------------
\* sqlite3_open_v2(); a read-only file exists already.
OpenFile(m) ==
  /\ phase[m] = "closed"
  /\ m \in ReadOnly => version = 1 \/ schema # {}
  /\ Enter(m, "opened")
  /\ UNCHANGED <<schema, version, locks>>

\* get_db_version(), and what open_db() makes of the answer; a locked
\* database has version 0.
GetDbVersion(m) ==
  /\ phase[m] = "opened"
  /\ \/ Locked /\ Enter(m, "creating")
     \/ NotLocked /\ Enter(m, IF version < 1 THEN "creating" ELSE "ready")
  /\ UNCHANGED <<schema, version>>

\* CREATE ... IF NOT EXISTS: only what is missing is written.
Missing(s) == IF s = "user_version" THEN TRUE ELSE s \notin schema

RunStatement(m) ==
  LET s == Script[statement[m]]
  IN  /\ phase[m] = "creating" /\ statement[m] <= Len(Script)
      /\ NotLocked
      /\ IF m \in ReadOnly /\ Missing(s)
         THEN Enter(m, "closed") /\ UNCHANGED <<schema, version>>
         ELSE /\ schema' = schema \cup ({s} \cap Objects)
              /\ version' = IF s = "user_version" THEN 1 ELSE version
              /\ statement' = [statement EXCEPT ![m] = @ + 1]
              /\ UNCHANGED <<phase, tries>>

\* Mutant: the script is tried once more.
RetryScript_oneMore(m) ==
  /\ phase[m] = "creating" /\ statement[m] <= Len(Script)
  /\ Locked
  /\ IF tries[m] <= MaxTries
     THEN /\ tries' = [tries EXCEPT ![m] = @ + 1]
          /\ statement' = [statement EXCEPT ![m] = 1]
          /\ UNCHANGED phase
     ELSE Enter(m, "closed")
  /\ UNCHANGED <<schema, version>>

\* SQLITE_BUSY: the script is run again from its start, or open_db() fails.
RetryScript(m) ==
  /\ phase[m] = "creating" /\ statement[m] <= Len(Script)
  /\ Locked
  /\ IF tries[m] < MaxTries
     THEN /\ tries' = [tries EXCEPT ![m] = @ + 1]
          /\ statement' = [statement EXCEPT ![m] = 1]
          /\ UNCHANGED phase
     ELSE Enter(m, "closed")
  /\ UNCHANGED <<schema, version>>

FinishScript(m) ==
  /\ phase[m] = "creating" /\ statement[m] > Len(Script)
  /\ Enter(m, "ready")
  /\ UNCHANGED <<schema, version, locks>>

\* ag_manager_initable_init() succeeds when setup_dbus() does.
SetupDbus(m) ==
  /\ phase[m] = "ready"
  /\ Enter(m, "open") \/ Enter(m, "closed")
  /\ UNCHANGED <<schema, version, locks>>

\* The process dies while it opens the database.
DieOpening(m) ==
  /\ phase[m] \in {"opened", "creating"}
  /\ Enter(m, "closed")
  /\ UNCHANGED <<schema, version, locks>>

Opening(m) ==
  \/ OpenFile(m) \/ GetDbVersion(m) \/ RunStatement(m) \/ RetryScript(m)
  \/ FinishScript(m) \/ SetupDbus(m) \/ DieOpening(m)
-----------------------------------------------------------------------------
\* A manager that is open has every table, index and trigger its queries rely
\* on, whoever created them and whoever died or was locked out on the way:
\* without the trigger, deleted accounts would leave their settings behind.
OpenMeansComplete == \A m \in Managers : phase[m] = "open" => schema = Objects
=============================================================================
