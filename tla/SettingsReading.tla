-------------------------- MODULE SettingsReading ---------------------------
(***************************************************************************)
(* How an application reads the settings of an account: single values,     *)
(* with the defaults of service and provider behind them, and iterators,   *)
(* which return the same values one at a time while anything may happen    *)
(* between two calls.                                                      *)
(*                                                                         *)
(* All of it acts on the service that is selected on the account.  An      *)
(* AgAccountService selects its own before it reads a value, or starts an  *)
(* iterator, but not when the iterator goes on.                            *)
(***************************************************************************)
EXTENDS Naturals, FiniteSets

CONSTANTS
  Services,   (* Services of the account.                                   *)
  Global,     (* No service is selected.                                    *)
  Keys,       (* Names of settings.                                         *)
  Values,     (* What a setting can be.                                     *)
  NoValue,    (* It is not set.                                             *)
  Template,   (* The default settings in a data file: those of a service,   *)
              (* or of the provider, for Global.                            *)
  Prefixes    (* Sets of keys that start alike.                             *)

Sections == Services \cup {Global}
Settings == [Keys -> Values \cup {NoValue}]

ASSUME ReadingAssumption ==
  /\ IsFiniteSet(Services)
  /\ Global \notin Services /\ NoValue \notin Values
  /\ Template \in [Sections -> Settings]
  /\ Prefixes \subseteq SUBSET Keys

VARIABLES
  rows,       (* The settings of each section in the database.              *)
  entries,    (* Sections with an AgServiceSettings,                        *)
  cache,      (* and its hash table.                                        *)
  selected,   (* priv->service.                                             *)
  installed,  (* Sections whose data file can be read.                      *)
  loaded,     (* Those whose default settings have been.                    *)
  iter,       (* An AgAccountSettingIter.                                   *)
  locks       (* Bound: queries that may still find the database locked.    *)

accountVars == <<rows, entries, cache, selected>>
fileVars    == <<installed, loaded>>
vars        == <<accountVars, fileVars, iter, locks>>
-----------------------------------------------------------------------------
Nothing == [k \in Keys |-> NoValue]

KeysOf(settings) == {k \in Keys : settings[k] # NoValue}

\* An iterator: the section it was made for, and the section whose defaults it
\* has turned to; what is left of the table it walks; what it has returned.
Iterator == [stage : {"none", "account", "unset", "service", "done"},
             section : Sections, from : Sections, prefix : SUBSET Keys,
             left : SUBSET Keys, seen : SUBSET (Keys \X Values),
             disturbed : BOOLEAN]

NoIterator == [stage |-> "none", section |-> Global, from |-> Global,
               prefix |-> {}, left |-> {}, seen |-> {}, disturbed |-> FALSE]

ReadingTypeOK ==
  /\ rows \in [Sections -> Settings]
  /\ entries \subseteq Sections
  /\ cache \in [Sections -> Settings]
  /\ selected \in Sections
  /\ installed \subseteq Sections /\ loaded \subseteq Sections
  /\ iter \in Iterator
  /\ locks \in Nat

\* ag_account_initable_init() has selected the global settings, unless the
\* account is one that a signal has created.
ReadingInit ==
  /\ rows \in [Sections -> Settings]
  /\ \/ entries = {Global} /\ cache = [s \in Sections |->
                                         IF s = Global THEN rows[s] ELSE Nothing]
     \/ entries = {} /\ cache = [s \in Sections |-> Nothing]
  /\ selected = Global
  /\ installed = Sections /\ loaded = {}
  /\ iter = NoIterator
  /\ locks \in Nat
-----------------------------------------------------------------------------
(* Selecting and looking up.                                               *)

Walks(s) == iter.stage # "none" /\ iter.section = s

\* Walking a table whose keys have been inserted or removed has no defined
\* outcome: any of its keys may be left.
Disturb(s, newCache) ==
  LET rehashed == /\ iter.stage = "account"
                  /\ KeysOf(newCache[s]) # KeysOf(cache[s])
  IN  IF ~Walks(s) THEN iter' = iter
      ELSE \E left \in IF rehashed THEN SUBSET KeysOf(newCache[s])
                       ELSE {iter.left} :
             iter' = [iter EXCEPT !.left = left, !.disturbed = TRUE]

\* get_service_settings() and the query for the sections in "of" which have no
\* entry yet; one that finds the database locked leaves its entry empty.
ReadSections(of) ==
  \E failed \in SUBSET (of \ entries) :
    /\ Cardinality(failed) <= locks
    /\ locks' = locks - Cardinality(failed)
    /\ entries' = entries \cup of
    /\ cache' = [s \in Sections |-> CASE s \in of \ (entries \cup failed) -> rows[s]
                                      [] s \in failed -> Nothing
                                      [] OTHER -> cache[s]]

\* ag_account_select_service().
SelectService(s) ==
  /\ selected' = s
  /\ ReadSections({s})
  /\ IF s \in entries THEN iter' = iter ELSE Disturb(s, cache')
  /\ UNCHANGED <<rows, fileVars>>

Readable == loaded \cup installed

\* The default settings of a service or of the provider, read when they are
\* first needed: _ag_service_load_default_settings() and its like.
Defaults(s) == IF s \in Readable THEN Template[s] ELSE Nothing

\* ag_account_get_variant() with section s selected.
Lookup(tables, s, k) ==
  IF tables[s][k] # NoValue THEN tables[s][k] ELSE Defaults(s)[k]

\* The application asks for a value, and the defaults are loaded for it.
GetVariant(k) ==
  /\ cache[selected][k] = NoValue
  /\ loaded' = loaded \cup ({selected} \cap installed)
  /\ UNCHANGED <<accountVars, installed, iter, locks>>
-----------------------------------------------------------------------------
(* Iterators.                                                              *)

\* _ag_account_settings_iter_init().
BeginIteration(prefix) ==
  /\ iter.stage = "none"
  /\ iter' = [NoIterator EXCEPT
                !.stage = IF selected \in entries THEN "account" ELSE "unset",
                !.section = selected, !.prefix = prefix,
                !.left = KeysOf(cache[selected])]
  /\ UNCHANGED <<accountVars, fileVars, locks>>

\* Mutant: overridden defaults are returned too.
NotOverridden_all(keys, own) == keys

\* Of the keys of defaults, those the settings of the account do not override.
NotOverridden(keys, own) == keys \ KeysOf(own)

\* The keys that may come next; overriding is looked up in the section that is
\* selected now.
Choice(it) ==
  IF it.stage = "account" THEN it.left \cap it.prefix
  ELSE NotOverridden(it.left \cap it.prefix, cache[selected])

\* ag_account_settings_iter_get_next(): the account's settings first, and when
\* they are over, in the same call, the defaults of the section selected now.
IterationNext ==
  LET turns  == \/ iter.stage = "unset"
                \/ iter.stage = "account" /\ iter.left \cap iter.prefix = {}
      it     == IF ~turns THEN iter
                ELSE [iter EXCEPT !.from = selected, !.stage = "service",
                                  !.left = KeysOf(Defaults(selected))]
      value(k) == IF it.stage = "account" THEN cache[it.section][k]
                  ELSE Template[it.from][k]
      strayed == iter.disturbed \/ selected # iter.section
  IN  /\ iter.stage \in {"account", "unset", "service"}
      /\ \/ \E k \in Choice(it) :
              iter' = [it EXCEPT !.seen = @ \cup {<<k, value(k)>>},
                                 !.left = @ \ {k}, !.disturbed = strayed]
         \/ Choice(it) = {}
            /\ iter' = [it EXCEPT !.stage = "done", !.left = {},
                                  !.disturbed = strayed]
      /\ loaded' = IF turns THEN loaded \cup ({selected} \cap installed)
                   ELSE loaded
      /\ UNCHANGED <<accountVars, installed, locks>>

\* ag_account_settings_iter_free(), when the loop is over or left early.
EndIteration ==
  /\ iter.stage # "none"
  /\ iter' = NoIterator
  /\ UNCHANGED <<accountVars, fileVars, locks>>
-----------------------------------------------------------------------------
(* What happens in between.                                                *)

\* A store, of this process or another, reaches the database and the object.
\* How is the subject of ChangeNotification and AccountSettings.
Change(s, k, v) ==
  /\ rows' = [rows EXCEPT ![s][k] = v]
  /\ cache' = IF s \in entries THEN [cache EXCEPT ![s][k] = v] ELSE cache
  /\ Disturb(s, cache')
  /\ UNCHANGED <<entries, selected, fileVars, locks>>

\* A data file is removed, or comes back.
Install(s) ==
  /\ installed' = IF s \in installed THEN installed \ {s} ELSE installed \cup {s}
  /\ iter' = [iter EXCEPT !.disturbed = @ \/ Walks(s)]
  /\ UNCHANGED <<accountVars, loaded, locks>>

Reading ==
  \/ \E s \in Sections : SelectService(s) \/ Install(s)
  \/ \E k \in Keys : GetVariant(k)
  \/ \E prefix \in Prefixes : BeginIteration(prefix)
  \/ IterationNext \/ EndIteration
  \/ \E s \in Sections, k \in Keys, v \in Values \cup {NoValue} : Change(s, k, v)
-----------------------------------------------------------------------------
\* A loop over an iterator that nothing has disturbed, neither a change of
\* those settings nor, between two calls, the selection of another service,
\* has returned each key with the value that ag_account_get_variant() gives
\* for it, the overridden defaults not once more, and no other key.
IterationMatchesLookups ==
  iter.stage = "done" /\ ~iter.disturbed =>
    iter.seen = {<<k, Lookup(cache, iter.section, k)>> : k \in
                   {k \in iter.prefix :
                      Lookup(cache, iter.section, k) # NoValue}}
=============================================================================
