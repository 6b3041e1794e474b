--------------------------- MODULE ServiceRegistry --------------------------
(***************************************************************************)
(* The AgService objects of managers in several processes, and the         *)
(* Services table, where the first manager to meet a service gives it the  *)
(* id that rows of Settings and messages know it by.                       *)
(*                                                                         *)
(* ag_manager_get_service() is a sequence of queries, between which other  *)
(* managers run; each query may find the database locked until it gives    *)
(* up.  A D-Bus message about a service creates the object without         *)
(* touching the database.  What an object lacks it reads later from the    *)
(* data file, which may have been installed, replaced or removed since.    *)
(***************************************************************************)
EXTENDS DatabaseOpen, DataFiles, FiniteSets

CONSTANTS
  Services,   (* Names of services.                                         *)
  Plain,      (* Those whose files have no template.                        *)
  WithEnv,    (* Managers with AG_SERVICES in their environment.            *)
  Aborting,   (* Managers with abort-on-db-timeout.                         *)
  NoService,  (* A NULL AgService pointer.                                  *)
  Installed   (* Bound: the places a package may put a data file in.        *)

ASSUME RegistryAssumption ==
  /\ IsFiniteSet(Services)
  /\ Plain \subseteq Services
  /\ WithEnv \cup Aborting \subseteq Managers
  /\ NoService \notin Services
  /\ Installed \subseteq SUBSET Places

VARIABLES
  row,        (* The id and place of each service in Services, id 0: none.  *)
  lastId,     (* The last id AUTOINCREMENT gave out.                        *)
  files,      (* The places each service has a data file in.                *)
  services,   (* priv->services of every manager.                           *)
  call,       (* The ag_manager_get_service() it is in.                     *)
  inbox       (* D-Bus messages about services it has not handled yet.      *)

registryVars == <<row, lastId, files, services, call, inbox>>
-----------------------------------------------------------------------------
Ids == 0..Cardinality(Services)

\* An AgService: its id, the place that its type, and its display name and
\* provider, were read from; and that of the file_data and of the default
\* settings it has read itself.
ServiceObject == [id : Ids, type : Places \cup {NoPlace},
           names : Places \cup {NoPlace}, file : Places \cup {NoPlace},
           defaults : Places \cup {NoPlace}]

ASSUME NoServiceAssumption == NoService \notin ServiceObject

NewObject == [id |-> 0, type |-> NoPlace, names |-> NoPlace,
              file |-> NoPlace, defaults |-> NoPlace]

Idle    == [step |-> "idle", name |-> NoService, object |-> NewObject]
Message == [name : Services, id : Ids, type : Places]

RegistryTypeOK ==
  /\ row \in [Services -> [id : Ids, from : Places \cup {NoPlace}]]
  /\ lastId \in Ids
  /\ files \in [Services -> SUBSET Places]
  /\ services \in [Managers -> [Services -> ServiceObject \cup {NoService}]]
  /\ call \in [Managers -> [step : {"idle", "select", "insert", "id"},
                            name : Services \cup {NoService},
                            object : ServiceObject]]
  /\ inbox \in [Managers -> SUBSET Message]

ServicesTypeOK == OpenTypeOK /\ RegistryTypeOK

NoObjects == [s \in Services |-> NoService]

RegistryInit ==
  /\ row = [s \in Services |-> [id |-> 0, from |-> NoPlace]]
  /\ lastId = 0
  /\ files \in [Services -> SUBSET Places]
  /\ services = [m \in Managers |-> NoObjects]
  /\ call = [m \in Managers |-> Idle]
  /\ inbox = [m \in Managers |-> {}]

Has(m, s)    == services[m][s] # NoService
Put(m, s, o) == services' = [services EXCEPT ![m] = [@ EXCEPT ![s] = o]]

InTable(s)   == row[s].id # 0

\* Blocked in a query, a manager handles no message.
Free(m) == phase[m] = "open" /\ call[m].step = "idle"
-----------------------------------------------------------------------------
(* Reading the data file.                                                  *)

\* Mutant: the file overwrites the type that the object had.
Read_newType(o, s, from) ==
  [o EXCEPT !.type = from,
            !.names = IF @ = NoPlace THEN from ELSE @,
            !.file = from,
            !.defaults = IF s \in Plain \/ @ # NoPlace THEN @ ELSE from]

\* parse_service(): type, display name and provider are read when the object
\* has none; a second template is refused.
Read(o, s, from) ==
  [id       |-> o.id,
   type     |-> IF o.type = NoPlace THEN from ELSE o.type,
   names    |-> IF o.names = NoPlace THEN from ELSE o.names,
   file     |-> from,
   defaults |-> IF s \in Plain \/ o.defaults # NoPlace THEN o.defaults
                ELSE from]

Found(m, s) == FindFile(m \in WithEnv, files[s])

\* _ag_service_load_from_file().
LoadFromFile(m, o, s) ==
  IF Found(m, s) = NoPlace THEN o ELSE Read(o, s, Found(m, s))

\* The object must read its file before it can answer: its getters, and
\* _ag_service_load_default_settings().
Lacks(o, what) ==
  \/ what = "names" /\ o.names = NoPlace /\ o.file = NoPlace
  \/ what = "contents" /\ o.file = NoPlace
  \/ what = "defaults" /\ o.defaults = NoPlace

\* The application asks an AgService for something that it lacks.
Consult(m, s) ==
  /\ Free(m) /\ Has(m, s)
  /\ \E what \in {"names", "contents", "defaults"} :
       Lacks(services[m][s], what)
  /\ Found(m, s) # NoPlace
  /\ Put(m, s, LoadFromFile(m, services[m][s], s))
  /\ UNCHANGED <<row, lastId, files, call, inbox, openVars, locks>>
-----------------------------------------------------------------------------
(* ag_manager_get_service() for a service that has no object yet.          *)

\* The process is gone, and what it knew with it.
Vanish(m) ==
  /\ Enter(m, "closed")
  /\ services' = [services EXCEPT ![m] = NoObjects]
  /\ call' = [call EXCEPT ![m] = Idle]
  /\ inbox' = [inbox EXCEPT ![m] = {}]
  /\ UNCHANGED <<row, lastId, files, schema, version>>

Stay(m) == call[m].step # "idle" /\ UNCHANGED openVars

\* It goes on with a query, for the service s.
Asks(m, step, s, o) ==
  call' = [call EXCEPT ![m] = [step |-> step, name |-> s, object |-> o]]

\* Return, with the object o or without one.
Return(m, o) ==
  /\ Put(m, call[m].name, o)
  /\ call' = [call EXCEPT ![m] = Idle]

GetService(m, s) ==
  /\ Free(m) /\ ~Has(m, s)
  /\ Asks(m, "select", s, NewObject)
  /\ UNCHANGED <<row, lastId, files, services, inbox, openVars, locks>>

FromRow(s) == [id |-> row[s].id, type |-> row[s].from,
               names |-> row[s].from, file |-> NoPlace, defaults |-> NoPlace]

\* _ag_service_new_from_file(), when there is no row to be seen.
NewFromFile(m, s) ==
  IF Found(m, s) = NoPlace
  THEN Return(m, NoService)
  ELSE /\ Asks(m, "insert", s, LoadFromFile(m, NewObject, s))
       /\ UNCHANGED services

\* First, check if the service is in the DB.
SelectRow(m) ==
  LET s == call[m].name
  IN  /\ call[m].step = "select" /\ Stay(m)
      /\ \/ NotLocked /\ InTable(s) /\ Return(m, FromRow(s))
         \/ NotLocked /\ ~InTable(s) /\ NewFromFile(m, s)
         \/ m \notin Aborting /\ Locked /\ NewFromFile(m, s)
      /\ UNCHANGED <<row, lastId, files, inbox>>

\* Mutant: the id is that of the last row inserted, which is not this one
\* when another process has added the service in the meantime.
InsertRow_lastId(m) ==
  LET s == call[m].name
  IN  /\ call[m].step = "insert" /\ Stay(m)
      /\ NotLocked
      /\ IF m \in ReadOnly \/ InTable(s)
         THEN UNCHANGED <<row, lastId>>
         ELSE /\ lastId' = lastId + 1
              /\ row' = [row EXCEPT ![s] = [id |-> lastId + 1,
                                            from |-> call[m].object.type]]
      /\ Return(m, [call[m].object EXCEPT !.id = lastId'])
      /\ UNCHANGED <<files, inbox>>

\* add_service_to_db(): whether the row is inserted is not looked at.
InsertRow(m) ==
  LET s == call[m].name
  IN  /\ call[m].step = "insert" /\ Stay(m)
      /\ \/ /\ NotLocked /\ m \notin ReadOnly /\ ~InTable(s)
            /\ lastId' = lastId + 1
            /\ row' = [row EXCEPT ![s] = [id |-> lastId + 1,
                                          from |-> call[m].object.type]]
         \/ /\ NotLocked /\ (m \in ReadOnly \/ InTable(s))
            /\ UNCHANGED <<row, lastId>>
         \/ m \notin Aborting /\ Locked /\ UNCHANGED <<row, lastId>>
      /\ Asks(m, "id", s, call[m].object)
      /\ UNCHANGED <<files, services, inbox>>

\* The id is asked for by name: no id, no service.
SelectId(m) ==
  LET s == call[m].name
  IN  /\ call[m].step = "id" /\ Stay(m)
      /\ \/ /\ NotLocked /\ InTable(s)
            /\ Return(m, [call[m].object EXCEPT !.id = row[s].id])
         \/ NotLocked /\ ~InTable(s) /\ Return(m, NoService)
         \/ m \notin Aborting /\ Locked /\ Return(m, NoService)
      /\ UNCHANGED <<row, lastId, files, inbox>>

\* set_error_from_db() aborts the program of a manager that asks for it.
AbortOnTimeout(m) ==
  /\ m \in Aborting /\ call[m].step # "idle"
  /\ Locked
  /\ Vanish(m)
-----------------------------------------------------------------------------
(* Messages, data files and processes.                                     *)

\* A manager stores settings of service s: _ag_account_build_dbus_changes()
\* names it, with its type and id, to the others.
Tell(m, s) ==
  LET o == services[m][s]
  IN  inbox' = [n \in Managers |->
                  IF n # m /\ phase[n] = "open"
                  THEN inbox[n] \cup {[name |-> s, id |-> o.id, type |-> o.type]}
                  ELSE inbox[n]]

StoreSettings(m, s) ==
  /\ Free(m) /\ Has(m, s) /\ m \notin ReadOnly
  /\ Tell(m, s)
  /\ UNCHANGED <<row, lastId, files, services, call, openVars, locks>>

\* _ag_account_changes_from_dbus() and _ag_manager_get_service_lazy(): an
\* object that exists takes the id when it has none.
HandleMessage(m, msg) ==
  /\ Free(m) /\ msg \in inbox[m]
  /\ inbox' = [inbox EXCEPT ![m] = @ \ {msg}]
  /\ LET o == services[m][msg.name] IN
     Put(m, msg.name,
         IF o = NoService
         THEN [id |-> msg.id, type |-> msg.type, names |-> NoPlace,
               file |-> NoPlace, defaults |-> NoPlace]
         ELSE [o EXCEPT !.id = IF @ = 0 THEN msg.id ELSE @])
  /\ UNCHANGED <<row, lastId, files, call, openVars, locks>>

\* A package is installed, upgraded or removed.
Install(s, in) ==
  /\ files' = [files EXCEPT ![s] = in]
  /\ UNCHANGED <<row, lastId, services, call, inbox, openVars, locks>>

\* ag_manager_dispose() and ag_manager_finalize(), or the death of the
\* process, at any time.
CloseManager(m) ==
  /\ phase[m] = "open"
  /\ Vanish(m)
  /\ UNCHANGED locks

Serving(m) ==
  \/ \E s \in Services : GetService(m, s) \/ Consult(m, s) \/ StoreSettings(m, s)
  \/ SelectRow(m) \/ InsertRow(m) \/ SelectId(m) \/ AbortOnTimeout(m)
  \/ \E msg \in inbox[m] : HandleMessage(m, msg)
  \/ CloseManager(m)

RegistryNext ==
  \/ \E m \in Managers : Opening(m) /\ UNCHANGED registryVars
  \/ \E m \in Managers : Serving(m)
  \/ \E s \in Services, in \in Installed : Install(s, in)

RegistrySpec ==
  OpenInit /\ RegistryInit
    /\ [][RegistryNext]_<<openVars, locks, registryVars>>
-----------------------------------------------------------------------------
(* Properties.                                                             *)

\* Every process knows a service by the id of its row, whichever of them
\* inserted it, however their queries interleaved or timed out, and whether
\* the service was loaded or named by a message: an id that is wrong, or 0,
\* makes the next store write the settings of this service as those of
\* another one, or as the global ones.
IdsMatchRows ==
  \A m \in Managers, s \in Services :
    /\ Has(m, s) => services[m][s].id = row[s].id /\ InTable(s)
    /\ \A msg \in inbox[m] : msg.id = row[msg.name].id

\* What is read from a data file later does not change the type of a service
\* under an application that has it.
TypesAreStable ==
  [][\A m \in Managers, s \in Services :
       Has(m, s) /\ Has(m, s)' =>
         services'[m][s].type = services[m][s].type]_registryVars
=============================================================================
