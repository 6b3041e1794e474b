----------------------- MODULE ServiceRegistry_proofs -----------------------
(***************************************************************************)
(* Proofs about DatabaseOpen and ServiceRegistry, for every value of their *)
(* constants.                                                              *)
(*                                                                         *)
(* A schema is as complete as the statement that a manager is at, and      *)
(* nothing is ever dropped from it.  A row of Services is never changed,   *)
(* so that an id that was read from one stays right.                       *)
(***************************************************************************)
EXTENDS ServiceRegistry, FiniteSetTheorems, WellFoundedInduction, TLAPS

registry == <<openVars, locks, registryVars>>
-----------------------------------------------------------------------------
(* The schema.                                                             *)

SchemaInv ==
  /\ schema \subseteq Objects
  /\ version \in {0, 1} /\ (version = 1 => schema = Objects)
  /\ phase = [m \in Managers |-> phase[m]]
  /\ statement \in [Managers -> 1..9 + 1]
  /\ \A m \in Managers :
       /\ phase[m] = "creating" =>
            \A i \in 1..8 : i < statement[m] => Script[i] \in schema
       /\ phase[m] \in {"ready", "open"} => schema = Objects

LEMMA ScriptShape ==
  /\ Len(Script) = 9 /\ Script[9] = "user_version"
  /\ \A i \in 1..8 : Script[i] \in Objects /\ Script[i] # "user_version"
  /\ Objects = {Script[i] : i \in 1..8}
<1>1. Len(Script) = 9 /\ Script[9] = "user_version"
  BY DEF Script
<1>2. /\ Script[1] = "Accounts" /\ Script[2] = "Services"
      /\ Script[3] = "idx_service" /\ Script[4] = "Settings"
      /\ Script[5] = "idx_setting" /\ Script[6] = "tg_delete_account"
      /\ Script[7] = "Signatures" /\ Script[8] = "idx_signatures"
  BY DEF Script
<1>3. 1..8 = {1, 2, 3, 4, 5, 6, 7, 8}
  OBVIOUS
<1> QED
  BY <1>1, <1>2, <1>3 DEF Objects

\* A manager enters another phase, with the tables that the phase asks for.
LEMMA EnterKeeps ==
  ASSUME SchemaInv, NEW m \in Managers, NEW p, Enter(m, p),
         p \in {"ready", "open"} => schema = Objects,
         UNCHANGED <<schema, version>>
  PROVE  SchemaInv'
<1>1. /\ phase' = [n \in Managers |-> IF n = m THEN p ELSE phase[n]]
      /\ statement' = [n \in Managers |-> IF n = m THEN 1 ELSE statement[n]]
  BY DEF Enter, SchemaInv
<1>2. /\ phase' = [n \in Managers |-> phase'[n]]
      /\ statement' \in [Managers -> 1..9 + 1]
  BY <1>1 DEF SchemaInv
<1>3. ASSUME NEW n \in Managers
      PROVE  /\ phase'[n] = "creating" =>
                  \A i \in 1..8 : i < statement'[n] => Script[i] \in schema
             /\ phase'[n] \in {"ready", "open"} => schema = Objects
  BY <1>1 DEF SchemaInv
<1> QED
  BY <1>2, <1>3 DEF SchemaInv

LEMMA StatementKeeps ==
  ASSUME SchemaInv, NEW m \in Managers, RunStatement(m)
  PROVE  SchemaInv'
<1> DEFINE k == statement[m]
           s == Script[k]
<1>1. k \in 1..9 /\ phase[m] = "creating"
  BY ScriptShape DEF RunStatement, SchemaInv
<1>2. CASE Enter(m, "closed") /\ UNCHANGED <<schema, version>>
  BY <1>2, EnterKeeps
<1>3. CASE /\ schema' = schema \cup ({s} \cap Objects)
           /\ version' = IF s = "user_version" THEN 1 ELSE version
           /\ statement' = [statement EXCEPT ![m] = @ + 1]
           /\ UNCHANGED <<phase, tries>>
  <2>1. schema \subseteq schema' /\ schema' \subseteq Objects
    BY <1>3 DEF SchemaInv
  <2>2. /\ statement' \in [Managers -> 1..9 + 1] /\ statement'[m] = k + 1
        /\ \A n \in Managers : n # m => statement'[n] = statement[n]
    BY <1>1, <1>3 DEF SchemaInv
  <2>3. CASE k \in 1..8
    <3>1. s \in schema' /\ version' = version
      BY <1>3, <2>3, ScriptShape
    <3>2. \A i \in 1..8 : i < k + 1 => Script[i] \in schema'
      BY <1>1, <2>1, <3>1 DEF SchemaInv
    <3>3. ASSUME NEW n \in Managers, phase[n] = "creating"
          PROVE  \A i \in 1..8 : i < statement'[n] => Script[i] \in schema'
      BY <2>1, <2>2, <3>2, <3>3 DEF SchemaInv
    <3> QED
      BY <1>3, <2>1, <2>2, <3>1, <3>3 DEF SchemaInv
  <2>4. CASE k = 9
    <3>1. schema = Objects
      BY <1>1, <2>4, ScriptShape DEF SchemaInv
    <3>2. schema' = Objects /\ version' = 1
      BY <1>3, <2>1, <2>4, <3>1, ScriptShape
    <3> QED
      BY <1>3, <2>2, <3>2, ScriptShape DEF SchemaInv
  <2> QED
    BY <1>1, <2>3, <2>4
<1> QED
  BY <1>2, <1>3 DEF RunStatement

LEMMA OpeningKeeps ==
  ASSUME SchemaInv, NEW m \in Managers, Opening(m)
  PROVE  SchemaInv'
<1>1. CASE OpenFile(m)
  BY <1>1, EnterKeeps DEF OpenFile
<1>2. CASE GetDbVersion(m)
  <2>1. version < 1 \/ schema = Objects
    BY DEF SchemaInv
  <2> QED
    BY <1>2, <2>1, EnterKeeps DEF GetDbVersion
<1>3. CASE RunStatement(m)
  BY <1>3, StatementKeeps
<1>4. CASE RetryScript(m)
  <2>1. CASE Enter(m, "closed")
    BY <1>4, <2>1, EnterKeeps DEF RetryScript
  <2>2. CASE /\ statement' = [statement EXCEPT ![m] = 1]
             /\ UNCHANGED phase
    BY <1>4, <2>2 DEF RetryScript, SchemaInv
  <2> QED
    BY <1>4, <2>1, <2>2 DEF RetryScript
<1>5. CASE FinishScript(m)
  <2>1. statement[m] = 10 /\ phase[m] = "creating"
    BY <1>5, ScriptShape DEF FinishScript, SchemaInv
  <2>2. schema = Objects
    BY <2>1, ScriptShape DEF SchemaInv
  <2> QED
    BY <1>5, <2>2, EnterKeeps DEF FinishScript
<1>6. CASE SetupDbus(m)
  <2>1. schema = Objects
    BY <1>6 DEF SetupDbus, SchemaInv
  <2> QED
    BY <1>6, <2>1, EnterKeeps DEF SetupDbus
<1>7. CASE DieOpening(m)
  BY <1>7, EnterKeeps DEF DieOpening
<1> QED
  BY <1>1, <1>2, <1>3, <1>4, <1>5, <1>6, <1>7 DEF Opening
-----------------------------------------------------------------------------
(* Rows, objects, calls and messages.                                      *)

IsObject(o) == o = [id |-> o.id, type |-> o.type, names |-> o.names,
                    file |-> o.file, defaults |-> o.defaults]

\* The object has the id of the service's row.
Knows(o, s) == IsObject(o) /\ o.id = row[s].id /\ InTable(s)

RowsInv == row = [s \in Services |-> row[s]] /\ lastId \in Nat

ServicesInv ==
  /\ services = [m \in Managers |-> [s \in Services |-> services[m][s]]]
  /\ \A m \in Managers, s \in Services : Has(m, s) => Knows(services[m][s], s)

CallsInv ==
  /\ call = [m \in Managers |-> call[m]]
  /\ \A m \in Managers : /\ IsObject(call[m].object)
                         /\ call[m].step # "idle" => call[m].name \in Services

InboxInv ==
  /\ inbox = [m \in Managers |-> inbox[m]]
  /\ \A m \in Managers : \A msg \in inbox[m] :
       msg.name \in Services /\ msg.id = row[msg.name].id /\ InTable(msg.name)

RegistryInv == RowsInv /\ ServicesInv /\ CallsInv /\ InboxInv

IndInv == SchemaInv /\ RegistryInv

LEMMA ObjectShapes ==
  /\ IsObject(NewObject)
  /\ \A o, s, from : Read(o, s, from).id = o.id /\ IsObject(Read(o, s, from))
  /\ \A s : IsObject(FromRow(s)) /\ FromRow(s).id = row[s].id
BY DEF IsObject, NewObject, Read, FromRow

LEMMA WithId ==
  ASSUME NEW o, IsObject(o), NEW i
  PROVE  IsObject([o EXCEPT !.id = i]) /\ [o EXCEPT !.id = i].id = i
BY DEF IsObject

LEMMA LoadKeepsId ==
  ASSUME NEW m, NEW o, IsObject(o), NEW s
  PROVE  IsObject(LoadFromFile(m, o, s)) /\ LoadFromFile(m, o, s).id = o.id
BY ObjectShapes DEF LoadFromFile

\* An object is put in the hash, or taken out of it, and no row changes.
LEMMA PutKeeps ==
  ASSUME ServicesInv, NEW m \in Managers, NEW s \in Services, NEW o,
         o # NoService => Knows(o, s), Put(m, s, o), UNCHANGED row
  PROVE  ServicesInv'
<1>1. services' = [n \in Managers |->
                     IF n = m THEN [t \in Services |->
                                      IF t = s THEN o ELSE services[m][t]]
                     ELSE services[n]]
  BY DEF Put, ServicesInv
<1>2. services' = [n \in Managers |-> [t \in Services |-> services'[n][t]]]
  BY <1>1 DEF ServicesInv
<1>3. ASSUME NEW n \in Managers, NEW t \in Services,
             services'[n][t] # NoService
      PROVE  Knows(services'[n][t], t)
  BY <1>1, <1>3 DEF ServicesInv, Has
<1> QED
  BY <1>2, <1>3 DEF ServicesInv, Has, Knows, IsObject, InTable

LEMMA CallsKeep ==
  ASSUME CallsInv, NEW m \in Managers, NEW c,
         IsObject(c.object), c.step # "idle" => c.name \in Services,
         call' = [call EXCEPT ![m] = c]
  PROVE  CallsInv'
<1>1. call' = [n \in Managers |-> IF n = m THEN c ELSE call[n]]
  BY DEF CallsInv
<1>2. call' = [n \in Managers |-> call'[n]]
  BY <1>1
<1>3. ASSUME NEW n \in Managers
      PROVE  /\ IsObject(call'[n].object)
             /\ call'[n].step # "idle" => call'[n].name \in Services
  BY <1>1 DEF CallsInv
<1> QED
  BY <1>2, <1>3 DEF CallsInv, IsObject

LEMMA AsksKeeps ==
  ASSUME CallsInv, NEW m \in Managers, NEW step, NEW s \in Services, NEW o,
         IsObject(o), Asks(m, step, s, o)
  PROVE  CallsInv'
<1> DEFINE c == [step |-> step, name |-> s, object |-> o]
<1>1. c.object = o /\ c.name = s /\ call' = [call EXCEPT ![m] = c]
  BY DEF Asks
<1> HIDE DEF c
<1> QED
  BY <1>1, CallsKeep

LEMMA IdleKeeps ==
  ASSUME CallsInv, NEW m \in Managers, call' = [call EXCEPT ![m] = Idle]
  PROVE  CallsInv'
<1>1. Idle.object = NewObject /\ Idle.step = "idle"
  BY DEF Idle
<1> QED
  BY <1>1, CallsKeep, ObjectShapes

\* What does not change.
LEMMA Unchanged ==
  /\ UNCHANGED <<row, lastId>> /\ RowsInv => RowsInv'
  /\ UNCHANGED <<row, services>> /\ ServicesInv => ServicesInv'
  /\ UNCHANGED call /\ CallsInv => CallsInv'
  /\ UNCHANGED <<row, inbox>> /\ InboxInv => InboxInv'
  /\ UNCHANGED openVars /\ SchemaInv => SchemaInv'
<1>1. UNCHANGED <<row, lastId>> /\ RowsInv => RowsInv'
  BY DEF RowsInv
<1>2. UNCHANGED <<row, services>> /\ ServicesInv => ServicesInv'
  BY DEF ServicesInv, Has, Knows, IsObject, InTable
<1>3. UNCHANGED call /\ CallsInv => CallsInv'
  BY DEF CallsInv, IsObject
<1>4. UNCHANGED <<row, inbox>> /\ InboxInv => InboxInv'
  BY DEF InboxInv, InTable
<1>5. UNCHANGED openVars /\ SchemaInv => SchemaInv'
  BY DEF SchemaInv, openVars
<1> QED
  BY <1>1, <1>2, <1>3, <1>4, <1>5
-----------------------------------------------------------------------------
(* The queries of ag_manager_get_service().                                *)

\* The manager is gone.
LEMMA VanishKeeps ==
  ASSUME IndInv, NEW m \in Managers, Vanish(m)
  PROVE  IndInv'
<1>1. SchemaInv'
  BY EnterKeeps DEF Vanish, IndInv
<1>2. RowsInv' /\ CallsInv'
  BY Unchanged, IdleKeeps DEF Vanish, IndInv, RegistryInv
<1>3. ServicesInv'
  <2>1. services' = [n \in Managers |->
                       IF n = m THEN [s \in Services |-> NoService]
                       ELSE services[n]]
    BY DEF Vanish, NoObjects, IndInv, RegistryInv, ServicesInv
  <2>2. services' = [n \in Managers |-> [s \in Services |-> services'[n][s]]]
    BY <2>1 DEF IndInv, RegistryInv, ServicesInv
  <2>3. ASSUME NEW n \in Managers, NEW s \in Services,
               services'[n][s] # NoService
        PROVE  Knows(services'[n][s], s)
    BY <2>1, <2>3 DEF IndInv, RegistryInv, ServicesInv, Has
  <2>4. UNCHANGED row
    BY DEF Vanish
  <2> QED
    BY <2>2, <2>3, <2>4 DEF ServicesInv, Has, Knows, IsObject, InTable
<1>4. InboxInv'
  <2>1. inbox' = [n \in Managers |-> IF n = m THEN {} ELSE inbox[n]]
    BY DEF Vanish, IndInv, RegistryInv, InboxInv
  <2>2. UNCHANGED row
    BY DEF Vanish
  <2> QED
    BY <2>1, <2>2 DEF IndInv, RegistryInv, InboxInv, InTable
<1> QED
  BY <1>1, <1>2, <1>3, <1>4 DEF IndInv, RegistryInv

\* A call returns an object with the id of its row, or none.
LEMMA ReturnKeeps ==
  ASSUME RegistryInv, NEW m \in Managers, call[m].step # "idle", NEW o,
         o # NoService => Knows(o, call[m].name), Return(m, o),
         UNCHANGED <<row, lastId, inbox>>
  PROVE  RegistryInv'
<1>1. call[m].name \in Services
  BY DEF RegistryInv, CallsInv
<1>2. ServicesInv' /\ CallsInv'
  BY <1>1, PutKeeps, IdleKeeps DEF Return, RegistryInv
<1> QED
  BY <1>2, Unchanged DEF RegistryInv

LEMMA NewFromFileKeeps ==
  ASSUME RegistryInv, NEW m \in Managers, call[m].step # "idle",
         NewFromFile(m, call[m].name), UNCHANGED <<row, lastId, inbox>>
  PROVE  RegistryInv'
<1> DEFINE s == call[m].name
<1>1. s \in Services
  BY DEF RegistryInv, CallsInv
<1>2. CASE Return(m, NoService)
  BY <1>2, ReturnKeeps
<1>3. CASE Asks(m, "insert", s, LoadFromFile(m, NewObject, s))
             /\ UNCHANGED services
  <2>1. CallsInv'
    BY <1>1, <1>3, AsksKeeps, ObjectShapes, LoadKeepsId DEF RegistryInv
  <2> QED
    BY <1>3, <2>1, Unchanged DEF RegistryInv
<1> QED
  BY <1>2, <1>3 DEF NewFromFile

LEMMA SelectRowKeeps ==
  ASSUME RegistryInv, NEW m \in Managers, SelectRow(m)
  PROVE  RegistryInv'
<1>1. call[m].step # "idle" /\ UNCHANGED <<row, lastId, inbox>>
  BY DEF SelectRow, Stay
<1>2. CASE InTable(call[m].name) /\ Return(m, FromRow(call[m].name))
  BY <1>1, <1>2, ReturnKeeps, ObjectShapes DEF Knows
<1>3. CASE NewFromFile(m, call[m].name)
  BY <1>1, <1>3, NewFromFileKeeps
<1> QED
  BY <1>2, <1>3 DEF SelectRow

\* A row is inserted only for a service that has none, which nothing knows.
LEMMA InsertRowKeeps ==
  ASSUME RegistryInv, NEW m \in Managers, InsertRow(m)
  PROVE  RegistryInv'
<1> DEFINE s == call[m].name
<1>1. s \in Services /\ IsObject(call[m].object)
  BY DEF InsertRow, Stay, RegistryInv, CallsInv
<1>2. CallsInv' /\ UNCHANGED <<services, inbox>>
  BY <1>1, AsksKeeps DEF InsertRow, RegistryInv
<1>3. CASE UNCHANGED <<row, lastId>>
  BY <1>2, <1>3, Unchanged DEF RegistryInv
<1>4. CASE /\ ~InTable(s) /\ lastId' = lastId + 1
           /\ row' = [row EXCEPT ![s] = [id |-> lastId + 1,
                                        from |-> call[m].object.type]]
  <2>1. row' = [t \in Services |-> IF t = s THEN [id |-> lastId + 1,
                                        from |-> call[m].object.type]
                                   ELSE row[t]]
    BY <1>4 DEF RegistryInv, RowsInv
  <2>2. RowsInv'
    BY <1>4, <2>1 DEF RegistryInv, RowsInv
  <2>3. \A t \in Services : row[t].id # 0 => row'[t] = row[t]
    BY <1>4, <2>1 DEF InTable
  <2>4. ServicesInv'
    BY <1>2, <2>3 DEF RegistryInv, ServicesInv, Has, Knows, IsObject, InTable
  <2>5. InboxInv'
    BY <1>2, <2>3 DEF RegistryInv, InboxInv, InTable
  <2> QED
    BY <1>2, <2>2, <2>4, <2>5 DEF RegistryInv
<1> QED
  BY <1>3, <1>4 DEF InsertRow

LEMMA SelectIdKeeps ==
  ASSUME RegistryInv, NEW m \in Managers, SelectId(m)
  PROVE  RegistryInv'
<1> DEFINE o == [call[m].object EXCEPT !.id = row[call[m].name].id]
<1>1. call[m].step # "idle" /\ UNCHANGED <<row, lastId, inbox>>
  BY DEF SelectId, Stay
<1>2. IsObject(o) /\ o.id = row[call[m].name].id
  BY WithId DEF RegistryInv, CallsInv
<1>3. CASE InTable(call[m].name) /\ Return(m, o)
  <2>1. Knows(o, call[m].name)
    BY <1>2, <1>3 DEF Knows
  <2> HIDE DEF o
  <2> QED
    BY <1>1, <1>3, <2>1, ReturnKeeps
<1>4. CASE Return(m, NoService)
  BY <1>1, <1>4, ReturnKeeps
<1> QED
  BY <1>3, <1>4 DEF SelectId
-----------------------------------------------------------------------------
(* Getters, messages, and the whole.                                       *)

LEMMA ConsultKeeps ==
  ASSUME RegistryInv, NEW m \in Managers, NEW s \in Services, Consult(m, s)
  PROVE  RegistryInv'
<1> DEFINE o == LoadFromFile(m, services[m][s], s)
<1>1. Knows(services[m][s], s)
  BY DEF Consult, RegistryInv, ServicesInv
<1>2. Knows(o, s)
  BY <1>1, LoadKeepsId DEF Knows
<1> HIDE DEF o
<1>3. ServicesInv'
  BY <1>2, PutKeeps DEF o, Consult, RegistryInv
<1> QED
  BY <1>3, Unchanged DEF Consult, RegistryInv

LEMMA GetServiceKeeps ==
  ASSUME RegistryInv, NEW m \in Managers, NEW s \in Services, GetService(m, s)
  PROVE  RegistryInv'
<1>1. CallsInv'
  BY AsksKeeps, ObjectShapes DEF GetService, RegistryInv
<1> QED
  BY <1>1, Unchanged DEF GetService, RegistryInv

\* A message carries the id that the sender knows.
LEMMA StoreSettingsKeeps ==
  ASSUME RegistryInv, NEW m \in Managers, NEW s \in Services,
         StoreSettings(m, s)
  PROVE  RegistryInv'
<1> DEFINE o   == services[m][s]
           msg == [name |-> s, id |-> o.id, type |-> o.type]
<1>1. o.id = row[s].id /\ InTable(s)
  BY DEF StoreSettings, RegistryInv, ServicesInv, Knows
<1>2. msg.name = s /\ msg.id = o.id
  OBVIOUS
<1>3. inbox' = [n \in Managers |-> IF n # m /\ phase[n] = "open"
                                   THEN inbox[n] \cup {msg} ELSE inbox[n]]
  BY DEF StoreSettings, Tell
<1> HIDE DEF msg
<1>4. InboxInv'
  BY <1>1, <1>2, <1>3 DEF StoreSettings, RegistryInv, InboxInv, InTable
<1> QED
  BY <1>4, Unchanged DEF StoreSettings, RegistryInv

\* An object that a message makes has the id of the message; one that exists
\* has the same id already.
LEMMA HandleMessageKeeps ==
  ASSUME RegistryInv, NEW m \in Managers, NEW msg \in inbox[m],
         HandleMessage(m, msg)
  PROVE  RegistryInv'
<1> DEFINE s   == msg.name
           o   == services[m][s]
           new == [id |-> msg.id, type |-> msg.type, names |-> NoPlace,
                   file |-> NoPlace, defaults |-> NoPlace]
           old == [o EXCEPT !.id = IF @ = 0 THEN msg.id ELSE @]
<1>1. s \in Services /\ msg.id = row[s].id /\ InTable(s)
  BY DEF RegistryInv, InboxInv
<1>2. Knows(new, s)
  BY <1>1 DEF Knows, IsObject
<1>3. ASSUME o # NoService
      PROVE  Knows(old, s)
  <2>1. Knows(o, s)
    BY <1>1, <1>3 DEF RegistryInv, ServicesInv, Has
  <2>2. (IF o.id = 0 THEN msg.id ELSE o.id) = row[s].id
    BY <1>1, <2>1 DEF Knows, InTable
  <2> QED
    BY <2>1, <2>2, WithId DEF Knows
<1>4. Put(m, s, IF o = NoService THEN new ELSE old) /\ UNCHANGED row
  BY DEF HandleMessage
<1> HIDE DEF new, old
<1>5. ServicesInv'
  BY <1>1, <1>2, <1>3, <1>4, PutKeeps DEF RegistryInv
<1>6. InboxInv'
  <2>1. inbox' = [n \in Managers |-> IF n = m THEN inbox[m] \ {msg}
                                     ELSE inbox[n]]
    BY DEF HandleMessage, RegistryInv, InboxInv
  <2> QED
    BY <1>4, <2>1 DEF RegistryInv, InboxInv, InTable
<1> QED
  BY <1>5, <1>6, Unchanged DEF HandleMessage, RegistryInv

LEMMA ServingKeeps ==
  ASSUME IndInv, NEW m \in Managers, Serving(m)
  PROVE  IndInv'
<1>1. CASE AbortOnTimeout(m) \/ CloseManager(m)
  BY <1>1, VanishKeeps DEF AbortOnTimeout, CloseManager
<1>2. ASSUME RegistryInv', UNCHANGED openVars
      PROVE  IndInv'
  BY <1>2, Unchanged DEF IndInv
<1>3. ASSUME NEW s \in Services,
             GetService(m, s) \/ Consult(m, s) \/ StoreSettings(m, s)
      PROVE  IndInv'
  <2>1. UNCHANGED openVars
    BY <1>3 DEF GetService, Consult, StoreSettings
  <2> QED
    BY <1>2, <1>3, <2>1, GetServiceKeeps, ConsultKeeps, StoreSettingsKeeps
    DEF IndInv
<1>4. CASE SelectRow(m) \/ InsertRow(m) \/ SelectId(m)
  <2>1. UNCHANGED openVars
    BY <1>4 DEF SelectRow, InsertRow, SelectId, Stay
  <2> QED
    BY <1>2, <1>4, <2>1, SelectRowKeeps, InsertRowKeeps, SelectIdKeeps
    DEF IndInv
<1>5. ASSUME NEW msg \in inbox[m], HandleMessage(m, msg)
      PROVE  IndInv'
  BY <1>2, <1>5, HandleMessageKeeps DEF HandleMessage, IndInv
<1> QED
  BY <1>1, <1>3, <1>4, <1>5 DEF Serving

LEMMA NextKeeps ==
  ASSUME IndInv, [RegistryNext]_registry
  PROVE  IndInv'
<1>1. ASSUME NEW m \in Managers, Opening(m), UNCHANGED registryVars
      PROVE  IndInv'
  BY <1>1, OpeningKeeps, Unchanged DEF IndInv, RegistryInv, registryVars
<1>2. ASSUME NEW m \in Managers, Serving(m)
      PROVE  IndInv'
  BY <1>2, ServingKeeps
<1>3. ASSUME NEW s \in Services, NEW in \in Installed, Install(s, in)
      PROVE  IndInv'
  BY <1>3, Unchanged DEF Install, IndInv, RegistryInv
<1>4. CASE UNCHANGED registry
  BY <1>4, Unchanged DEF registry, registryVars, IndInv, RegistryInv
<1> QED
  BY <1>1, <1>2, <1>3, <1>4 DEF RegistryNext

LEMMA InitInv ==
  ASSUME OpenInit, RegistryInit
  PROVE  IndInv
<1>1. SchemaInv
  BY ScriptShape DEF OpenInit, SchemaInv
<1>2. RowsInv /\ CallsInv /\ InboxInv
  BY ObjectShapes DEF RegistryInit, RowsInv, CallsInv, InboxInv, Idle
<1>3. ServicesInv
  BY DEF RegistryInit, ServicesInv, NoObjects, Has
<1> QED
  BY <1>1, <1>2, <1>3 DEF IndInv, RegistryInv

LEMMA Invariance == RegistrySpec => []IndInv
<1>1. OpenInit /\ RegistryInit => IndInv
  BY InitInv
<1>2. IndInv /\ [RegistryNext]_registry => IndInv'
  BY NextKeeps
<1> QED
  BY <1>1, <1>2, PTL DEF RegistrySpec, registry

\* A manager that is open has every table, index and trigger, however many
\* managers run create_db() at once, retry it, give up or die in the middle.
THEOREM CompleteDatabase == RegistrySpec => []OpenMeansComplete
<1>1. IndInv => OpenMeansComplete
  BY DEF IndInv, SchemaInv, OpenMeansComplete
<1> QED
  BY <1>1, Invariance, PTL

\* All processes know a service by the id of its row, which is not 0, however
\* the queries of ag_manager_get_service() interleave and time out, and
\* whatever D-Bus messages and data files come in between.
THEOREM ServiceIds == RegistrySpec => []IdsMatchRows
<1>1. IndInv => IdsMatchRows
  BY DEF IndInv, RegistryInv, ServicesInv, InboxInv, IdsMatchRows, Knows
<1> QED
  BY <1>1, Invariance, PTL
-----------------------------------------------------------------------------
(* The types of managers that open the database.                           *)

LEMMA EnterTypes ==
  ASSUME OpenTypeOK, NEW m \in Managers,
         NEW p \in {"closed", "opened", "creating", "ready", "open"},
         Enter(m, p), UNCHANGED <<schema, version>>, locks' \in Nat
  PROVE  OpenTypeOK'
<1>1. Len(Script) = 9
  BY ScriptShape
<1>2. /\ phase' \in [Managers ->
                       {"closed", "opened", "creating", "ready", "open"}]
      /\ statement' \in [Managers -> 1..Len(Script) + 1]
  BY <1>1 DEF OpenTypeOK, Enter
<1>3. tries' \in [Managers -> 0..MaxTries]
  BY OpenAssumption DEF OpenTypeOK, Enter
<1> QED
  BY <1>2, <1>3 DEF OpenTypeOK

LEMMA OpeningTypes ==
  ASSUME OpenTypeOK, NEW m \in Managers, Opening(m)
  PROVE  OpenTypeOK'
<1>1. /\ Len(Script) = 9
      /\ \A i \in 1..9 : Script[i] \in Objects \cup {"user_version"}
  <2>1. \A i \in 1..9 : i \in 1..8 \/ i = 9
    OBVIOUS
  <2> QED
    BY <2>1, ScriptShape
<1>2. ASSUME Locked \/ NotLocked \/ UNCHANGED locks
      PROVE  locks' \in Nat
  BY <1>2 DEF Locked, NotLocked, OpenTypeOK
<1>3. CASE OpenFile(m) \/ GetDbVersion(m) \/ FinishScript(m)
             \/ SetupDbus(m) \/ DieOpening(m)
  BY <1>2, <1>3, EnterTypes
  DEF OpenFile, GetDbVersion, FinishScript, SetupDbus, DieOpening
<1>4. CASE RunStatement(m)
  <2> DEFINE s == Script[statement[m]]
  <2>1. statement[m] \in 1..9 /\ locks' \in Nat
    BY <1>1, <1>2, <1>4 DEF RunStatement, OpenTypeOK
  <2>2. CASE Enter(m, "closed") /\ UNCHANGED <<schema, version>>
    BY <2>1, <2>2, EnterTypes
  <2>3. CASE /\ schema' = schema \cup ({s} \cap Objects)
             /\ version' = IF s = "user_version" THEN 1 ELSE version
             /\ statement' = [statement EXCEPT ![m] = @ + 1]
             /\ UNCHANGED <<phase, tries>>
    <3>1. schema' \subseteq Objects /\ version' \in 0..1
      BY <2>3 DEF OpenTypeOK
    <3>2. statement' \in [Managers -> 1..Len(Script) + 1]
      BY <1>1, <2>1, <2>3 DEF OpenTypeOK
    <3> QED
      BY <2>1, <2>3, <3>1, <3>2 DEF OpenTypeOK
  <2> QED
    BY <1>4, <2>2, <2>3 DEF RunStatement
<1>5. CASE RetryScript(m)
  <2>1. CASE Enter(m, "closed")
    BY <1>2, <1>5, <2>1, EnterTypes DEF RetryScript
  <2>2. CASE /\ tries[m] < MaxTries /\ UNCHANGED phase
             /\ tries' = [tries EXCEPT ![m] = @ + 1]
             /\ statement' = [statement EXCEPT ![m] = 1]
    <3>1. locks' \in Nat /\ UNCHANGED <<schema, version>>
      BY <1>2, <1>5 DEF RetryScript
    <3>2. tries' \in [Managers -> 0..MaxTries]
      BY <2>2, OpenAssumption DEF OpenTypeOK
    <3>3. statement' \in [Managers -> 1..Len(Script) + 1]
      BY <1>1, <2>2 DEF OpenTypeOK
    <3> QED
      BY <2>2, <3>1, <3>2, <3>3 DEF OpenTypeOK
  <2> QED
    BY <1>5, <2>1, <2>2 DEF RetryScript
<1> QED
  BY <1>3, <1>4, <1>5 DEF Opening
-----------------------------------------------------------------------------
(* The types of services.  An object never lacks the type of its service,  *)
(* so that a data file read later has nothing to fill in; and a manager    *)
(* handles no message while it waits for the service it asks for, so that  *)
(* what it puts in its hash takes the place of nothing.                    *)

\* The set has a least element.
LEMMA MinExists ==
  ASSUME NEW I \in SUBSET Nat, I # {}
  PROVE  Min(I) \in I
<1> DEFINE R == StrictSubsetOrdering(Nat)
           T == {1..i : i \in I}
<1>1. T \subseteq FiniteSubsetsOf(Nat) /\ T # {}
  <2>1. ASSUME NEW i \in I
        PROVE  1..i \in FiniteSubsetsOf(Nat)
    <3>1. i \in Int /\ 1 \in Int
      OBVIOUS
    <3>2. IsFiniteSet(1..i)
      BY <3>1, FS_Interval
    <3> QED
      BY <3>2 DEF FiniteSubsetsOf
  <2> QED
    BY <2>1
<1>2. PICK t \in T : \A u \in T : <<u, t>> \notin R
  BY <1>1, FS_StrictSubsetOrderingWellFounded, WFMin
<1>3. PICK x \in I : t = 1..x
  OBVIOUS
<1>4. ASSUME NEW y \in I
      PROVE  x <= y
  <2> SUFFICES ASSUME y < x
               PROVE  FALSE
    OBVIOUS
  <2>1. 1..y \subseteq 1..x /\ x \in 1..x /\ x \notin 1..y
    BY <1>3
  <2>2. <<1..y, 1..x>> \in R
    BY <2>1 DEF StrictSubsetOrdering
  <2> QED
    BY <1>2, <1>3, <2>2
<1> QED
  BY <1>4 DEF Min

LEMMA FoundPlace ==
  ASSUME NEW withEnv \in BOOLEAN, NEW in
  PROVE  FindFile(withEnv, in) \in Places \cup {NoPlace}
<1> DEFINE path == (IF withEnv THEN <<EnvPlace>> ELSE <<>>)
                     \o <<UserPlace>> \o SystemPlaces
           I    == {i \in 1..Len(path) : path[i] \in in}
           i    == SelectInSeq(path, LAMBDA p : p \in in)
<1>1. path \in Seq(Places)
  <2>1. SystemPlaces \in Seq(Places)
    BY DataFilesAssumption DEF Places
  <2>2. <<EnvPlace>> \in Seq(Places) /\ <<UserPlace>> \in Seq(Places)
    BY DEF Places
  <2> QED
    BY <2>1, <2>2
<1>2. i = IF I # {} THEN Min(I) ELSE 0
  BY DEF SelectInSeq
<1>3. I \subseteq Nat /\ Len(path) \in Nat
  BY <1>1
<1>4. i = 0 \/ i \in 1..Len(path)
  BY <1>2, <1>3, MinExists
<1>5. FindFile(withEnv, in) = IF i = 0 THEN NoPlace ELSE path[i]
  BY DEF FindFile
<1> HIDE DEF path, i
<1> QED
  BY <1>1, <1>4, <1>5
-----------------------------------------------------------------------------
\* The services that have a row.
Listed == {s \in Services : row[s].id # 0}

TableTypes ==
  /\ row \in [Services -> [id : Ids, from : Places \cup {NoPlace}]]
  /\ lastId = Cardinality(Listed)
  /\ \A s \in Services : InTable(s) => row[s].from # NoPlace

ObjectTypes ==
  /\ services \in [Managers -> [Services -> ServiceObject \cup {NoService}]]
  /\ \A m \in Managers, s \in Services :
       Has(m, s) => services[m][s].type # NoPlace

CallTypes ==
  /\ call \in [Managers -> [step : {"idle", "select", "insert", "id"},
                            name : Services \cup {NoService},
                            object : ServiceObject]]
  /\ \A m \in Managers :
       call[m].step \in {"insert", "id"} => call[m].object.type # NoPlace

InboxTypes ==
  /\ inbox \in [Managers -> SUBSET Message]
  /\ \A m \in Managers : \A msg \in inbox[m] : msg.type # NoPlace

\* A manager asks for a service that it does not have.
AskedIsMissing ==
  \A m \in Managers : call[m].step # "idle" => ~Has(m, call[m].name)

TypeInv ==
  /\ OpenTypeOK /\ files \in [Services -> SUBSET Places]
  /\ TableTypes /\ ObjectTypes /\ CallTypes /\ InboxTypes /\ AskedIsMissing

LEMMA IdTypes ==
  ASSUME NEW S \in SUBSET Services
  PROVE  /\ IsFiniteSet(S) /\ Cardinality(S) \in Ids
         /\ \A s \in Services \ S :
              /\ Cardinality(S \cup {s}) = Cardinality(S) + 1
              /\ Cardinality(S) + 1 \in Ids
<1>1. IsFiniteSet(Services)
  BY RegistryAssumption
<1>2. \A T \in SUBSET Services : IsFiniteSet(T) /\ Cardinality(T) \in Ids
  BY <1>1, FS_Subset, FS_CardinalityType DEF Ids
<1>3. ASSUME NEW s \in Services \ S
      PROVE  Cardinality(S \cup {s}) = Cardinality(S) + 1
  BY <1>2, FS_AddElement
<1>4. \A s \in Services \ S : Cardinality(S) + 1 \in Ids
  BY <1>2, <1>3
<1> QED
  BY <1>2, <1>3, <1>4

LEMMA ObjectsAreTyped ==
  /\ NewObject \in ServiceObject
  /\ \A o \in ServiceObject, i \in Ids :
       /\ [o EXCEPT !.id = i] \in ServiceObject
       /\ [o EXCEPT !.id = i].type = o.type
  /\ TableTypes => \A s \in Services :
                     /\ FromRow(s) \in ServiceObject
                     /\ InTable(s) => FromRow(s).type # NoPlace
<1>1. 0 \in Ids
  BY IdTypes, FS_CardinalityType, RegistryAssumption DEF Ids
<1> QED
  BY <1>1 DEF ServiceObject, NewObject, FromRow, TableTypes

\* An object that has a type keeps it when its file is read, and one without
\* a type gets one if there is a file.
LEMMA LoadTypes ==
  ASSUME NEW m, NEW o \in ServiceObject, NEW s
  PROVE  /\ LoadFromFile(m, o, s) \in ServiceObject
         /\ o.type # NoPlace => LoadFromFile(m, o, s).type = o.type
         /\ Found(m, s) # NoPlace => LoadFromFile(m, o, s).type # NoPlace
<1>1. Found(m, s) \in Places \cup {NoPlace}
  <2>1. (m \in WithEnv) \in BOOLEAN
    OBVIOUS
  <2> QED
    BY <2>1, FoundPlace DEF Found
<1> QED
  BY <1>1 DEF LoadFromFile, Read, ServiceObject
-----------------------------------------------------------------------------
(* One lemma for each variable, and one for each way it changes.           *)

LEMMA TypesUnchanged ==
  /\ UNCHANGED <<row, lastId>> /\ TableTypes => TableTypes'
  /\ UNCHANGED services /\ ObjectTypes => ObjectTypes'
  /\ UNCHANGED call /\ CallTypes => CallTypes'
  /\ UNCHANGED inbox /\ InboxTypes => InboxTypes'
  /\ UNCHANGED <<services, call>> /\ AskedIsMissing => AskedIsMissing'
  /\ UNCHANGED openVars /\ locks' \in Nat /\ OpenTypeOK => OpenTypeOK'
<1>1. UNCHANGED <<row, lastId>> /\ TableTypes => TableTypes'
  BY DEF TableTypes, Listed, InTable
<1>2. UNCHANGED services /\ ObjectTypes => ObjectTypes'
  BY DEF ObjectTypes, Has
<1>3. UNCHANGED call /\ CallTypes => CallTypes'
  BY DEF CallTypes
<1>4. UNCHANGED inbox /\ InboxTypes => InboxTypes'
  BY DEF InboxTypes
<1>5. UNCHANGED <<services, call>> /\ AskedIsMissing => AskedIsMissing'
  BY DEF AskedIsMissing, Has
<1>6. UNCHANGED openVars /\ locks' \in Nat /\ OpenTypeOK => OpenTypeOK'
  BY DEF OpenTypeOK, openVars
<1> QED
  BY <1>1, <1>2, <1>3, <1>4, <1>5, <1>6

\* An object is put in the hash.
LEMMA PutTypes ==
  ASSUME ObjectTypes, NEW m \in Managers, NEW s \in Services, NEW o,
         o # NoService => o \in ServiceObject /\ o.type # NoPlace,
         Put(m, s, o)
  PROVE  /\ ObjectTypes' /\ services'[m][s] = o
         /\ \A n \in Managers, t \in Services :
              n # m \/ t # s => services'[n][t] = services[n][t]
<1>1. services' = [n \in Managers |->
                     IF n = m THEN [t \in Services |->
                                      IF t = s THEN o ELSE services[m][t]]
                     ELSE services[n]]
  BY DEF Put, ObjectTypes
<1>2. /\ services'[m][s] = o
      /\ \A n \in Managers, t \in Services :
           n # m \/ t # s => services'[n][t] = services[n][t]
  BY <1>1
<1>3. services' \in [Managers -> [Services -> ServiceObject \cup {NoService}]]
  BY <1>1 DEF ObjectTypes
<1>4. ASSUME NEW n \in Managers, NEW t \in Services,
             services'[n][t] # NoService
      PROVE  services'[n][t].type # NoPlace
  BY <1>2, <1>4 DEF ObjectTypes, Has
<1> QED
  BY <1>2, <1>3, <1>4 DEF ObjectTypes, Has

\* A call goes on with a query, for a service that is still missing.
LEMMA AsksTypes ==
  ASSUME CallTypes, AskedIsMissing, NEW m \in Managers,
         NEW step \in {"select", "insert", "id"}, NEW s \in Services,
         NEW o \in ServiceObject, step # "select" => o.type # NoPlace,
         ~Has(m, s), Asks(m, step, s, o), UNCHANGED services
  PROVE  CallTypes' /\ AskedIsMissing'
<1> DEFINE c == [step |-> step, name |-> s, object |-> o]
<1>1. c.step = step /\ c.name = s /\ c.object = o
  OBVIOUS
<1>2. c \in [step : {"idle", "select", "insert", "id"},
             name : Services \cup {NoService}, object : ServiceObject]
  OBVIOUS
<1>3. call' = [n \in Managers |-> IF n = m THEN c ELSE call[n]]
  BY DEF Asks, CallTypes
<1> HIDE DEF c
<1>4. CallTypes'
  BY <1>1, <1>2, <1>3 DEF CallTypes
<1>5. AskedIsMissing'
  BY <1>1, <1>3 DEF AskedIsMissing, Has
<1> QED
  BY <1>4, <1>5

\* The call ends.
LEMMA IdleTypes ==
  ASSUME CallTypes, NEW m \in Managers, call' = [call EXCEPT ![m] = Idle]
  PROVE  /\ CallTypes' /\ call'[m].step = "idle"
         /\ \A n \in Managers : n # m => call'[n] = call[n]
<1>1. call' = [n \in Managers |-> IF n = m THEN Idle ELSE call[n]]
  BY DEF CallTypes
<1>2. /\ Idle.step = "idle"
      /\ Idle \in [step : {"idle", "select", "insert", "id"},
                   name : Services \cup {NoService}, object : ServiceObject]
  BY ObjectsAreTyped DEF Idle
<1> QED
  BY <1>1, <1>2 DEF CallTypes

\* A call that is not idle names a service.
Asking ==
  \A m \in Managers : call[m].step # "idle" => call[m].name \in Services

\* No object is replaced by one of another type.
Stable(m, s) ==
  Has(m, s) /\ Has(m, s)' => services'[m][s].type = services[m][s].type

LEMMA ReturnTypes ==
  ASSUME ObjectTypes, CallTypes, AskedIsMissing, Asking,
         NEW m \in Managers, call[m].step # "idle", NEW o,
         o # NoService => o \in ServiceObject /\ o.type # NoPlace,
         Return(m, o)
  PROVE  /\ ObjectTypes' /\ CallTypes' /\ AskedIsMissing'
         /\ \A n \in Managers, s \in Services : Stable(n, s)
<1> DEFINE t == call[m].name
<1>1. t \in Services /\ services[m][t] = NoService
  BY DEF Asking, AskedIsMissing, Has
<1>2. /\ ObjectTypes'
      /\ \A n \in Managers, s \in Services :
           n # m \/ s # t => services'[n][s] = services[n][s]
  BY <1>1, PutTypes DEF Return
<1>3. /\ CallTypes' /\ call'[m].step = "idle"
      /\ \A n \in Managers : n # m => call'[n] = call[n]
  BY IdleTypes DEF Return
<1>4. AskedIsMissing'
  BY <1>2, <1>3 DEF AskedIsMissing, Asking, Has
<1>5. \A n \in Managers, s \in Services : Stable(n, s)
  BY <1>1, <1>2 DEF Stable, Has
<1> QED
  BY <1>2, <1>3, <1>4, <1>5
-----------------------------------------------------------------------------
(* The actions.                                                            *)

NoneReplaced == \A m \in Managers, s \in Services : Stable(m, s)

LEMMA NothingReplaced ==
  ASSUME UNCHANGED services
  PROVE  NoneReplaced
BY DEF NoneReplaced, Stable

LEMMA LockTypes ==
  ASSUME TypeInv, Locked \/ NotLocked \/ UNCHANGED locks
  PROVE  locks' \in Nat
BY DEF Locked, NotLocked, TypeInv, OpenTypeOK

LEMMA NewFromFileTypes ==
  ASSUME TypeInv, Asking, NEW m \in Managers, call[m].step # "idle",
         NewFromFile(m, call[m].name)
  PROVE  ObjectTypes' /\ CallTypes' /\ AskedIsMissing' /\ NoneReplaced
<1> DEFINE t == call[m].name
           o == LoadFromFile(m, NewObject, t)
<1>1. t \in Services /\ ~Has(m, t)
  BY DEF Asking, TypeInv, AskedIsMissing
<1>2. o \in ServiceObject /\ (Found(m, t) # NoPlace => o.type # NoPlace)
  BY ObjectsAreTyped, LoadTypes
<1>3. CASE Found(m, t) = NoPlace
  <2>1. Return(m, NoService)
    BY <1>3 DEF NewFromFile
  <2> QED
    BY <2>1, ReturnTypes DEF TypeInv, NoneReplaced
<1>4. CASE Found(m, t) # NoPlace
  <2>1. Asks(m, "insert", t, o) /\ UNCHANGED services
    BY <1>4 DEF NewFromFile
  <2> HIDE DEF o
  <2>2. CallTypes' /\ AskedIsMissing'
    BY <1>1, <1>2, <1>4, <2>1, AsksTypes DEF TypeInv
  <2> QED
    BY <2>1, <2>2, TypesUnchanged, NothingReplaced DEF TypeInv
<1> QED
  BY <1>3, <1>4

LEMMA SelectRowTypes ==
  ASSUME TypeInv, Asking, NEW m \in Managers, SelectRow(m)
  PROVE  TypeInv' /\ NoneReplaced
<1> DEFINE t == call[m].name
<1>1. /\ call[m].step # "idle" /\ t \in Services /\ locks' \in Nat
      /\ UNCHANGED openVars /\ UNCHANGED <<row, lastId, files, inbox>>
  BY LockTypes DEF SelectRow, Stay, Asking
<1>2. ObjectTypes' /\ CallTypes' /\ AskedIsMissing' /\ NoneReplaced
  <2>1. CASE InTable(t) /\ Return(m, FromRow(t))
    <3>1. FromRow(t) \in ServiceObject /\ FromRow(t).type # NoPlace
      BY <1>1, <2>1, ObjectsAreTyped DEF TypeInv
    <3> QED
      BY <1>1, <2>1, <3>1, ReturnTypes DEF TypeInv, NoneReplaced
  <2>2. CASE NewFromFile(m, t)
    BY <1>1, <2>2, NewFromFileTypes
  <2> QED
    BY <2>1, <2>2 DEF SelectRow
<1> QED
  BY <1>1, <1>2, TypesUnchanged DEF TypeInv

\* The new row makes one more of them, and its service had none.
LEMMA RowTypes ==
  ASSUME TableTypes, NEW s \in Services, ~InTable(s),
         NEW from \in Places \cup {NoPlace}, from # NoPlace,
         lastId' = lastId + 1,
         row' = [row EXCEPT ![s] = [id |-> lastId + 1, from |-> from]]
  PROVE  TableTypes'
<1>1. Listed \in SUBSET Services /\ s \notin Listed
  BY DEF Listed, InTable
<1>2. /\ Cardinality(Listed) \in Nat
      /\ Cardinality(Listed \cup {s}) = lastId + 1 /\ lastId + 1 \in Ids
  BY <1>1, IdTypes, FS_CardinalityType DEF TableTypes
<1>3. row' = [t \in Services |->
                IF t = s THEN [id |-> lastId + 1, from |-> from] ELSE row[t]]
  BY DEF TableTypes
<1>4. Listed' = Listed \cup {s}
  BY <1>2, <1>3 DEF Listed, TableTypes
<1>5. row' \in [Services -> [id : Ids, from : Places \cup {NoPlace}]]
  BY <1>2, <1>3 DEF TableTypes
<1>6. \A t \in Services : row'[t].id # 0 => row'[t].from # NoPlace
  BY <1>3 DEF TableTypes, InTable
<1> QED
  BY <1>2, <1>4, <1>5, <1>6 DEF TableTypes, InTable

LEMMA InsertRowTypes ==
  ASSUME TypeInv, Asking, NEW m \in Managers, InsertRow(m)
  PROVE  TypeInv' /\ NoneReplaced
<1> DEFINE t == call[m].name
           o == call[m].object
<1>1. /\ call[m].step = "insert" /\ t \in Services /\ locks' \in Nat
      /\ UNCHANGED openVars /\ UNCHANGED <<files, services, inbox>>
  BY LockTypes DEF InsertRow, Stay, Asking
<1>2. o \in ServiceObject /\ o.type # NoPlace /\ ~Has(m, t)
  BY <1>1 DEF TypeInv, CallTypes, AskedIsMissing
<1>3. CallTypes' /\ AskedIsMissing'
  <2>1. Asks(m, "id", t, o)
    BY DEF InsertRow
  <2> QED
    BY <1>1, <1>2, <2>1, AsksTypes DEF TypeInv
<1>4. TableTypes'
  <2>1. o.type \in Places \cup {NoPlace}
    BY <1>2 DEF ServiceObject
  <2>2. CASE UNCHANGED <<row, lastId>>
    BY <2>2, TypesUnchanged DEF TypeInv
  <2>3. CASE /\ ~InTable(t) /\ lastId' = lastId + 1
             /\ row' = [row EXCEPT ![t] = [id |-> lastId + 1, from |-> o.type]]
    BY <1>1, <1>2, <2>1, <2>3, RowTypes DEF TypeInv
  <2> QED
    BY <2>2, <2>3 DEF InsertRow
<1> QED
  BY <1>1, <1>3, <1>4, TypesUnchanged, NothingReplaced DEF TypeInv

LEMMA SelectIdTypes ==
  ASSUME TypeInv, Asking, NEW m \in Managers, SelectId(m)
  PROVE  TypeInv' /\ NoneReplaced
<1> DEFINE t == call[m].name
           o == [call[m].object EXCEPT !.id = row[t].id]
<1>1. /\ call[m].step = "id" /\ t \in Services /\ locks' \in Nat
      /\ UNCHANGED openVars /\ UNCHANGED <<row, lastId, files, inbox>>
  BY LockTypes DEF SelectId, Stay, Asking
<1>2. o \in ServiceObject /\ o.type # NoPlace
  <2>1. row[t].id \in Ids
    BY <1>1 DEF TypeInv, TableTypes
  <2>2. call[m].object \in ServiceObject /\ call[m].object.type # NoPlace
    BY <1>1 DEF TypeInv, CallTypes
  <2> QED
    BY <2>1, <2>2, ObjectsAreTyped
<1>3. Return(m, o) \/ Return(m, NoService)
  BY DEF SelectId
<1> HIDE DEF o
<1>4. ObjectTypes' /\ CallTypes' /\ AskedIsMissing' /\ NoneReplaced
  BY <1>1, <1>2, <1>3, ReturnTypes DEF TypeInv, NoneReplaced
<1> QED
  BY <1>1, <1>4, TypesUnchanged DEF TypeInv

\* The manager is gone, and its objects with it.
LEMMA VanishTypes ==
  ASSUME TypeInv, NEW m \in Managers, Vanish(m), locks' \in Nat
  PROVE  TypeInv' /\ NoneReplaced
<1>1. OpenTypeOK'
  BY EnterTypes DEF Vanish, TypeInv
<1>2. services' = [n \in Managers |->
                     IF n = m THEN [s \in Services |-> NoService]
                     ELSE services[n]]
  BY DEF Vanish, NoObjects, TypeInv, ObjectTypes
<1>3. services' \in [Managers -> [Services -> ServiceObject \cup {NoService}]]
  BY <1>2 DEF TypeInv, ObjectTypes
<1>4. ObjectTypes' /\ NoneReplaced
  BY <1>2, <1>3 DEF TypeInv, ObjectTypes, Has, NoneReplaced, Stable
<1>5. /\ CallTypes' /\ call'[m].step = "idle"
      /\ \A n \in Managers : n # m => call'[n] = call[n]
  BY IdleTypes DEF Vanish, TypeInv
<1>6. AskedIsMissing'
  BY <1>2, <1>5 DEF TypeInv, AskedIsMissing, Has
<1>7. InboxTypes'
  BY DEF Vanish, TypeInv, InboxTypes
<1> QED
  BY <1>1, <1>4, <1>5, <1>6, <1>7, TypesUnchanged DEF TypeInv, Vanish

LEMMA GetServiceTypes ==
  ASSUME TypeInv, NEW m \in Managers, NEW s \in Services, GetService(m, s)
  PROVE  TypeInv' /\ NoneReplaced
<1>1. CallTypes' /\ AskedIsMissing'
  BY AsksTypes, ObjectsAreTyped DEF GetService, TypeInv
<1> QED
  BY <1>1, TypesUnchanged, NothingReplaced, LockTypes DEF GetService, TypeInv

\* An idle manager puts an object in its hash, of the type of the one that it
\* replaces if there is one.
LEMMA FreePutTypes ==
  ASSUME TypeInv, NEW m \in Managers, NEW s \in Services, Free(m),
         NEW o \in ServiceObject, o.type # NoPlace, Put(m, s, o),
         Has(m, s) => o.type = services[m][s].type, UNCHANGED call
  PROVE  ObjectTypes' /\ AskedIsMissing' /\ NoneReplaced
<1>1. /\ ObjectTypes' /\ services'[m][s] = o
      /\ \A n \in Managers, t \in Services :
           n # m \/ t # s => services'[n][t] = services[n][t]
  BY PutTypes DEF TypeInv
<1>2. AskedIsMissing'
  <2> SUFFICES ASSUME NEW n \in Managers, call[n].step # "idle"
               PROVE  services'[n][call[n].name] = NoService
    BY DEF AskedIsMissing, Has
  <2>1. n # m
    BY DEF Free
  <2>2. CASE call[n].name \in Services
    BY <1>1, <2>1, <2>2 DEF TypeInv, AskedIsMissing, Has
  <2>3. services'[n] = services[n]
    BY <2>1 DEF Put, TypeInv, ObjectTypes
  <2> QED
    BY <2>3 DEF TypeInv, AskedIsMissing, Has
<1>3. NoneReplaced
  BY <1>1 DEF NoneReplaced, Stable
<1> QED
  BY <1>1, <1>2, <1>3

LEMMA ConsultTypes ==
  ASSUME TypeInv, NEW m \in Managers, NEW s \in Services, Consult(m, s)
  PROVE  TypeInv' /\ NoneReplaced
<1> DEFINE o   == services[m][s]
           new == LoadFromFile(m, o, s)
<1>1. o \in ServiceObject /\ o.type # NoPlace
  BY DEF Consult, Has, TypeInv, ObjectTypes
<1>2. new \in ServiceObject /\ new.type = o.type
  BY <1>1, LoadTypes
<1>3. /\ Free(m) /\ Put(m, s, new) /\ UNCHANGED openVars
      /\ UNCHANGED <<row, lastId, files, call, inbox, locks>>
  BY DEF Consult
<1> HIDE DEF new
<1>4. ObjectTypes' /\ AskedIsMissing' /\ NoneReplaced
  BY <1>1, <1>2, <1>3, FreePutTypes
<1> QED
  BY <1>3, <1>4, TypesUnchanged, LockTypes DEF TypeInv

\* A message has the type of the sender's object.
LEMMA StoreSettingsTypes ==
  ASSUME TypeInv, NEW m \in Managers, NEW s \in Services, StoreSettings(m, s)
  PROVE  TypeInv' /\ NoneReplaced
<1> DEFINE o   == services[m][s]
           msg == [name |-> s, id |-> o.id, type |-> o.type]
<1>1. o \in ServiceObject /\ o.type # NoPlace
  BY DEF StoreSettings, Has, TypeInv, ObjectTypes
<1>2. msg \in Message /\ msg.type # NoPlace
  BY <1>1 DEF ServiceObject, Message
<1>3. inbox' = [n \in Managers |-> IF n # m /\ phase[n] = "open"
                                   THEN inbox[n] \cup {msg} ELSE inbox[n]]
  BY DEF StoreSettings, Tell
<1> HIDE DEF msg
<1>4. InboxTypes'
  BY <1>2, <1>3 DEF TypeInv, InboxTypes
<1> QED
  BY <1>4, TypesUnchanged, NothingReplaced, LockTypes
  DEF StoreSettings, TypeInv

LEMMA HandleMessageTypes ==
  ASSUME TypeInv, NEW m \in Managers, NEW msg \in inbox[m],
         HandleMessage(m, msg)
  PROVE  TypeInv' /\ NoneReplaced
<1> DEFINE s   == msg.name
           o   == services[m][s]
           new == [id |-> msg.id, type |-> msg.type, names |-> NoPlace,
                   file |-> NoPlace, defaults |-> NoPlace]
           old == [o EXCEPT !.id = IF @ = 0 THEN msg.id ELSE @]
           put == IF o = NoService THEN new ELSE old
<1>1. msg \in Message /\ msg.type # NoPlace
  BY DEF TypeInv, InboxTypes
<1>2. s \in Services /\ new \in ServiceObject /\ new.type = msg.type
  BY <1>1 DEF Message, ServiceObject
<1>3. ASSUME o # NoService
      PROVE  old \in ServiceObject /\ old.type = o.type /\ o.type # NoPlace
  <2>1. o \in ServiceObject /\ o.type # NoPlace
    BY <1>2, <1>3 DEF TypeInv, ObjectTypes, Has
  <2>2. msg.id \in Ids /\ o.id \in Ids
    BY <1>1, <2>1 DEF Message, ServiceObject
  <2> QED
    BY <2>1, <2>2, ObjectsAreTyped
<1>4. /\ Free(m) /\ Put(m, s, put) /\ UNCHANGED openVars
      /\ UNCHANGED <<row, lastId, files, call, locks>>
      /\ inbox' = [inbox EXCEPT ![m] = @ \ {msg}]
  BY DEF HandleMessage
<1> HIDE DEF new, old
<1>5. /\ put \in ServiceObject /\ put.type # NoPlace
      /\ Has(m, s) => put.type = o.type
  BY <1>1, <1>2, <1>3 DEF Has
<1> HIDE DEF put
<1>6. ObjectTypes' /\ AskedIsMissing' /\ NoneReplaced
  BY <1>2, <1>4, <1>5, FreePutTypes
<1>7. InboxTypes'
  BY <1>4 DEF TypeInv, InboxTypes
<1> QED
  BY <1>4, <1>6, <1>7, TypesUnchanged, LockTypes DEF TypeInv

LEMMA ServingTypes ==
  ASSUME TypeInv, Asking, NEW m \in Managers, Serving(m)
  PROVE  TypeInv' /\ NoneReplaced
<1>1. CASE AbortOnTimeout(m) \/ CloseManager(m)
  BY <1>1, VanishTypes, LockTypes DEF AbortOnTimeout, CloseManager
<1>2. ASSUME NEW s \in Services,
             GetService(m, s) \/ Consult(m, s) \/ StoreSettings(m, s)
      PROVE  TypeInv' /\ NoneReplaced
  BY <1>2, GetServiceTypes, ConsultTypes, StoreSettingsTypes
<1>3. CASE SelectRow(m) \/ InsertRow(m) \/ SelectId(m)
  BY <1>3, SelectRowTypes, InsertRowTypes, SelectIdTypes
<1>4. ASSUME NEW msg \in inbox[m], HandleMessage(m, msg)
      PROVE  TypeInv' /\ NoneReplaced
  BY <1>4, HandleMessageTypes
<1> QED
  BY <1>1, <1>2, <1>3, <1>4 DEF Serving

LEMMA NextTypes ==
  ASSUME TypeInv, Asking, [RegistryNext]_registry
  PROVE  TypeInv' /\ (NoneReplaced \/ UNCHANGED registryVars)
<1>1. ASSUME NEW m \in Managers, Opening(m), UNCHANGED registryVars
      PROVE  TypeInv'
  BY <1>1, OpeningTypes, TypesUnchanged DEF TypeInv, registryVars
<1>2. ASSUME NEW m \in Managers, Serving(m)
      PROVE  TypeInv' /\ NoneReplaced
  BY <1>2, ServingTypes
<1>3. ASSUME NEW s \in Services, NEW in \in Installed, Install(s, in)
      PROVE  TypeInv' /\ NoneReplaced
  <2>1. files' \in [Services -> SUBSET Places]
    BY <1>3, RegistryAssumption DEF Install, TypeInv
  <2> QED
    BY <1>3, <2>1, TypesUnchanged, NothingReplaced, LockTypes
    DEF Install, TypeInv
<1>4. CASE UNCHANGED registry
  BY <1>4, TypesUnchanged, LockTypes DEF registry, registryVars, TypeInv
<1> QED
  BY <1>1, <1>2, <1>3, <1>4 DEF RegistryNext

LEMMA InitTypes ==
  ASSUME OpenInit, RegistryInit
  PROVE  TypeInv
<1>1. OpenTypeOK
  BY ScriptShape, OpenAssumption DEF OpenInit, OpenTypeOK
<1>2. TableTypes
  <2>1. Listed = {}
    BY DEF RegistryInit, Listed
  <2>2. 0 \in Ids
    BY FS_CardinalityType, RegistryAssumption DEF Ids
  <2>3. \A s \in Services : row[s].id = 0
    BY DEF RegistryInit
  <2> QED
    BY <2>1, <2>2, <2>3, FS_EmptySet DEF RegistryInit, TableTypes, InTable
<1>3. ObjectTypes
  BY DEF RegistryInit, NoObjects, ObjectTypes, Has
<1>4. /\ Idle.step = "idle"
      /\ Idle \in [step : {"idle", "select", "insert", "id"},
                   name : Services \cup {NoService}, object : ServiceObject]
  BY ObjectsAreTyped DEF Idle
<1>5. CallTypes /\ AskedIsMissing
  BY <1>4 DEF RegistryInit, CallTypes, AskedIsMissing
<1>6. InboxTypes
  BY DEF RegistryInit, InboxTypes
<1> QED
  BY <1>1, <1>2, <1>3, <1>5, <1>6 DEF RegistryInit, TypeInv

RegistryIsTyped == IndInv /\ TypeInv

LEMMA InvIsAsking == IndInv => Asking
BY DEF IndInv, RegistryInv, CallsInv, Asking

LEMMA TypesInvariant ==
  /\ OpenInit /\ RegistryInit => RegistryIsTyped
  /\ RegistryIsTyped /\ [RegistryNext]_registry => RegistryIsTyped'
BY InitInv, InitTypes, NextKeeps, NextTypes, InvIsAsking DEF RegistryIsTyped

LEMMA TypedServices == RegistryIsTyped => ServicesTypeOK
<1>1. TypeInv => lastId \in Ids
  BY IdTypes DEF TypeInv, TableTypes, Listed
<1> QED
  BY <1>1 DEF RegistryIsTyped, TypeInv, TableTypes, ObjectTypes, CallTypes,
              InboxTypes, ServicesTypeOK, RegistryTypeOK

\* Every variable keeps its type: ids stay in the range of the services that
\* there are, because a service is inserted once; and objects, calls and
\* messages name places that are searched.
THEOREM ServicesAreTyped == RegistrySpec => []ServicesTypeOK
BY TypedServices, TypesInvariant, PTL DEF RegistrySpec, registry

\* No data file that is installed, replaced or removed while an application
\* has a service, and no message of another process about it, changes the
\* type of the service under the application.
THEOREM TypesDoNotChange == RegistrySpec => TypesAreStable
<1>1. RegistryIsTyped /\ [RegistryNext]_registry =>
        [\A m \in Managers, s \in Services :
           Has(m, s) /\ Has(m, s)' =>
             services'[m][s].type = services[m][s].type]_registryVars
  BY NextTypes, InvIsAsking DEF RegistryIsTyped, NoneReplaced, Stable
<1> QED
  BY <1>1, TypesInvariant, PTL DEF RegistrySpec, registry, TypesAreStable
=============================================================================
