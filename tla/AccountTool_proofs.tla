------------------------- MODULE AccountTool_proofs -------------------------
(***************************************************************************)
(* Proofs about RemoteStore and AccountTool, for every value of their      *)
(* constants.                                                              *)
(*                                                                         *)
(* The invariant relates the numbers that the tables, the objects, the     *)
(* calls and the replies hold to those of the accounts they stand for.     *)
(* They are equal because no id is given out twice; all the rest follows.  *)
(* To it come the types of commands, and what a command that deletes has   *)
(* seen to, and still has to see to, at each of its calls.                 *)
(***************************************************************************)
EXTENDS AccountTool, SequenceTheorems, TLAPS

Assumptions == RemoteAssumption /\ ToolAssumption

LEMMA AssumptionsHold == Assumptions
BY RemoteAssumption, ToolAssumption DEF Assumptions
-----------------------------------------------------------------------------
(* The invariant.                                                          *)

\* Rows and settings are those of the account with that id, which was
\* inserted before.
TablesInv ==
  /\ rows \in [Ids -> RowsOf]
  /\ settings \subseteq [account : Ids, section : Sections, by : Nth]
  /\ inserted \in Nth /\ lastRow = inserted
  /\ \A i \in Ids : /\ i <= inserted => rows[i].nth = i /\ rows[i].by = i
                    /\ i > inserted => ~rows[i].live
  /\ \A r \in settings : r.account <= inserted /\ r.by = r.account

\* An object has the id of the account it stands for, or none.
StandsFor(o) == o \in Objects /\ o.id <= inserted /\ o.nth = o.id

ObjectsInv ==
  /\ object \in [Processes -> Objects]
  /\ \A p \in Processes : StandsFor(object[p])

CallsInv ==
  /\ messages \in Seq(Message)
  /\ \A n \in 1..Len(messages) : /\ StandsFor(messages[n].object)
                                 /\ messages[n].id <= inserted
  /\ awaited \in [Processes -> 0..Len(messages)]

\* The shape of a command, and the section that it is about.
IsTool(t) ==
  /\ t = [command |-> t.command, step |-> t.step, ids |-> t.ids,
          section |-> t.section, given |-> t.given, shown |-> t.shown]
  /\ t.section \in Sections

ToolInv ==
  /\ tool = [p \in Tools |-> tool[p]]
  /\ \A p \in Tools : IsTool(tool[p])

IndInv == TablesInv /\ ObjectsInv /\ CallsInv /\ ToolInv
-----------------------------------------------------------------------------
(* Changes and objects.                                                    *)

LEMMA ChangesTypes ==
  /\ NoChanges \in Changes /\ Created \in Changes /\ Deletion \in Changes
  /\ Enabling \in Changes
  /\ \A s \in Sections : Setting(s) \in Changes
  /\ \A c, d \in Changes : Merge(c, d) \in Changes
<1>1. NoChanges \in Changes
  BY DEF NoChanges, Changes
<1>2. Created \in Changes
  BY DEF Created, NoChanges, Changes
<1>3. Deletion \in Changes
  BY DEF Deletion, NoChanges, Changes
<1>4. Enabling \in Changes
  BY DEF Enabling, NoChanges, Changes
<1>5. \A s \in Sections : Setting(s) \in Changes
  BY DEF Setting, NoChanges, Changes
<1>6. \A c, d \in Changes : Merge(c, d) \in Changes
  BY DEF Merge, Changes
<1> QED
  BY <1>1, <1>2, <1>3, <1>4, <1>5, <1>6

LEMMA NobodyStands ==
  ASSUME inserted \in Nth
  PROVE  StandsFor(Nobody)
<1>1. Nobody \in Objects
  BY AssumptionsHold, ChangesTypes
  DEF Nobody, Objects, Nth, Assumptions, RemoteAssumption
<1> QED
  BY <1>1, AssumptionsHold
  DEF StandsFor, Nobody, Nth, Assumptions, RemoteAssumption

LEMMA ChangedStands ==
  ASSUME ObjectsInv, NEW p \in Processes, NEW d \in Changes
  PROVE  StandsFor(Changed(p, d))
<1>1. object[p] \in Objects /\ StandsFor(object[p])
  BY DEF ObjectsInv
<1>2. Merge(object[p].changes, d) \in Changes
  BY <1>1, ChangesTypes DEF Objects
<1> QED
  BY <1>1, <1>2 DEF Changed, Objects, StandsFor

LEMMA ObjectStands ==
  ASSUME inserted \in Nth, NEW i \in Nth, i <= inserted, NEW c \in Changes
  PROVE  StandsFor(Object(i, i, c))
BY DEF StandsFor, Object, Objects
-----------------------------------------------------------------------------
(* The tables.                                                             *)

\* A store writes rows of the account the object stands for, under its id.
LEMMA DeleteRowKeeps ==
  ASSUME TablesInv, NEW o, StandsFor(o), DeleteRow(o)
  PROVE  TablesInv' /\ inserted' = inserted /\ IdOf(o) = o.id
<1>1. \A i \in Ids : rows[i] \in RowsOf
  BY DEF TablesInv
<1>2. \A i \in Ids : /\ rows'[i].nth = rows[i].nth
                     /\ rows'[i].by = rows[i].by
                     /\ rows'[i].live => rows[i].live
                     /\ rows'[i] \in RowsOf
  BY <1>1 DEF DeleteRow, RowsOf
<1>3. rows' \in [Ids -> RowsOf]
  BY <1>2 DEF DeleteRow
<1>4. settings' \subseteq settings /\ lastRow' = lastRow /\ inserted' = inserted
  BY DEF DeleteRow
<1>5. IdOf(o) = o.id
  BY DEF DeleteRow, IdOf
<1> QED
  BY <1>2, <1>3, <1>4, <1>5 DEF TablesInv

LEMMA ReplaceKeeps ==
  ASSUME TablesInv, NEW o, o \in Objects, NEW i \in Ids, o.nth = i
  PROVE  /\ Replace(o, i) \subseteq [account : Ids, section : Sections, by : Nth]
         /\ \A r \in Replace(o, i) : r \in settings \/ (r.account = i /\ r.by = i)
<1>1. o.changes.sections \subseteq Sections /\ i \in Nth
  BY DEF Objects, Changes, Ids, Nth
<1> QED
  BY <1>1 DEF Replace, TablesInv

LEMMA InsertRowKeeps ==
  ASSUME TablesInv, NEW o, StandsFor(o), InsertRow(o)
  PROVE  /\ TablesInv' /\ inserted' \in Nth /\ inserted' = inserted + 1
         /\ IdOf(o) = inserted'
<1> DEFINE new == [live |-> TRUE, nth |-> inserted + 1, by |-> inserted + 1]
           named == [o EXCEPT !.nth = inserted + 1]
<1>1. NewId = inserted + 1 /\ NewId \in Ids /\ NewId \in Nth
  BY AssumptionsHold
  DEF TablesInv, InsertRow, NewId, Ids, Nth, Assumptions, RemoteAssumption
<1>2. new \in RowsOf /\ rows' = [rows EXCEPT ![NewId] = new]
  BY <1>1 DEF RowsOf, InsertRow
<1>3. rows' \in [Ids -> RowsOf]
  BY <1>1, <1>2 DEF TablesInv
<1>4. named \in Objects /\ named.nth = NewId
  BY <1>1 DEF StandsFor, Objects
<1>5. settings' = Replace(named, NewId)
  BY DEF InsertRow
<1>6. /\ settings' \subseteq [account : Ids, section : Sections, by : Nth]
      /\ \A r \in settings' :
           r \in settings \/ (r.account = NewId /\ r.by = NewId)
  BY <1>1, <1>4, <1>5, ReplaceKeeps
<1>7. lastRow' = NewId /\ inserted' = inserted + 1
  BY DEF InsertRow
<1>8. IdOf(o) = NewId
  BY DEF InsertRow, IdOf
<1>9. \A i \in Ids : /\ i <= inserted' => rows'[i].nth = i /\ rows'[i].by = i
                     /\ i > inserted' => ~rows'[i].live
  <2>1. SUFFICES ASSUME NEW i \in Ids
        PROVE  /\ i <= inserted' => rows'[i].nth = i /\ rows'[i].by = i
               /\ i > inserted' => ~rows'[i].live
    OBVIOUS
  <2>2. CASE i = NewId
    BY <1>1, <1>2, <1>7, <2>2 DEF TablesInv, Ids, Nth
  <2>3. CASE i # NewId
    <3>1. rows'[i] = rows[i]
      BY <1>2, <2>3 DEF TablesInv
    <3>2. /\ i <= inserted' => i <= inserted
          /\ i > inserted' => i > inserted
      BY <1>1, <1>7, <2>3 DEF TablesInv, Ids, Nth
    <3> QED
      BY <3>1, <3>2 DEF TablesInv
  <2> QED
    BY <2>2, <2>3
<1>10. \A r \in settings' : r.account <= inserted' /\ r.by = r.account
  <2>1. SUFFICES ASSUME NEW r \in settings'
        PROVE  r.account <= inserted' /\ r.by = r.account
    OBVIOUS
  <2>2. CASE r \in settings
    BY <1>7, <2>2 DEF TablesInv, Ids, Nth
  <2>3. CASE r.account = NewId /\ r.by = NewId
    BY <1>1, <1>7, <2>3 DEF Ids
  <2> QED
    BY <1>6, <2>2, <2>3
<1> QED
  BY <1>1, <1>3, <1>6, <1>7, <1>8, <1>9, <1>10 DEF TablesInv

LEMMA UpdateRowKeeps ==
  ASSUME TablesInv, NEW o, StandsFor(o), UpdateRow(o)
  PROVE  TablesInv' /\ inserted' = inserted /\ IdOf(o) = o.id
<1>1. o \in Objects /\ o.nth = o.id /\ o.id \in Ids /\ o.nth \in Nth
  BY AssumptionsHold
  DEF UpdateRow, StandsFor, Objects, Ids, Nth, Assumptions, RemoteAssumption
<1>2. rows[o.id].nth = o.id /\ rows[o.id].by = o.id /\ rows[o.id] \in RowsOf
  BY <1>1 DEF TablesInv, StandsFor
<1>3. rows' = rows
  <2>1. [rows EXCEPT ![o.id].by = o.nth] = rows
    BY <1>1, <1>2 DEF TablesInv, RowsOf
  <2> QED
    BY <2>1 DEF UpdateRow
<1>4. /\ settings' \subseteq [account : Ids, section : Sections, by : Nth]
      /\ \A r \in settings' : r \in settings \/ (r.account = o.id /\ r.by = o.id)
  BY <1>1, ReplaceKeeps DEF UpdateRow
<1>5. lastRow' = lastRow /\ inserted' = inserted /\ IdOf(o) = o.id
  BY DEF UpdateRow, IdOf
<1>6. \A r \in settings' : r.account <= inserted /\ r.by = r.account
  BY <1>1, <1>4 DEF TablesInv, StandsFor
<1> QED
  BY <1>3, <1>4, <1>5, <1>6 DEF TablesInv

LEMMA ExecuteKeeps ==
  ASSUME TablesInv, NEW o, StandsFor(o), Execute(o)
  PROVE  /\ TablesInv' /\ inserted' \in Nth /\ inserted <= inserted'
         /\ IdOf(o) \in Nth /\ IdOf(o) <= inserted'
         /\ IdOf(o) # o.id => IdOf(o) = inserted'
<1>1. inserted \in Nth /\ o.id \in Nth /\ o.id <= inserted
  BY DEF TablesInv, StandsFor, Objects
<1>2. CASE DeleteRow(o)
  BY <1>1, <1>2, DeleteRowKeeps DEF Nth
<1>3. CASE InsertRow(o)
  BY <1>1, <1>3, InsertRowKeeps DEF Nth
<1>4. CASE UpdateRow(o)
  BY <1>1, <1>4, UpdateRowKeeps DEF Nth
<1> QED
  BY <1>2, <1>3, <1>4 DEF Execute
-----------------------------------------------------------------------------
(* Objects and calls, while the tables only grow.                          *)

RemoteInv == TablesInv /\ ObjectsInv /\ CallsInv

LEMMA HasKeeps ==
  ASSUME ObjectsInv, inserted \in Nth, inserted' \in Nth, inserted <= inserted',
         NEW p \in Processes, NEW o \in Objects,
         o.id <= inserted', o.nth = o.id, Has(p, o)
  PROVE  ObjectsInv'
<1>1. object' \in [Processes -> Objects]
  BY DEF ObjectsInv, Has
<1>2. SUFFICES ASSUME NEW q \in Processes
      PROVE  object'[q].id <= inserted' /\ object'[q].nth = object'[q].id
  BY <1>1 DEF ObjectsInv, StandsFor
<1>3. CASE q = p
  BY <1>3 DEF ObjectsInv, Has
<1>4. CASE q # p
  <2>1. object'[q] = object[q] /\ object[q].id \in Nth
    BY <1>4 DEF ObjectsInv, Has, Objects
  <2> QED
    BY <2>1 DEF ObjectsInv, StandsFor, Nth
<1> QED
  BY <1>3, <1>4

LEMMA ObjectsStay ==
  ASSUME ObjectsInv, inserted \in Nth, inserted' \in Nth, inserted <= inserted',
         UNCHANGED object
  PROVE  ObjectsInv'
<1>1. \A q \in Processes : object[q].id \in Nth /\ object[q].id <= inserted
  BY DEF ObjectsInv, StandsFor, Objects
<1>2. \A q \in Processes : object[q].id <= inserted'
  BY <1>1 DEF Nth
<1> QED
  BY <1>2 DEF ObjectsInv, StandsFor

LEMMA CallTypes ==
  ASSUME CallsInv, NEW n \in 1..Len(messages)
  PROVE  /\ messages[n] \in Message /\ messages[n].id \in Nth
         /\ messages[n].object \in Objects /\ messages[n].object.id \in Nth
<1>1. messages \in Seq(Message)
  BY DEF CallsInv
<1>2. messages[n] \in Message
  BY <1>1, ElementOfSeq
<1> QED
  BY <1>2 DEF Message, Objects

LEMMA CallsStay ==
  ASSUME CallsInv, inserted \in Nth, inserted' \in Nth, inserted <= inserted',
         UNCHANGED callVars
  PROVE  CallsInv'
<1>1. messages' = messages /\ awaited' = awaited
  BY DEF callVars
<1>2. \A n \in 1..Len(messages) : /\ messages[n].object.id <= inserted'
                                  /\ messages[n].id <= inserted'
  BY CallTypes DEF CallsInv, StandsFor, Nth
<1> QED
  BY <1>1, <1>2 DEF CallsInv, StandsFor

\* One message changes, and stands for an account.
LEMMA MessageKeeps ==
  ASSUME CallsInv, inserted \in Nth, inserted' \in Nth, inserted <= inserted',
         NEW n \in 1..Len(messages), NEW m \in Message,
         m.object.id <= inserted', m.object.nth = m.object.id, m.id <= inserted',
         messages' = [messages EXCEPT ![n] = m],
         awaited' \in [Processes -> 0..Len(messages)]
  PROVE  CallsInv'
<1>1. messages \in Seq(Message)
  BY DEF CallsInv
<1>2. /\ messages' \in Seq(Message) /\ Len(messages') = Len(messages)
      /\ \A k \in 1..Len(messages) :
           messages'[k] = IF k = n THEN m ELSE messages[k]
  BY <1>1, ExceptSeq
<1>3. SUFFICES ASSUME NEW k \in 1..Len(messages)
      PROVE  /\ messages'[k].object \in Objects
             /\ messages'[k].object.id <= inserted'
             /\ messages'[k].object.nth = messages'[k].object.id
             /\ messages'[k].id <= inserted'
  BY <1>2 DEF CallsInv, StandsFor
<1>4. CASE k = n
  BY <1>2, <1>4 DEF Message
<1>5. CASE k # n
  <2>1. messages'[k] = messages[k] /\ StandsFor(messages[k].object)
        /\ messages[k].id <= inserted
    BY <1>2, <1>5 DEF CallsInv
  <2>2. messages[k].id \in Nth /\ messages[k].object.id \in Nth
    BY CallTypes
  <2> QED
    BY <2>1, <2>2 DEF StandsFor, Nth
<1> QED
  BY <1>4, <1>5
-----------------------------------------------------------------------------
(* The steps of RemoteStore.                                               *)

LEMMA SendKeeps ==
  ASSUME RemoteInv, NEW p \in Processes, NEW o, StandsFor(o),
         NEW blocking \in BOOLEAN, Send(p, o, blocking)
  PROVE  RemoteInv'
<1> DEFINE sent  == [object |-> o, reply |-> "none", id |-> 0]
           after == [o EXCEPT !.changes = NoChanges]
<1>1. o \in Objects /\ o.id \in Nth /\ o.id <= inserted /\ o.nth = o.id
  BY DEF StandsFor, Objects
<1>2. inserted \in Nth /\ inserted' = inserted /\ TablesInv'
  BY DEF RemoteInv, TablesInv, Send, tableVars
<1>3. inserted <= inserted'
  BY <1>2 DEF Nth
<1>4. after \in Objects /\ after.id = o.id /\ after.nth = o.nth
  BY <1>1, ChangesTypes DEF Objects
<1>5. ObjectsInv'
  <2>1. Has(p, after)
    BY DEF Send
  <2> QED
    BY <1>1, <1>2, <1>3, <1>4, <2>1, HasKeeps DEF RemoteInv
<1>6. CallsInv'
  <2>1. 0 \in Nth /\ 0 <= inserted
    BY <1>2, AssumptionsHold DEF Nth, Assumptions, RemoteAssumption
  <2>2. sent \in Message
    BY <1>1, <2>1 DEF Message
  <2>3. messages \in Seq(Message) /\ messages' = Append(messages, sent)
    BY DEF RemoteInv, CallsInv, Send
  <2>4. /\ messages' \in Seq(Message) /\ Len(messages') = Len(messages) + 1
        /\ \A n \in 1..Len(messages) : messages'[n] = messages[n]
        /\ messages'[Len(messages) + 1] = sent
    BY <2>2, <2>3, AppendProperties
  <2>5. Len(messages) \in Nat
    BY <2>3, LenProperties
  <2>6. awaited' \in [Processes -> 0..Len(messages')]
    <3>1. awaited \in [Processes -> 0..Len(messages)]
      BY DEF RemoteInv, CallsInv
    <3>2. awaited' = [awaited EXCEPT ![p] = Len(messages')]
      BY DEF Send
    <3>3. Len(messages') \in 0..Len(messages')
      BY <2>4, <2>5
    <3>4. 0..Len(messages) \subseteq 0..Len(messages')
      BY <2>4, <2>5
    <3> QED
      BY <3>1, <3>2, <3>3, <3>4
  <2>7. \A n \in 1..Len(messages') : /\ messages'[n].object \in Objects
                                     /\ messages'[n].object.id <= inserted'
                                     /\ messages'[n].object.nth =
                                          messages'[n].object.id
                                     /\ messages'[n].id <= inserted'
    <3>1. SUFFICES ASSUME NEW n \in 1..Len(messages')
          PROVE  /\ messages'[n].object \in Objects
                 /\ messages'[n].object.id <= inserted'
                 /\ messages'[n].object.nth = messages'[n].object.id
                 /\ messages'[n].id <= inserted'
      OBVIOUS
    <3>2. n \in 1..Len(messages) \/ n = Len(messages) + 1
      BY <2>4, <2>5
    <3>3. CASE n \in 1..Len(messages)
      BY <1>2, <2>4, <3>3 DEF RemoteInv, CallsInv, StandsFor
    <3>4. CASE n = Len(messages) + 1
      BY <1>1, <1>2, <2>1, <2>4, <3>4
    <3> QED
      BY <3>2, <3>3, <3>4
  <2> QED
    BY <2>4, <2>6, <2>7 DEF CallsInv, StandsFor
<1> QED
  BY <1>2, <1>5, <1>6 DEF RemoteInv

\* The object keeps its id, and no call changes.
LEMMA LocalStepKeeps ==
  ASSUME RemoteInv, NEW p \in Processes, NEW o, StandsFor(o), Has(p, o),
         UNCHANGED <<tableVars, callVars>>
  PROVE  RemoteInv'
<1>1. o \in Objects /\ o.id \in Nth /\ o.id <= inserted /\ o.nth = o.id
  BY DEF StandsFor, Objects
<1>2. inserted \in Nth /\ inserted' = inserted /\ TablesInv'
  BY DEF RemoteInv, TablesInv, tableVars
<1>3. inserted <= inserted'
  BY <1>2 DEF Nth
<1>4. ObjectsInv'
  BY <1>1, <1>2, <1>3, HasKeeps DEF RemoteInv
<1>5. CallsInv'
  BY <1>2, <1>3, CallsStay DEF RemoteInv
<1> QED
  BY <1>2, <1>4, <1>5 DEF RemoteInv

LEMMA StoreLocalKeeps ==
  ASSUME RemoteInv, NEW p \in Processes, NEW o, StandsFor(o), StoreLocal(p, o)
  PROVE  RemoteInv'
<1>1. CASE /\ Has(p, [o EXCEPT !.changes = NoChanges])
           /\ UNCHANGED <<tableVars, callVars>>
  <2> DEFINE u == [o EXCEPT !.changes = NoChanges]
  <2>1. u \in Objects /\ u.id = o.id /\ u.nth = o.nth
    BY ChangesTypes DEF StandsFor, Objects
  <2>2. StandsFor(u)
    BY <2>1 DEF StandsFor
  <2>3. Has(p, u)
    BY <1>1
  <2> HIDE DEF u
  <2> QED
    BY <1>1, <2>2, <2>3, LocalStepKeeps
<1>2. CASE /\ Execute(o) /\ UNCHANGED callVars
           /\ Has(p, Object(IdOf(o),
                       IF IdOf(o) = o.id THEN o.nth ELSE inserted', NoChanges))
  <2> DEFINE nth == IF IdOf(o) = o.id THEN o.nth ELSE inserted'
  <2>1. inserted \in Nth /\ o.nth = o.id
    BY DEF RemoteInv, TablesInv, StandsFor
  <2>2. /\ TablesInv' /\ inserted' \in Nth /\ inserted <= inserted'
        /\ IdOf(o) \in Nth /\ IdOf(o) <= inserted'
        /\ IdOf(o) # o.id => IdOf(o) = inserted'
    BY ExecuteKeeps, <1>2 DEF RemoteInv
  <2>3. nth = IdOf(o)
    BY <2>1, <2>2
  <2>4. /\ Object(IdOf(o), nth, NoChanges) \in Objects
        /\ Object(IdOf(o), nth, NoChanges).id = IdOf(o)
        /\ Object(IdOf(o), nth, NoChanges).nth = IdOf(o)
    BY <2>2, <2>3, ChangesTypes DEF Object, Objects
  <2>5. Has(p, Object(IdOf(o), nth, NoChanges))
    BY <1>2
  <2> HIDE DEF nth
  <2>6. ObjectsInv'
    BY <2>1, <2>2, <2>4, <2>5, HasKeeps DEF RemoteInv
  <2>7. CallsInv'
    BY <1>2, <2>1, <2>2, CallsStay DEF RemoteInv
  <2> QED
    BY <2>2, <2>6, <2>7 DEF RemoteInv
<1> QED
  BY <1>1, <1>2 DEF StoreLocal

LEMMA StoreKeeps ==
  ASSUME RemoteInv, NEW p \in Processes, NEW o, StandsFor(o),
         StoreBlocking(p, o) \/ StoreAsync(p, o)
  PROVE  RemoteInv'
<1>1. CASE StoreNothing(p, o)
  BY <1>1, LocalStepKeeps DEF StoreNothing
<1>2. CASE StoreLocal(p, o)
  BY <1>2, StoreLocalKeeps
<1>3. CASE StoreRefused(p, o)
  BY <1>3, LocalStepKeeps DEF StoreRefused
<1>4. CASE Send(p, o, TRUE) \/ Send(p, o, FALSE)
  BY <1>4, SendKeeps
<1> QED
  BY <1>1, <1>2, <1>3, <1>4 DEF StoreBlocking, StoreAsync

LEMMA RepliesKeeps ==
  ASSUME CallsInv, inserted \in Nth, inserted' \in Nth, inserted <= inserted',
         NEW n \in 1..Len(messages), NEW r \in {"error", "id"},
         NEW i \in Nth, i <= inserted', Replies(n, r, i), UNCHANGED awaited
  PROVE  CallsInv'
<1> DEFINE m == [object |-> Nobody, reply |-> r,
                 id |-> IF n \in Range(awaited) THEN i ELSE 0]
<1>1. /\ Nobody \in Objects /\ Nobody.id = 0 /\ Nobody.nth = 0
      /\ 0 \in Nth /\ 0 <= inserted'
  BY NobodyStands, AssumptionsHold
  DEF StandsFor, Nobody, Nth, Assumptions, RemoteAssumption
<1>2. m \in Message
  BY <1>1 DEF Message
<1>3. /\ m.object.id <= inserted' /\ m.object.nth = m.object.id
      /\ m.id <= inserted'
  BY <1>1
<1>4. messages' = [messages EXCEPT ![n] = m]
  BY DEF Replies
<1>5. awaited' \in [Processes -> 0..Len(messages)]
  BY DEF CallsInv
<1> HIDE DEF m
<1> QED
  BY <1>2, <1>3, <1>4, <1>5, MessageKeeps

LEMMA ServiceKeeps ==
  ASSUME RemoteInv, Service
  PROVE  RemoteInv'
<1>1. PICK n \in 1..Len(messages) : Serve(n) \/ Refuse(n)
  BY DEF Service
<1>2. inserted \in Nth /\ StandsFor(messages[n].object)
  BY DEF RemoteInv, TablesInv, CallsInv
<1>3. CASE Serve(n)
  <2>1. Execute(messages[n].object) /\ UNCHANGED <<object, awaited>>
        /\ Replies(n, "id", IdOf(messages[n].object))
    BY <1>3 DEF Serve
  <2>2. /\ TablesInv' /\ inserted' \in Nth /\ inserted <= inserted'
        /\ IdOf(messages[n].object) \in Nth
        /\ IdOf(messages[n].object) <= inserted'
    BY <1>2, <2>1, ExecuteKeeps DEF RemoteInv
  <2>3. ObjectsInv'
    BY <1>2, <2>1, <2>2, ObjectsStay DEF RemoteInv
  <2>4. CallsInv'
    BY <1>2, <2>1, <2>2, RepliesKeeps DEF RemoteInv
  <2> QED
    BY <2>2, <2>3, <2>4 DEF RemoteInv
<1>4. CASE Refuse(n)
  <2>1. /\ UNCHANGED tableVars /\ UNCHANGED <<object, awaited>>
        /\ Replies(n, "error", 0)
    BY <1>4 DEF Refuse
  <2>2. TablesInv' /\ inserted' = inserted /\ inserted <= inserted'
    BY <1>2, <2>1 DEF RemoteInv, TablesInv, tableVars, Nth
  <2>3. 0 \in Nth /\ 0 <= inserted'
    BY <1>2, <2>2, AssumptionsHold DEF Nth, Assumptions, RemoteAssumption
  <2>4. ObjectsInv'
    BY <1>2, <2>1, <2>2, ObjectsStay DEF RemoteInv
  <2>5. CallsInv'
    BY <1>2, <2>1, <2>2, <2>3, RepliesKeeps DEF RemoteInv
  <2> QED
    BY <2>2, <2>4, <2>5 DEF RemoteInv
<1> QED
  BY <1>1, <1>3, <1>4

LEMMA LibraryKeeps ==
  ASSUME RemoteInv, NEW p \in Processes, Library(p)
  PROVE  RemoteInv'
<1> DEFINE k == awaited[p]
<1>1. k \in 1..Len(messages) /\ messages \in Seq(Message)
  <2>1. messages \in Seq(Message) /\ k \in 0..Len(messages)
    BY DEF RemoteInv, CallsInv
  <2>2. k # 0
    BY DEF Library, StoreDone, StoreFails, Succeeds, Fails, Calling
  <2>3. Len(messages) \in Nat
    BY <2>1, LenProperties
  <2> QED
    BY <2>1, <2>2, <2>3
<1>2. Ends(p)
  BY DEF Library, StoreDone, StoreFails
<1>3. /\ TablesInv' /\ inserted \in Nth /\ inserted' = inserted
      /\ inserted <= inserted' /\ 0 \in Nth /\ 0 <= inserted
  BY <1>2, AssumptionsHold
  DEF Ends, RemoteInv, TablesInv, tableVars, Nth, Assumptions, RemoteAssumption
<1>4. /\ messages[k] \in Message /\ messages[k].id \in Nth
      /\ StandsFor(messages[k].object) /\ messages[k].id <= inserted
  BY <1>1, CallTypes DEF RemoteInv, CallsInv
<1>5. CallsInv'
  <2> DEFINE m == [messages[k] EXCEPT !.id = 0]
  <2>1. m \in Message /\ m.id = 0 /\ m.object = messages[k].object
    BY <1>3, <1>4 DEF Message
  <2>2. messages' = [messages EXCEPT ![k] = m]
    BY <1>2 DEF Ends
  <2>3. awaited' \in [Processes -> 0..Len(messages)]
    <3>1. awaited \in [Processes -> 0..Len(messages)]
      BY DEF RemoteInv, CallsInv
    <3>2. awaited' = [awaited EXCEPT ![p] = 0]
      BY <1>2 DEF Ends
    <3>3. 0 \in 0..Len(messages)
      BY <1>1, LenProperties
    <3> QED
      BY <3>1, <3>2, <3>3
  <2> HIDE DEF m
  <2> QED
    BY <1>1, <1>3, <1>4, <2>1, <2>2, <2>3, MessageKeeps
    DEF RemoteInv, StandsFor
<1>6. ObjectsInv'
  <2>1. CASE UNCHANGED object
    BY <1>3, <2>1, ObjectsStay DEF RemoteInv
  <2>2. CASE StoreDone(p) /\ object[p].id = 0
    <3> DEFINE i == messages[k].id
               o == Object(i, NthOf(i), object[p].changes)
    <3>1. Has(p, o)
      BY <2>2 DEF StoreDone, ReplyTo
    <3>2. NthOf(i) = i
      BY <1>3, <1>4 DEF NthOf, RemoteInv, TablesInv, Ids, Nth
    <3>3. object[p].changes \in Changes
      BY DEF RemoteInv, ObjectsInv, Objects
    <3>4. o \in Objects /\ o.id = i /\ o.nth = i
      BY <1>4, <3>2, <3>3 DEF Object, Objects
    <3> HIDE DEF o
    <3> QED
      BY <1>3, <1>4, <3>1, <3>4, HasKeeps DEF RemoteInv
  <2>3. CASE StoreDone(p) /\ object[p].id # 0
    <3>1. Has(p, object[p])
      BY <2>3 DEF StoreDone
    <3>2. UNCHANGED object
      BY <3>1 DEF Has, RemoteInv, ObjectsInv
    <3> QED
      BY <2>1, <3>2
  <2>4. CASE StoreFails(p)
    BY <2>1, <2>4 DEF StoreFails
  <2> QED
    BY <2>2, <2>3, <2>4 DEF Library
<1> QED
  BY <1>3, <1>5, <1>6 DEF RemoteInv
-----------------------------------------------------------------------------
(* Commands.                                                               *)

LEMMA ToolShapes ==
  ASSUME NEW t, IsTool(t)
  PROVE  /\ \A x : IsTool([t EXCEPT !.step = x])
         /\ \A x : IsTool([t EXCEPT !.ids = x])
         /\ \A e : IsTool(Shows(t, e))
         /\ IsTool(Over(t))
<1>1. Global \in Sections
  BY DEF Sections
<1> DEFINE rec(c, s, is, se, g, sh) ==
             [command |-> c, step |-> s, ids |-> is, section |-> se,
              given |-> g, shown |-> sh]
<1>2. \A c, s, is, g, sh, se : se \in Sections =>
        IsTool(rec(c, s, is, se, g, sh))
  BY DEF IsTool
<1>3. /\ t = rec(t.command, t.step, t.ids, t.section, t.given, t.shown)
      /\ t.section \in Sections
  BY DEF IsTool
<1>4. \A x : [t EXCEPT !.step = x]
               = rec(t.command, x, t.ids, t.section, t.given, t.shown)
  BY <1>3
<1>5. \A x : [t EXCEPT !.ids = x]
               = rec(t.command, t.step, x, t.section, t.given, t.shown)
  BY <1>3
<1>6. \A e : Shows(t, e) = rec(t.command, t.step, t.ids, t.section, t.given,
                               t.shown \cup {e})
  BY <1>3 DEF Shows
<1>7. Over(t) = rec(t.command, "done", {}, Global,
                    IF Deletes(t) THEN t.given ELSE {}, t.shown)
  BY DEF Over
<1> HIDE DEF rec
<1>8. \A x : IsTool([t EXCEPT !.step = x])
  BY <1>2, <1>3, <1>4
<1>9. \A x : IsTool([t EXCEPT !.ids = x])
  BY <1>2, <1>3, <1>5
<1>10. ASSUME NEW e
       PROVE  IsTool(Shows(t, e))
  <2>1. IsTool(rec(t.command, t.step, t.ids, t.section, t.given,
                   t.shown \cup {e}))
    BY <1>2, <1>3
  <2> QED
    BY <1>6, <2>1
<1>11. IsTool(Over(t))
  BY <1>1, <1>2, <1>7
<1> QED
  BY <1>8, <1>9, <1>10, <1>11

LEMMA CommandShape ==
  ASSUME NEW c, NEW step, NEW accounts, NEW s \in Sections
  PROVE  IsTool(Command(c, step, accounts, s))
BY DEF Command, IsTool

LEMMA NextAccountShape ==
  ASSUME NEW t, IsTool(t)
  PROVE  IsTool(NextAccount(t))
BY ToolShapes DEF NextAccount

LEMMA BecomesKeeps ==
  ASSUME ToolInv, NEW p \in Tools, NEW t, IsTool(t), Becomes(p, t)
  PROVE  ToolInv'
<1>1. tool' = [q \in Tools |-> IF q = p THEN t ELSE tool[q]]
  BY DEF Becomes, ToolInv
<1>2. \A q \in Tools : IsTool(tool'[q])
  BY <1>1 DEF ToolInv
<1>3. tool' = [q \in Tools |-> tool'[q]]
  BY <1>1
<1> QED
  BY <1>2, <1>3 DEF ToolInv, IsTool

LEMMA GoOnKeeps ==
  ASSUME ToolInv, NEW p \in Tools, NEW t, IsTool(t), GoOn(p, t)
  PROVE  ToolInv'
<1>1. IsTool([t EXCEPT !.step = After(t)]) /\ IsTool(NextAccount(t))
  BY ToolShapes, NextAccountShape
<1> QED
  BY <1>1, BecomesKeeps DEF GoOn

LEMMA StopKeeps ==
  ASSUME ToolInv, NEW p \in Tools, NEW e, Stop(p, e)
  PROVE  ToolInv'
<1>1. IsTool(tool[p])
  BY DEF ToolInv
<1>2. IsTool(Over(Shows(tool[p], e)))
  BY <1>1, ToolShapes
<1> QED
  BY <1>2, BecomesKeeps DEF Stop

LEMMA QuietKeeps ==
  ASSUME RemoteInv, Quiet
  PROVE  RemoteInv'
<1>1. /\ UNCHANGED <<rows, settings, lastRow, inserted, object, messages>>
      /\ UNCHANGED awaited
  BY DEF Quiet, remoteVars, tableVars, callVars
<1> QED
  BY <1>1 DEF RemoteInv, TablesInv, ObjectsInv, CallsInv, StandsFor

LEMMA LoadKeeps ==
  ASSUME RemoteInv, NEW p \in Processes, NEW i \in Ids, Load(p, i),
         UNCHANGED <<tableVars, callVars>>
  PROVE  RemoteInv'
<1>1. i \in Nth /\ rows[i].nth = i /\ i <= inserted
  BY DEF Load, RemoteInv, TablesInv, Ids, Nth
<1>2. StandsFor(Object(i, i, NoChanges))
  BY <1>1, ObjectStands, ChangesTypes DEF RemoteInv, TablesInv
<1>3. Has(p, Object(i, i, NoChanges))
  BY <1>1 DEF Load
<1> QED
  BY <1>2, <1>3, LocalStepKeeps

LEMMA StartKeeps ==
  ASSUME IndInv, NEW p \in Tools, NEW c \in Commands, NEW i \in Ids,
         NEW s \in Sections, Start(p, c, i, s)
  PROVE  IndInv'
<1>1. /\ IsTool(Command(c, "open", Named(c, i), s))
      /\ IsTool(Command(c, "open", {}, s))
  BY CommandShape
<1>2. IsTool(Over(Shows(Command(c, "open", {}, s), "INVALID_INPUT")))
  BY <1>1, ToolShapes
<1>3. ToolInv'
  BY <1>1, <1>2, BecomesKeeps DEF Start, IndInv
<1>4. RemoteInv'
  <2>1. p \in Processes /\ StandsFor(Nobody)
    BY NobodyStands, AssumptionsHold
    DEF IndInv, TablesInv, Assumptions, ToolAssumption
  <2> QED
    BY <2>1, LocalStepKeeps DEF Start, IndInv, RemoteInv
<1> QED
  BY <1>3, <1>4 DEF IndInv, RemoteInv

LEMMA RunKeeps ==
  ASSUME IndInv, NEW p \in Tools, Run(p)
  PROVE  IndInv'
<1>1. p \in Processes /\ IsTool(tool[p]) /\ RemoteInv /\ ToolInv
  BY AssumptionsHold
  DEF IndInv, RemoteInv, ToolInv, Assumptions, ToolAssumption
<1>2. SUFFICES ASSUME ~ \E c \in Commands, i \in Ids, s \in Sections :
                          Start(p, c, i, s)
      PROVE  RemoteInv' /\ ToolInv'
  BY StartKeeps DEF IndInv, RemoteInv
<1>3. CASE OpenManager(p)
  BY <1>1, <1>3, QuietKeeps, GoOnKeeps, StopKeeps DEF OpenManager
<1>4. CASE List(p)
  <2>1. /\ IsTool(Over(tool[p]))
        /\ IsTool(Command(tool[p].command, "load", Live, Global))
    BY <1>1, ToolShapes, CommandShape DEF Sections
  <2>2. ToolInv'
    BY <1>1, <1>4, <2>1, BecomesKeeps DEF List
  <2> QED
    BY <1>1, <1>4, <2>2, QuietKeeps DEF List
<1>5. ASSUME NEW i \in Ids, LoadAccount(p, i)
      PROVE  RemoteInv' /\ ToolInv'
  <2>1. ToolInv'
    BY <1>1, <1>5, ToolShapes, GoOnKeeps DEF LoadAccount
  <2>2. RemoteInv'
    BY <1>1, <1>5, LoadKeeps DEF LoadAccount
  <2> QED
    BY <2>1, <2>2
<1>6. ASSUME NEW i \in Ids, NoSuchAccount(p, i)
      PROVE  RemoteInv' /\ ToolInv'
  <2> DEFINE t == [tool[p] EXCEPT !.ids = @ \ {i}]
  <2>1. IsTool(t)
    BY <1>1, ToolShapes
  <2>2. /\ IsTool(NextAccount(t))
        /\ IsTool(NextAccount(Shows(t, "INVALID_ACC_ID")))
    BY <2>1, ToolShapes, NextAccountShape
  <2>3. ToolInv'
    BY <1>1, <1>6, <2>2, BecomesKeeps DEF NoSuchAccount
  <2> QED
    BY <1>1, <1>6, <2>3, QuietKeeps DEF NoSuchAccount
<1>7. CASE GetService(p)
  BY <1>1, <1>7, QuietKeeps, GoOnKeeps, StopKeeps DEF GetService
<1>8. CASE ReadSetting(p)
  BY <1>1, <1>8, QuietKeeps, GoOnKeeps, StopKeeps DEF ReadSetting
<1>9. CASE PrintAccount(p)
  BY <1>1, <1>9, QuietKeeps, GoOnKeeps DEF PrintAccount
<1>10. CASE StoreAccount(p)
  <2>1. Change(tool[p]) \in Changes
    BY <1>1, ChangesTypes DEF Change, IsTool
  <2>2. StandsFor(Changed(p, Change(tool[p])))
    BY <1>1, <2>1, ChangedStands DEF RemoteInv
  <2>3. RemoteInv'
    BY <1>1, <1>10, <2>2, StoreKeeps DEF StoreAccount
  <2>4. ToolInv'
    BY <1>1, <1>10, ToolShapes, BecomesKeeps DEF StoreAccount
  <2> QED
    BY <2>3, <2>4
<1>11. CASE Stored(p)
  <2>1. IsTool(Reported(tool[p], result[p]))
    BY <1>1, ToolShapes DEF Reported
  <2>2. ToolInv'
    BY <1>1, <1>11, <2>1, NextAccountShape, BecomesKeeps DEF Stored
  <2>3. StandsFor(Nobody)
    BY <1>1, NobodyStands DEF RemoteInv, TablesInv
  <2>4. RemoteInv'
    BY <1>1, <1>11, <2>3, LocalStepKeeps DEF Stored
  <2> QED
    BY <2>2, <2>4
<1> QED
  BY <1>2, <1>3, <1>4, <1>5, <1>6, <1>7, <1>8, <1>9, <1>10, <1>11 DEF Run
-----------------------------------------------------------------------------
(* Programs with an account.                                               *)

LEMMA WorkKeeps ==
  ASSUME IndInv, NEW p \in Clients, Work(p)
  PROVE  IndInv'
<1>1. p \in Processes /\ RemoteInv /\ ToolInv /\ UNCHANGED tool
  BY AssumptionsHold
  DEF Assumptions, ToolAssumption, IndInv, RemoteInv, Work, Create, Open,
      Store, StoreWaiting, Edit, Idle
<1>2. ToolInv'
  BY <1>1 DEF ToolInv, IsTool
<1>3. CASE Create(p)
  <2>1. inserted \in Nth /\ 0 \in Nth /\ 0 <= inserted
    BY <1>1, AssumptionsHold
    DEF RemoteInv, TablesInv, Nth, Assumptions, RemoteAssumption
  <2>2. StandsFor(Object(0, 0, Created))
    BY <2>1, ObjectStands, ChangesTypes
  <2> QED
    BY <1>1, <1>2, <1>3, <2>2, LocalStepKeeps DEF Create, IndInv, RemoteInv
<1>4. ASSUME NEW i \in Ids, Open(p, i)
      PROVE  IndInv'
  BY <1>1, <1>2, <1>4, LoadKeeps DEF Open, IndInv, RemoteInv
<1>5. ASSUME NEW d \in Edits(p), Store(p, d) \/ StoreWaiting(p, d) \/ Edit(p, d)
      PROVE  IndInv'
  <2>1. d \in Changes
    BY ChangesTypes DEF Edits
  <2>2. StandsFor(Changed(p, d))
    BY <1>1, <2>1, ChangedStands DEF RemoteInv
  <2>3. CASE Store(p, d) \/ StoreWaiting(p, d)
    BY <1>1, <1>2, <2>2, <2>3, StoreKeeps
    DEF Store, StoreWaiting, IndInv, RemoteInv
  <2>4. CASE Edit(p, d)
    BY <1>1, <1>2, <2>2, <2>4, LocalStepKeeps DEF Edit, IndInv, RemoteInv
  <2> QED
    BY <1>5, <2>3, <2>4
<1> QED
  BY <1>3, <1>4, <1>5 DEF Work
-----------------------------------------------------------------------------
(* The theorem.                                                            *)

LEMMA InitInv ==
  ASSUME Init
  PROVE  IndInv
<1>1. MaxRows \in Nat /\ 0 \in Nth
  BY AssumptionsHold DEF Assumptions, RemoteAssumption, Nth
<1>2. TablesInv
  <2>1. rows \in [Ids -> RowsOf]
    BY <1>1 DEF Init, RemoteInit, RowsOf
  <2>2. \A i \in Ids : ~(i <= inserted) /\ ~rows[i].live
    BY <1>1 DEF Init, RemoteInit, Ids
  <2> QED
    BY <1>1, <2>1, <2>2 DEF TablesInv, Init, RemoteInit
<1>3. ObjectsInv
  BY <1>1, <1>2, NobodyStands
  DEF ObjectsInv, StandsFor, TablesInv, Init, RemoteInit
<1>4. CallsInv
  BY DEF CallsInv, Init, RemoteInit
<1>5. ToolInv
  BY DEF ToolInv, IsTool, NoTool, Sections, Init
<1> QED
  BY <1>2, <1>3, <1>4, <1>5 DEF IndInv

LEMMA NextKeeps ==
  ASSUME IndInv, [Next]_vars
  PROVE  IndInv'
<1>1. CASE \E p \in Tools : Run(p)
  BY <1>1, RunKeeps
<1>2. CASE \E p \in Clients : Work(p)
  BY <1>2, WorkKeeps
<1>3. ASSUME UNCHANGED tool, RemoteInv'
      PROVE  IndInv'
  BY <1>3 DEF IndInv, RemoteInv, ToolInv, IsTool
<1>4. CASE (\E p \in Processes : Library(p)) /\ UNCHANGED tool
  BY <1>3, <1>4, LibraryKeeps DEF IndInv, RemoteInv
<1>5. CASE Service /\ UNCHANGED tool
  BY <1>3, <1>5, ServiceKeeps DEF IndInv, RemoteInv
<1>6. CASE UNCHANGED vars
  BY <1>3, <1>6, QuietKeeps DEF IndInv, RemoteInv, Quiet, vars
<1> QED
  BY <1>1, <1>2, <1>4, <1>5, <1>6 DEF Next

LEMMA IndInvImplies ==
  ASSUME IndInv
  PROVE  NoInheritedSettings
<1>1. SUFFICES ASSUME NEW i \in Ids, rows[i].live
      PROVE  /\ rows[i].by = rows[i].nth
             /\ \A r \in settings : r.account = i => r.by = rows[i].nth
  BY DEF NoInheritedSettings, Live
<1>2. i \in Nat /\ inserted \in Nat
  BY AssumptionsHold
  DEF IndInv, TablesInv, Ids, Nth, Assumptions, RemoteAssumption
<1>3. i <= inserted
  BY <1>1, <1>2 DEF IndInv, TablesInv
<1>4. rows[i].nth = i /\ rows[i].by = i
  BY <1>3 DEF IndInv, TablesInv
<1> QED
  BY <1>4 DEF IndInv, TablesInv

\* An account never shows a setting, or a name or an enabled flag, that was
\* written for another one: however many processes delete and store the same
\* accounts, and however late the service of a read-only manager stores what
\* it was sent.
THEOREM NoInheritance == Spec => []NoInheritedSettings
<1>1. Init => IndInv
  BY InitInv
<1>2. IndInv /\ [Next]_vars => IndInv'
  BY NextKeeps
<1>3. IndInv => NoInheritedSettings
  BY IndInvImplies
<1> QED
  BY <1>1, <1>2, <1>3, PTL DEF Spec
-----------------------------------------------------------------------------
(* The calls of commands.                                                  *)

\* Its calls are different ones, the first opens the manager, and a list is
\* followed by the loading of accounts.
IsScript(f) ==
  /\ f \in Seq(Running \ {"storing"}) /\ Len(f) > 0 /\ f[1] = "open"
  /\ \A i, j \in 1..Len(f) : f[i] = f[j] => i = j
  /\ "list" \in Range(f) => "load" \in Range(f)

LEMMA ScriptsAreRight ==
  ASSUME NEW c \in Commands
  PROVE  IsScript(Steps[c])
<1>1. IsScript(<<"open", "store">>)
  BY DEF IsScript, Running, Range
<1>2. IsScript(<<"open", "load", "store">>)
  BY DEF IsScript, Running, Range
<1>3. IsScript(<<"open", "list", "load", "store">>)
  BY DEF IsScript, Running, Range
<1>4. IsScript(<<"open", "load", "service", "store">>)
  BY DEF IsScript, Running, Range
<1>5. IsScript(<<"open", "load", "read">>)
  BY DEF IsScript, Running, Range
<1>6. IsScript(<<"open", "load", "service", "read">>)
  BY DEF IsScript, Running, Range
<1>7. IsScript(<<"open", "load", "print">>)
  BY DEF IsScript, Running, Range
<1>8. IsScript(<<"open", "list", "load", "print">>)
  BY DEF IsScript, Running, Range
<1>9. IsScript(<<"open", "print">>)
  BY DEF IsScript, Running, Range
<1> QED
  BY <1>1, <1>2, <1>3, <1>4, <1>5, <1>6, <1>7, <1>8, <1>9
  DEF Commands, Steps

\* The calls of the commands that delete.
LEMMA DeletingSteps ==
  /\ Steps["delete_account"] = <<"open", "load", "store">>
  /\ Steps["delete_all"] = <<"open", "list", "load", "store">>
  /\ {"delete_account", "delete_all"} \subseteq Commands
  /\ Range(Steps["delete_account"]) = {"open", "load", "store"}
  /\ Range(Steps["delete_all"]) = {"open", "list", "load", "store"}
<1>1. /\ Steps["delete_account"] = <<"open", "load", "store">>
      /\ Steps["delete_all"] = <<"open", "list", "load", "store">>
      /\ {"delete_account", "delete_all"} \subseteq Commands
  BY DEF Steps, Commands
<1>2. Range(<<"open", "load", "store">>) = {"open", "load", "store"}
  BY DEF Range
<1>3. Range(<<"open", "list", "load", "store">>)
        = {"open", "list", "load", "store"}
  BY DEF Range
<1> QED
  BY <1>1, <1>2, <1>3

\* The call after the k-th.
LEMMA AfterIsNext ==
  ASSUME NEW t, t.command \in Commands, NEW k \in 1..Len(Steps[t.command]),
         Steps[t.command][k] = t.step
  PROVE  After(t) = IF k < Len(Steps[t.command])
                    THEN Steps[t.command][k + 1] ELSE "done"
<1> DEFINE f == Steps[t.command]
           i == CHOOSE j \in DOMAIN f : f[j] = t.step
<1>1. IsScript(f)
  BY ScriptsAreRight
<1>2. DOMAIN f = 1..Len(f)
  BY <1>1 DEF IsScript
<1>3. i = k
  BY <1>1, <1>2 DEF IsScript
<1>4. After(t) = IF i < Len(f) THEN f[i + 1] ELSE "done"
  BY DEF After
<1> HIDE DEF i
<1> QED
  BY <1>3, <1>4

LEMMA AfterTypes ==
  ASSUME NEW t, t.command \in Commands, t.step \in Range(Steps[t.command])
  PROVE  After(t) \in Range(Steps[t.command]) \cup {"done"}
<1> DEFINE f == Steps[t.command]
<1>1. f \in Seq(Running \ {"storing"})
  BY ScriptsAreRight DEF IsScript
<1>2. PICK k \in 1..Len(f) : f[k] = t.step
  BY <1>1 DEF Range
<1>3. After(t) = IF k < Len(f) THEN f[k + 1] ELSE "done"
  BY <1>2, AfterIsNext
<1>4. k < Len(f) => k + 1 \in DOMAIN f
  BY <1>1, <1>2
<1> QED
  BY <1>3, <1>4 DEF Range

LEMMA DeletingAfter ==
  ASSUME NEW t, Deletes(t)
  PROVE  /\ t.command = "delete_all" /\ t.step = "open" => After(t) = "list"
         /\ t.command = "delete_account" /\ t.step = "open" =>
              After(t) = "load"
         /\ t.step = "load" => After(t) = "store"
<1>1. CASE t.command = "delete_account"
  <2> DEFINE f == Steps[t.command]
  <2>1. f = <<"open", "load", "store">> /\ t.command \in Commands
    BY <1>1, DeletingSteps
  <2>2. Len(f) = 3 /\ f[1] = "open" /\ f[2] = "load" /\ f[3] = "store"
    BY <2>1
  <2>3. t.step = f[1] => After(t) = f[2]
    <3>1. 1 \in 1..Len(f) /\ 1 < Len(f) /\ 1 + 1 = 2
      BY <2>2
    <3> QED
      BY <2>1, <3>1, AfterIsNext
  <2>4. t.step = f[2] => After(t) = f[3]
    <3>1. 2 \in 1..Len(f) /\ 2 < Len(f) /\ 2 + 1 = 3
      BY <2>2
    <3> QED
      BY <2>1, <3>1, AfterIsNext
  <2> HIDE DEF f
  <2> QED
    BY <1>1, <2>2, <2>3, <2>4
<1>2. CASE t.command = "delete_all"
  <2> DEFINE f == Steps[t.command]
  <2>1. f = <<"open", "list", "load", "store">> /\ t.command \in Commands
    BY <1>2, DeletingSteps
  <2>2. Len(f) = 4 /\ f[1] = "open" /\ f[2] = "list" /\ f[3] = "load"
        /\ f[4] = "store"
    BY <2>1
  <2>3. t.step = f[1] => After(t) = f[2]
    <3>1. 1 \in 1..Len(f) /\ 1 < Len(f) /\ 1 + 1 = 2
      BY <2>2
    <3> QED
      BY <2>1, <3>1, AfterIsNext
  <2>4. t.step = f[3] => After(t) = f[4]
    <3>1. 3 \in 1..Len(f) /\ 3 < Len(f) /\ 3 + 1 = 4
      BY <2>2
    <3> QED
      BY <2>1, <3>1, AfterIsNext
  <2> HIDE DEF f
  <2> QED
    BY <1>2, <2>2, <2>3, <2>4
<1> QED
  BY <1>1, <1>2 DEF Deletes
-----------------------------------------------------------------------------
(* The types of commands and of what processes await.                      *)

ToolRecords ==
  [command : Commands \cup {"none"}, step : Running \cup {"done"},
   ids : SUBSET Ids, section : Sections, given : SUBSET Ids,
   shown : SUBSET Errors]

\* A command that is not over is at one of its calls, or awaits its store.
AtACall(t) ==
  t.step # "done" => /\ t.command \in Commands
                     /\ t.step \in Range(Steps[t.command]) \cup {"storing"}

IsCommand(t) == t \in ToolRecords /\ AtACall(t)

ToolsTyped ==
  tool \in [Tools -> ToolRecords] /\ \A p \in Tools : AtACall(tool[p])

CallsTyped ==
  /\ blocked \subseteq {p \in Processes : awaited[p] # 0}
  /\ result \in [Processes -> {"none", "ok", "db", "readonly"}]

LEMMA StepsAreRunning ==
  ASSUME NEW c \in Commands
  PROVE  /\ Range(Steps[c]) \subseteq Running \ {"storing"}
         /\ "open" \in Range(Steps[c])
         /\ "list" \in Range(Steps[c]) => "load" \in Range(Steps[c])
<1>1. IsScript(Steps[c])
  BY ScriptsAreRight
<1>2. DOMAIN Steps[c] = 1..Len(Steps[c]) /\ 1 \in 1..Len(Steps[c])
  BY <1>1 DEF IsScript
<1> QED
  BY <1>1, <1>2 DEF IsScript, Range

LEMMA ShowsTypes ==
  ASSUME NEW t \in ToolRecords, AtACall(t), NEW e \in Errors
  PROVE  /\ IsCommand(Shows(t, e)) /\ Shows(t, e).shown # {}
         /\ Shows(t, e).command = t.command
<1> DEFINE u == [t EXCEPT !.shown = @ \cup {e}]
<1>1. /\ u \in ToolRecords /\ u.step = t.step /\ u.command = t.command
      /\ e \in u.shown
  BY DEF ToolRecords
<1>2. u = Shows(t, e)
  BY DEF Shows
<1> HIDE DEF u
<1> QED
  BY <1>1, <1>2 DEF IsCommand, AtACall

LEMMA OverTypes ==
  ASSUME NEW t \in ToolRecords
  PROVE  /\ IsCommand(Over(t)) /\ Over(t).step = "done"
         /\ Over(t).shown = t.shown /\ Over(t).command = t.command
         /\ Over(t).given \subseteq t.given
<1>1. Global \in Sections
  BY DEF Sections
<1> QED
  BY <1>1 DEF Over, ToolRecords, IsCommand, AtACall

LEMMA IdsTypes ==
  ASSUME NEW t \in ToolRecords, AtACall(t), NEW is \in SUBSET Ids
  PROVE  /\ IsCommand([t EXCEPT !.ids = is])
         /\ [t EXCEPT !.ids = is].ids = is
         /\ [t EXCEPT !.ids = is].given = t.given
         /\ [t EXCEPT !.ids = is].shown = t.shown
         /\ [t EXCEPT !.ids = is].command = t.command
         /\ [t EXCEPT !.ids = is].step = t.step
<1> DEFINE u == [t EXCEPT !.ids = is]
<1>1. /\ u \in ToolRecords /\ u.step = t.step /\ u.command = t.command
      /\ u.ids = is /\ u.given = t.given /\ u.shown = t.shown
  BY DEF ToolRecords
<1> HIDE DEF u
<1>2. IsCommand(u)
  BY <1>1 DEF IsCommand, AtACall
<1> QED
  BY <1>1, <1>2 DEF u

LEMMA StepTypes ==
  ASSUME NEW t \in ToolRecords, t.command \in Commands,
         NEW x \in Range(Steps[t.command]) \cup {"storing", "done"}
  PROVE  /\ IsCommand([t EXCEPT !.step = x])
         /\ [t EXCEPT !.step = x].step = x
         /\ [t EXCEPT !.step = x].ids = t.ids
         /\ [t EXCEPT !.step = x].given = t.given
         /\ [t EXCEPT !.step = x].shown = t.shown
         /\ [t EXCEPT !.step = x].command = t.command
<1> DEFINE u == [t EXCEPT !.step = x]
<1>1. x \in Running \cup {"done"}
  BY StepsAreRunning DEF Running
<1>2. /\ u \in ToolRecords /\ u.step = x /\ u.command = t.command
      /\ u.ids = t.ids /\ u.given = t.given /\ u.shown = t.shown
  BY <1>1 DEF ToolRecords
<1> HIDE DEF u
<1>3. IsCommand(u)
  BY <1>2 DEF IsCommand, AtACall
<1> QED
  BY <1>2, <1>3 DEF u

LEMMA NextAccountTypes ==
  ASSUME NEW t \in ToolRecords, t.command \in Commands
  PROVE  IsCommand(NextAccount(t))
<1>1. CASE Looping(t)
  <2>1. "load" \in Range(Steps[t.command])
    BY <1>1, StepsAreRunning DEF Looping
  <2> QED
    BY <2>1, StepTypes, OverTypes DEF NextAccount
<1>2. CASE ~Looping(t)
  BY <1>2, OverTypes DEF NextAccount
<1> QED
  BY <1>1, <1>2

LEMMA CommandTypes ==
  ASSUME NEW c \in Commands, NEW step \in Range(Steps[c]),
         NEW accounts \in SUBSET Ids, NEW s \in Sections
  PROVE  /\ IsCommand(Command(c, step, accounts, s))
         /\ Command(c, step, accounts, s).command = c
<1>1. step \in Running
  BY StepsAreRunning
<1> QED
  BY <1>1 DEF Command, IsCommand, AtACall, ToolRecords

LEMMA BecomesTypes ==
  ASSUME ToolsTyped, NEW p \in Tools, NEW t, IsCommand(t), Becomes(p, t)
  PROVE  /\ ToolsTyped' /\ tool'[p] = t
         /\ \A q \in Tools : q # p => tool'[q] = tool[q]
<1>1. /\ tool' \in [Tools -> ToolRecords] /\ tool'[p] = t
      /\ \A q \in Tools : q # p => tool'[q] = tool[q]
  BY DEF Becomes, ToolsTyped, IsCommand
<1>2. \A q \in Tools : AtACall(tool'[q])
  BY <1>1 DEF ToolsTyped, IsCommand
<1> QED
  BY <1>1, <1>2 DEF ToolsTyped, AtACall

LEMMA GoOnTypes ==
  ASSUME ToolsTyped, NEW p \in Tools, NEW t \in ToolRecords,
         t.command \in Commands, t.step \in Range(Steps[t.command]),
         GoOn(p, t)
  PROVE  ToolsTyped'
<1>1. After(t) \in Range(Steps[t.command]) \cup {"done"}
  BY AfterTypes
<1>2. /\ IsCommand(NextAccount(t))
      /\ IsCommand([t EXCEPT !.step = After(t)])
  BY <1>1, NextAccountTypes, StepTypes
<1> QED
  BY <1>2, BecomesTypes DEF GoOn

LEMMA StopTypes ==
  ASSUME ToolsTyped, NEW p \in Tools, NEW e \in Errors, Stop(p, e)
  PROVE  ToolsTyped'
<1>1. tool[p] \in ToolRecords /\ AtACall(tool[p])
  BY DEF ToolsTyped
<1>2. IsCommand(Over(Shows(tool[p], e)))
  BY <1>1, ShowsTypes, OverTypes DEF IsCommand
<1> QED
  BY <1>2, BecomesTypes DEF Stop

\* A process that is at a call has a command which makes it.
LEMMA CallOfCommand ==
  ASSUME ToolsTyped, NEW p \in Tools, NEW x, At(p, x),
         x \notin {"done", "storing"}
  PROVE  /\ tool[p] \in ToolRecords /\ AtACall(tool[p])
         /\ tool[p].command \in Commands
         /\ tool[p].step \in Range(Steps[tool[p].command])
BY DEF ToolsTyped, AtACall, At

LEMMA RunTypes ==
  ASSUME ToolsTyped, NEW p \in Tools, Run(p)
  PROVE  ToolsTyped'
<1>1. tool[p] \in ToolRecords /\ AtACall(tool[p])
  BY DEF ToolsTyped
<1>2. ASSUME NEW c \in Commands, NEW i \in Ids, NEW s \in Sections,
             Start(p, c, i, s)
      PROVE  ToolsTyped'
  <2>1. "open" \in Range(Steps[c]) /\ Named(c, i) \in SUBSET Ids
    BY StepsAreRunning DEF Named
  <2>2. /\ IsCommand(Command(c, "open", Named(c, i), s))
        /\ IsCommand(Command(c, "open", {}, s))
    BY <2>1, CommandTypes
  <2>3. IsCommand(Over(Shows(Command(c, "open", {}, s), "INVALID_INPUT")))
    BY <2>2, ShowsTypes, OverTypes DEF IsCommand, Errors
  <2> QED
    BY <1>2, <2>2, <2>3, BecomesTypes DEF Start
<1>3. CASE OpenManager(p) \/ GetService(p) \/ ReadSetting(p)
             \/ PrintAccount(p)
  <2>1. ASSUME NEW x \in {"open", "service", "read", "print"}, At(p, x),
               GoOn(p, tool[p])
        PROVE  ToolsTyped'
    BY <2>1, CallOfCommand, GoOnTypes
  <2>2. ASSUME NEW e \in Errors, Stop(p, e)
        PROVE  ToolsTyped'
    BY <2>2, StopTypes
  <2> QED
    BY <1>3, <2>1, <2>2
    DEF OpenManager, GetService, ReadSetting, PrintAccount, Errors
<1>4. CASE List(p)
  <2>1. /\ tool[p].command \in Commands
        /\ "list" \in Range(Steps[tool[p].command])
    BY <1>4, CallOfCommand DEF List, At
  <2>2. "load" \in Range(Steps[tool[p].command]) /\ Live \in SUBSET Ids
    BY <2>1, StepsAreRunning DEF Live
  <2>3. IsCommand(Command(tool[p].command, "load", Live, Global))
    BY <2>1, <2>2, CommandTypes DEF Sections
  <2>4. IsCommand(Over(tool[p]))
    BY <1>1, OverTypes
  <2> QED
    BY <1>4, <2>3, <2>4, BecomesTypes DEF List
<1>5. ASSUME NEW i \in Ids, LoadAccount(p, i) \/ NoSuchAccount(p, i)
      PROVE  ToolsTyped'
  <2> DEFINE t == [tool[p] EXCEPT !.ids = tool[p].ids \ {i}]
  <2>1. /\ tool[p].command \in Commands
        /\ tool[p].step \in Range(Steps[tool[p].command])
    BY <1>5, CallOfCommand DEF LoadAccount, NoSuchAccount
  <2>2. tool[p].ids \ {i} \in SUBSET Ids
    BY <1>1 DEF ToolRecords
  <2>3. IsCommand(t) /\ t.command = tool[p].command /\ t.step = tool[p].step
    BY <1>1, <2>2, IdsTypes
  <2>4. CASE LoadAccount(p, i)
    <3>1. GoOn(p, t)
      BY <2>4 DEF LoadAccount
    <3> HIDE DEF t
    <3> QED
      BY <2>1, <2>3, <3>1, GoOnTypes DEF IsCommand
  <2>5. CASE NoSuchAccount(p, i)
    <3>1. \/ Becomes(p, NextAccount(t))
          \/ Becomes(p, NextAccount(Shows(t, "INVALID_ACC_ID")))
      BY <2>5 DEF NoSuchAccount
    <3> HIDE DEF t
    <3>2. /\ IsCommand(NextAccount(t))
          /\ IsCommand(NextAccount(Shows(t, "INVALID_ACC_ID")))
      BY <2>1, <2>3, ShowsTypes, NextAccountTypes DEF IsCommand, Errors
    <3> QED
      BY <3>1, <3>2, BecomesTypes
  <2> QED
    BY <1>5, <2>4, <2>5
<1>6. CASE StoreAccount(p)
  <2>1. tool[p].command \in Commands
    BY <1>6, CallOfCommand DEF StoreAccount
  <2> QED
    BY <1>1, <1>6, <2>1, StepTypes, BecomesTypes DEF StoreAccount
<1>7. CASE Stored(p)
  <2> DEFINE t == Reported(tool[p], result[p])
  <2>1. tool[p].command \in Commands
    BY <1>1, <1>7 DEF Stored, At, AtACall
  <2>2. IsCommand(t) /\ t.command = tool[p].command
    BY <1>1, ShowsTypes DEF Reported, IsCommand, Errors
  <2>3. Becomes(p, NextAccount(t))
    BY <1>7 DEF Stored
  <2> HIDE DEF t
  <2> QED
    BY <2>1, <2>2, <2>3, NextAccountTypes, BecomesTypes DEF IsCommand
<1> QED
  BY <1>2, <1>3, <1>4, <1>5, <1>6, <1>7 DEF Run
-----------------------------------------------------------------------------

LEMMA ReturnTypes ==
  ASSUME CallsTyped, NEW p \in Processes,
         NEW r \in {"none", "ok", "db", "readonly"}, Return(p, r)
  PROVE  /\ result' \in [Processes -> {"none", "ok", "db", "readonly"}]
         /\ result'[p] = r
         /\ \A q \in Processes : q # p => result'[q] = result[q]
BY DEF CallsTyped, Return

LEMMA StoreTypes ==
  ASSUME CallsTyped, CallsInv, NEW p \in Processes, NEW o,
         StoreBlocking(p, o) \/ StoreAsync(p, o)
  PROVE  CallsTyped'
<1>1. CASE StoreNothing(p, o) \/ StoreLocal(p, o) \/ StoreRefused(p, o)
  <2>1. UNCHANGED callVars /\ \E r \in {"ok", "db", "readonly"} : Return(p, r)
    BY <1>1 DEF StoreNothing, StoreLocal, StoreRefused
  <2>2. result' \in [Processes -> {"none", "ok", "db", "readonly"}]
    BY <2>1, ReturnTypes
  <2> QED
    BY <2>1, <2>2 DEF CallsTyped, callVars
<1>2. ASSUME NEW blocking \in BOOLEAN, Send(p, o, blocking)
      PROVE  CallsTyped'
  <2>1. Len(messages') = Len(messages) + 1 /\ Len(messages) \in Nat
    BY <1>2, AppendProperties, LenProperties DEF Send, CallsInv
  <2>2. awaited' = [q \in Processes |-> IF q = p THEN Len(messages')
                                        ELSE awaited[q]]
    BY <1>2 DEF Send, CallsInv
  <2>3. Len(messages') # 0
    BY <2>1
  <2>4. blocked' \subseteq blocked \cup {p}
    BY <1>2 DEF Send
  <2>5. blocked' \subseteq {q \in Processes : awaited'[q] # 0}
    BY <2>2, <2>3, <2>4 DEF CallsTyped
  <2>6. result' \in [Processes -> {"none", "ok", "db", "readonly"}]
    BY <1>2, ReturnTypes DEF Send
  <2> QED
    BY <2>5, <2>6 DEF CallsTyped
<1> QED
  BY <1>1, <1>2 DEF StoreBlocking, StoreAsync

LEMMA LibraryTypes ==
  ASSUME CallsTyped, CallsInv, NEW p \in Processes, Library(p)
  PROVE  CallsTyped'
<1>1. Ends(p) /\ (Return(p, "ok") \/ Return(p, "readonly"))
  BY DEF Library, StoreDone, StoreFails
<1>2. result' \in [Processes -> {"none", "ok", "db", "readonly"}]
  BY <1>1, ReturnTypes
<1>3. awaited' = [q \in Processes |-> IF q = p THEN 0 ELSE awaited[q]]
  BY <1>1 DEF Ends, CallsInv
<1>4. blocked' = blocked \ {p}
  BY <1>1 DEF Ends
<1> QED
  BY <1>2, <1>3, <1>4 DEF CallsTyped

LEMMA NextTypes ==
  ASSUME IndInv, ToolsTyped, CallsTyped, [Next]_vars
  PROVE  ToolsTyped' /\ CallsTyped'
<1>1. ASSUME UNCHANGED <<callVars, result>>
      PROVE  CallsTyped'
  BY <1>1 DEF CallsTyped, callVars
<1>2. ASSUME UNCHANGED tool
      PROVE  ToolsTyped'
  BY <1>2 DEF ToolsTyped, AtACall
<1>3. ASSUME NEW p \in Tools, Run(p)
      PROVE  ToolsTyped' /\ CallsTyped'
  <2>1. p \in Processes
    BY ToolAssumption
  <2>2. CASE StoreAccount(p)
    BY <2>1, <2>2, StoreTypes, RunTypes, <1>3 DEF StoreAccount, IndInv
  <2>3. CASE UNCHANGED callVars /\ Return(p, "none")
    BY <1>3, <2>1, <2>3, ReturnTypes, RunTypes DEF CallsTyped, callVars
  <2>4. CASE UNCHANGED <<callVars, result>>
    BY <1>1, <1>3, <2>4, RunTypes
  <2> QED
    BY <1>3, <2>2, <2>3, <2>4
    DEF Run, Start, OpenManager, List, LoadAccount, NoSuchAccount, GetService,
        ReadSetting, PrintAccount, Stored, Quiet, remoteVars
<1>4. ASSUME NEW p \in Clients, Work(p)
      PROVE  ToolsTyped' /\ CallsTyped'
  <2>1. p \in Processes
    BY ToolAssumption
  <2>2. UNCHANGED tool
    BY <1>4 DEF Work, Create, Open, Store, StoreWaiting, Edit, Idle
  <2>3. CASE \E d \in Edits(p) : Store(p, d) \/ StoreWaiting(p, d)
    BY <1>2, <2>1, <2>2, <2>3, StoreTypes DEF Store, StoreWaiting, IndInv
  <2>4. CASE UNCHANGED <<callVars, result>>
    BY <1>1, <1>2, <2>2, <2>4
  <2> QED
    BY <1>4, <2>3, <2>4 DEF Work, Create, Open, Edit
<1>5. ASSUME NEW p \in Processes, Library(p), UNCHANGED tool
      PROVE  ToolsTyped' /\ CallsTyped'
  BY <1>2, <1>5, LibraryTypes DEF IndInv
<1>6. CASE Service /\ UNCHANGED tool
  BY <1>2, <1>6 DEF Service, Serve, Refuse, CallsTyped
<1>7. CASE UNCHANGED vars
  BY <1>1, <1>2, <1>7 DEF vars, remoteVars
<1> QED
  BY <1>3, <1>4, <1>5, <1>6, <1>7 DEF Next

LEMMA InitTypes ==
  ASSUME Init
  PROVE  ToolsTyped /\ CallsTyped
<1>1. NoTool \in ToolRecords /\ NoTool.step = "done"
  BY DEF NoTool, ToolRecords, Sections
<1> QED
  BY <1>1 DEF Init, RemoteInit, ToolsTyped, CallsTyped, AtACall

ToolIsTyped == IndInv /\ ToolsTyped /\ CallsTyped

\* Every variable keeps its type: no id lies outside the rows that there may
\* be, a process only blocks on a call whose reply it awaits, and a command is
\* always at one of its own calls.
THEOREM TypeCorrect == Spec => []TypeOK
<1>1. Init => ToolIsTyped
  BY InitInv, InitTypes DEF ToolIsTyped
<1>2. ToolIsTyped /\ [Next]_vars => ToolIsTyped'
  BY NextKeeps, NextTypes DEF ToolIsTyped
<1>3. ToolIsTyped => TypeOK
  <2> SUFFICES ASSUME ToolIsTyped
               PROVE  TypeOK
    OBVIOUS
  <2>1. IndInv /\ ToolsTyped /\ CallsTyped
    BY DEF ToolIsTyped
  <2>2. inserted \in Nth /\ lastRow \in Nth
    BY <2>1 DEF IndInv, TablesInv
  <2>3. RemoteTypeOK
    BY <2>1, <2>2 DEF IndInv, TablesInv, ObjectsInv, CallsInv, CallsTyped,
                      RemoteTypeOK
  <2>4. ToolTypeOK
    BY <2>1 DEF ToolsTyped, ToolRecords, ToolTypeOK
  <2> QED
    BY <2>3, <2>4 DEF TypeOK
<1> QED
  BY <1>1, <1>2, <1>3, PTL DEF Spec
-----------------------------------------------------------------------------
(* Deletions.  An account that is gone stays gone, since its id is not     *)
(* given out again; a command that deletes and has shown no error has seen *)
(* to it that all its accounts are gone, but for those still in its list   *)
(* and the one that it has loaded.                                         *)

Gone(i)     == i <= inserted /\ ~rows[i].live
Deleting(p) == Deletes(tool[p]) /\ tool[p].shown = {}
Waiting(p)  == tool[p].step \in {"store", "storing"}

LeftInv(p) ==
  Deleting(p) =>
    /\ tool[p].step = "done" => \A i \in tool[p].given : Gone(i)
    /\ ~Waiting(p) => \A i \in tool[p].given \ tool[p].ids : Gone(i)
    /\ Waiting(p) =>
         /\ object[p].id # 0
         /\ \A i \in tool[p].given \ tool[p].ids :
              Gone(i) \/ i = object[p].id
    /\ tool[p].step = "storing" /\ result[p] = "ok" => Gone(object[p].id)
    /\ tool[p].command = "delete_account" =>
         IF Waiting(p) THEN tool[p].ids = {}
         ELSE \A i, j \in tool[p].ids : i = j
    /\ tool[p].command = "delete_all" /\ tool[p].step \in {"open", "list"} =>
         tool[p].given = {}

\* A command awaits the reply to the deletion of the account it has loaded.
CalledInv(p) ==
  Calling(p) =>
    /\ tool[p].step = "storing" /\ result[p] = "none"
    /\ Deleting(p) =>
         /\ ReplyTo(p).reply = "none" =>
              /\ ReplyTo(p).object.changes.deleted
              /\ ReplyTo(p).object.id = object[p].id
         /\ ReplyTo(p).reply = "id" => Gone(object[p].id)

DeletionInv == \A p \in Tools : LeftInv(p) /\ CalledInv(p)

GoneKept == \A i \in Ids : Gone(i) => Gone(i)'

\* The step changes nothing for other processes than q that their commands
\* look at.
Frame(q) ==
  /\ GoneKept
  /\ \A p \in Processes \ {q} :
       object'[p] = object[p] /\ result'[p] = result[p]
         /\ awaited'[p] = awaited[p]
  /\ \A k \in 1..Len(messages) : /\ messages'[k].reply = messages[k].reply
                                 /\ messages'[k].object = messages[k].object

LEMMA GoneStays ==
  ASSUME TablesInv, NEW o, StandsFor(o), Execute(o)
  PROVE  GoneKept
<1>1. inserted \in Nth /\ \A i \in Ids : rows[i] \in RowsOf /\ i \in Nat
  BY RemoteAssumption DEF TablesInv, Ids
<1>2. CASE DeleteRow(o)
  <2>1. \A i \in Ids : rows'[i].live => rows[i].live
    BY <1>1, <1>2 DEF DeleteRow, RowsOf
  <2> QED
    BY <1>2, <2>1 DEF DeleteRow, GoneKept, Gone
<1>3. CASE InsertRow(o)
  <2>1. NewId = inserted + 1 /\ inserted' = inserted + 1
    BY <1>3 DEF InsertRow, TablesInv, NewId
  <2>2. \A i \in Ids : i <= inserted => i # NewId /\ i <= inserted'
    BY <1>1, <2>1 DEF Nth
  <2>3. \A i \in Ids : i # NewId => rows'[i] = rows[i]
    BY <1>3 DEF InsertRow, TablesInv
  <2> QED
    BY <2>2, <2>3 DEF GoneKept, Gone
<1>4. CASE UpdateRow(o)
  <2>1. o.id \in Ids
    BY <1>4, RemoteAssumption DEF UpdateRow, StandsFor, Objects, Ids, Nth
  <2> DEFINE by == [rows[o.id] EXCEPT !.by = o.nth]
  <2>2. by.live = rows[o.id].live
    BY <1>1, <2>1 DEF RowsOf
  <2>3. [rows EXCEPT ![o.id].by = o.nth] = [rows EXCEPT ![o.id] = by]
    OBVIOUS
  <2> HIDE DEF by
  <2>4. \A i \in Ids : [rows EXCEPT ![o.id].by = o.nth][i].live = rows[i].live
    BY <2>1, <2>2, <2>3 DEF TablesInv
  <2>5. \A i \in Ids : rows'[i].live = rows[i].live
    BY <1>4, <2>4 DEF UpdateRow
  <2> QED
    BY <1>4, <2>5 DEF UpdateRow, GoneKept, Gone
<1> QED
  BY <1>2, <1>3, <1>4 DEF Execute

LEMMA TablesStay ==
  ASSUME UNCHANGED tableVars
  PROVE  GoneKept
BY DEF tableVars, GoneKept, Gone

\* A step of q without the database or a remote store,
LEMMA LocalFrame ==
  ASSUME IndInv, CallsTyped, NEW q \in Processes,
         UNCHANGED <<tableVars, callVars>>,
         UNCHANGED object \/ \E o : Has(q, o),
         UNCHANGED result \/ \E r : Return(q, r)
  PROVE  Frame(q)
<1>1. GoneKept
  BY TablesStay
<1>2. \A p \in Processes \ {q} : object'[p] = object[p]
  BY DEF Has, IndInv, ObjectsInv
<1>3. \A p \in Processes \ {q} : result'[p] = result[p]
  BY DEF Return, CallsTyped
<1> QED
  BY <1>1, <1>2, <1>3 DEF Frame, callVars

\* and its stores.
LEMMA StoreFrame ==
  ASSUME IndInv, CallsTyped, NEW q \in Processes, NEW o, StandsFor(o),
         StoreBlocking(q, o) \/ StoreAsync(q, o)
  PROVE  Frame(q)
<1>1. CASE StoreNothing(q, o) \/ StoreRefused(q, o)
  BY <1>1, LocalFrame DEF StoreNothing, StoreRefused
<1>2. CASE StoreLocal(q, o)
  <2>1. GoneKept
    BY <1>2, GoneStays, TablesStay DEF StoreLocal, IndInv
  <2>2. UNCHANGED callVars /\ (\E x : Has(q, x)) /\ \E r : Return(q, r)
    BY <1>2 DEF StoreLocal
  <2>3. \A p \in Processes \ {q} :
          object'[p] = object[p] /\ result'[p] = result[p]
    BY <2>2 DEF Has, Return, IndInv, ObjectsInv, CallsTyped
  <2> QED
    BY <2>1, <2>2, <2>3 DEF Frame, callVars
<1>3. ASSUME NEW blocking \in BOOLEAN, Send(q, o, blocking)
      PROVE  Frame(q)
  <2>1. GoneKept
    BY <1>3, TablesStay DEF Send
  <2>2. \A p \in Processes \ {q} :
          object'[p] = object[p] /\ result'[p] = result[p]
    BY <1>3 DEF Send, Has, Return, IndInv, ObjectsInv, CallsTyped
  <2>3. \A p \in Processes \ {q} : awaited'[p] = awaited[p]
    BY <1>3 DEF Send, IndInv, CallsInv
  <2>4. \A k \in 1..Len(messages) : messages'[k] = messages[k]
    BY <1>3, AppendProperties DEF Send, IndInv, CallsInv
  <2> QED
    BY <2>1, <2>2, <2>3, <2>4 DEF Frame
<1> QED
  BY <1>1, <1>2, <1>3 DEF StoreBlocking, StoreAsync

LEMMA LibraryFrame ==
  ASSUME IndInv, CallsTyped, NEW q \in Processes, Library(q)
  PROVE  Frame(q)
<1>1. /\ Ends(q) /\ \E r : Return(q, r)
      /\ UNCHANGED object \/ \E o : Has(q, o)
  BY DEF Library, StoreDone, StoreFails
<1>2. \A p \in Processes \ {q} :
        object'[p] = object[p] /\ result'[p] = result[p]
  BY <1>1 DEF Has, Return, IndInv, ObjectsInv, CallsTyped
<1>3. \A p \in Processes \ {q} : awaited'[p] = awaited[p]
  BY <1>1 DEF Ends, IndInv, CallsInv
<1>4. ASSUME NEW k \in 1..Len(messages)
      PROVE  /\ messages'[k].reply = messages[k].reply
             /\ messages'[k].object = messages[k].object
  <2> DEFINE n == awaited[q]
             m == [messages[n] EXCEPT !.id = 0]
  <2>1. messages' = [messages EXCEPT ![n] = m]
    BY <1>1 DEF Ends
  <2>2. messages \in Seq(Message) /\ messages[k] \in Message
    BY <1>4, CallTypes DEF IndInv, CallsInv
  <2>3. k = n => m.reply = messages[k].reply /\ m.object = messages[k].object
    BY <2>2 DEF Message
  <2>4. messages'[k] = IF k = n THEN m ELSE messages[k]
    BY <1>4, <2>1, <2>2
  <2> HIDE DEF m
  <2> QED
    BY <2>3, <2>4
<1>5. GoneKept
  BY <1>1, TablesStay DEF Ends
<1> QED
  BY <1>2, <1>3, <1>4, <1>5 DEF Frame
-----------------------------------------------------------------------------
(* The steps of others.                                                    *)

\* The account that a process has loaded.
LEMMA LoadedIds ==
  ASSUME IndInv, NEW p \in Processes, object[p].id # 0
  PROVE  object[p].id \in Ids /\ object[p].id <= inserted
BY RemoteAssumption DEF IndInv, ObjectsInv, StandsFor, Objects, Ids, Nth

LEMMA LeftStays ==
  ASSUME ToolIsTyped, NEW p \in Tools, LeftInv(p), GoneKept,
         tool'[p] = tool[p], object'[p].id = object[p].id,
         result'[p] = result[p]
  PROVE  LeftInv(p)'
<1> SUFFICES ASSUME Deleting(p)
             PROVE  LeftInv(p)'
  BY DEF LeftInv, Deleting
<1>1. tool[p] \in ToolRecords /\ p \in Processes
  BY ToolAssumption DEF ToolIsTyped, ToolsTyped
<1>2. tool[p].given \subseteq Ids
  BY <1>1 DEF ToolRecords
<1>3. \A i \in tool[p].given : Gone(i) => Gone(i)'
  BY <1>2 DEF GoneKept
<1> PICK j : j = object[p].id
  OBVIOUS
<1>4. j # 0 /\ Gone(j) => Gone(j)'
  BY <1>1, LoadedIds DEF GoneKept, ToolIsTyped
<1>5. /\ tool[p].step = "done" => \A i \in tool[p].given : Gone(i)'
      /\ ~Waiting(p) => \A i \in tool[p].given \ tool[p].ids : Gone(i)'
      /\ Waiting(p) => \A i \in tool[p].given \ tool[p].ids :
                         Gone(i)' \/ i = j
  BY <1>3 DEF LeftInv
<1>6. tool[p].step = "storing" /\ result[p] = "ok" => Gone(object[p].id)'
  <2>1. ASSUME tool[p].step = "storing", result[p] = "ok"
        PROVE  Gone(j)'
    BY <1>4, <2>1 DEF LeftInv, Waiting
  <2> QED
    BY <2>1 DEF Gone
<1>7. Waiting(p)' <=> Waiting(p)
  BY DEF Waiting
<1> QED
  BY <1>5, <1>6, <1>7 DEF LeftInv, Gone

LEMMA CalledStays ==
  ASSUME ToolIsTyped, NEW p \in Tools, CalledInv(p), LeftInv(p), GoneKept,
         tool'[p] = tool[p], object'[p].id = object[p].id,
         result'[p] = result[p], awaited'[p] = awaited[p],
         Calling(p) =>
           /\ messages'[awaited[p]].reply = messages[awaited[p]].reply
           /\ messages'[awaited[p]].object = messages[awaited[p]].object
  PROVE  CalledInv(p)'
<1> SUFFICES ASSUME Calling(p)
             PROVE  CalledInv(p)'
  BY DEF CalledInv, Calling
<1> PICK j : j = object[p].id
  OBVIOUS
<1>1. /\ tool[p].step = "storing" /\ result[p] = "none"
      /\ Deleting(p) =>
           /\ ReplyTo(p).reply = "none" =>
                /\ ReplyTo(p).object.changes.deleted
                /\ ReplyTo(p).object.id = j
           /\ ReplyTo(p).reply = "id" => Gone(j)
  BY DEF CalledInv
<1>2. Deleting(p) /\ Gone(j) => Gone(j)'
  <2>1. Deleting(p) => j # 0
    BY <1>1 DEF LeftInv, Waiting
  <2> QED
    BY <2>1, LoadedIds, ToolAssumption DEF GoneKept, ToolIsTyped
<1>3. Deleting(p)' <=> Deleting(p)
  BY DEF Deleting
<1>4. /\ ReplyTo(p)'.reply = ReplyTo(p).reply
      /\ ReplyTo(p)'.object = ReplyTo(p).object
  BY DEF ReplyTo
<1>5. Deleting(p) /\ ReplyTo(p).reply = "id" => Gone(object[p].id)'
  BY <1>1, <1>2 DEF Gone
<1> QED
  BY <1>1, <1>3, <1>4, <1>5 DEF CalledInv, Gone

LEMMA OthersStay ==
  ASSUME ToolIsTyped, DeletionInv, NEW q \in Processes, Frame(q),
         NEW p \in Tools, p # q, tool'[p] = tool[p]
  PROVE  LeftInv(p)' /\ CalledInv(p)'
<1>1. /\ p \in Processes /\ LeftInv(p) /\ CalledInv(p) /\ GoneKept
      /\ object'[p] = object[p] /\ result'[p] = result[p]
      /\ awaited'[p] = awaited[p]
  BY ToolAssumption DEF DeletionInv, Frame
<1>2. Calling(p) => awaited[p] \in 1..Len(messages)
  BY <1>1, LenProperties DEF ToolIsTyped, IndInv, CallsInv, Calling
<1>3. Calling(p) =>
        /\ messages'[awaited[p]].reply = messages[awaited[p]].reply
        /\ messages'[awaited[p]].object = messages[awaited[p]].object
  BY <1>2 DEF Frame
<1>4. LeftInv(p)'
  BY <1>1, LeftStays
<1> QED
  BY <1>1, <1>3, <1>4, CalledStays

LEMMA RunFrame ==
  ASSUME ToolIsTyped, NEW q \in Tools, Run(q)
  PROVE  /\ Frame(q)
         /\ \A p \in Tools : p # q => tool'[p] = tool[p]
<1>1. q \in Processes /\ IndInv /\ CallsTyped
  BY ToolAssumption DEF ToolIsTyped
<1>2. \E t : Becomes(q, t)
  BY DEF Run, Start, OpenManager, List, LoadAccount, NoSuchAccount, GetService,
         ReadSetting, PrintAccount, StoreAccount, Stored, GoOn, Stop
<1>3. \A p \in Tools : p # q => tool'[p] = tool[p]
  BY <1>2 DEF Becomes, ToolIsTyped, ToolsTyped
<1>4. CASE StoreAccount(q)
  <2>1. Change(tool[q]) \in Changes
    <3>1. tool[q].section \in Sections
      BY DEF ToolIsTyped, ToolsTyped, ToolRecords
    <3> QED
      BY <3>1, ChangesTypes DEF Change
  <2>2. StandsFor(Changed(q, Change(tool[q])))
    BY <1>1, <2>1, ChangedStands DEF IndInv
  <2>3. Frame(q)
    BY <1>1, <1>4, <2>2, StoreFrame DEF StoreAccount
  <2> QED
    BY <1>3, <2>3
<1>5. CASE /\ UNCHANGED <<tableVars, callVars>>
           /\ UNCHANGED object \/ \E o : Has(q, o)
           /\ UNCHANGED result \/ \E r : Return(q, r)
  BY <1>1, <1>3, <1>5, LocalFrame
<1>6. CASE OpenManager(q) \/ List(q) \/ GetService(q) \/ ReadSetting(q)
             \/ PrintAccount(q) \/ \E i \in Ids : NoSuchAccount(q, i)
  <2>1. Quiet
    BY <1>6 DEF OpenManager, List, GetService, ReadSetting, PrintAccount,
                NoSuchAccount
  <2> QED
    BY <1>5, <2>1 DEF Quiet, remoteVars
<1>7. CASE \E c \in Commands, i \in Ids, s \in Sections : Start(q, c, i, s)
  <2>1. UNCHANGED <<tableVars, callVars>> /\ Has(q, Nobody)
          /\ Return(q, "none")
    BY <1>7 DEF Start
  <2> QED
    BY <1>5, <2>1
<1>8. CASE \E i \in Ids : LoadAccount(q, i)
  <2>1. UNCHANGED <<tableVars, callVars, result>> /\ \E o : Has(q, o)
    BY <1>8 DEF LoadAccount, Load
  <2> QED
    BY <1>5, <2>1
<1>9. CASE Stored(q)
  <2>1. UNCHANGED <<tableVars, callVars>> /\ Has(q, Nobody)
          /\ Return(q, "none")
    BY <1>9 DEF Stored
  <2> QED
    BY <1>5, <2>1
<1> QED
  BY <1>4, <1>6, <1>7, <1>8, <1>9 DEF Run

LEMMA WorkFrame ==
  ASSUME ToolIsTyped, NEW q \in Clients, Work(q)
  PROVE  Frame(q) /\ UNCHANGED tool
<1>1. q \in Processes /\ IndInv /\ CallsTyped
  BY ToolAssumption DEF ToolIsTyped
<1>2. UNCHANGED tool
  BY DEF Work, Create, Open, Store, StoreWaiting, Edit, Idle
<1>3. ASSUME NEW d \in Edits(q), Store(q, d) \/ StoreWaiting(q, d)
      PROVE  Frame(q)
  <2>1. d \in Changes
    BY ChangesTypes DEF Edits
  <2>2. StandsFor(Changed(q, d))
    BY <1>1, <2>1, ChangedStands DEF IndInv
  <2> QED
    BY <1>1, <1>3, <2>2, StoreFrame DEF Store, StoreWaiting
<1>4. ASSUME UNCHANGED <<tableVars, callVars>>, UNCHANGED result,
             \E o : Has(q, o)
      PROVE  Frame(q)
  BY <1>1, <1>4, LocalFrame
<1>5. CASE Create(q) \/ (\E i \in Ids : Open(q, i))
             \/ \E d \in Edits(q) : Edit(q, d)
  <2>1. /\ UNCHANGED <<tableVars, callVars>> /\ UNCHANGED result
        /\ \E o : Has(q, o)
    BY <1>5 DEF Create, Open, Load, Edit
  <2> QED
    BY <1>2, <1>4, <2>1
<1> QED
  BY <1>2, <1>3, <1>5 DEF Work
-----------------------------------------------------------------------------
(* The steps of a command that deletes.                                    *)

LEMMA NextAccountIs ==
  ASSUME NEW t \in ToolRecords
  PROVE  /\ NextAccount(t).command = t.command
         /\ NextAccount(t).shown = t.shown
         /\ Deletes(t) => NextAccount(t).given = t.given
         /\ IF Looping(t) /\ t.ids # {}
            THEN NextAccount(t).step = "load" /\ NextAccount(t).ids = t.ids
            ELSE NextAccount(t).step = "done" /\ NextAccount(t).ids = {}
<1>1. CASE Looping(t) /\ t.ids # {}
  BY <1>1 DEF NextAccount, ToolRecords
<1>2. CASE ~(Looping(t) /\ t.ids # {})
  BY <1>2 DEF NextAccount, Over
<1> QED
  BY <1>1, <1>2

LEMMA ShowsIs ==
  ASSUME NEW t \in ToolRecords, NEW e
  PROVE  /\ Shows(t, e).command = t.command
         /\ Shows(t, e).shown # {}
         /\ e \in Errors => Shows(t, e) \in ToolRecords
BY DEF Shows, ToolRecords

\* Neither a command that has shown an error,
LEMMA ShownLeft ==
  ASSUME NEW p \in Tools, tool'[p].shown # {}
  PROVE  LeftInv(p)'
BY DEF LeftInv, Deleting

\* nor one that does not delete has left an account;
LEMMA OtherLeft ==
  ASSUME NEW p \in Tools, ~Deletes(tool[p]),
         tool'[p].command = tool[p].command
  PROVE  LeftInv(p)'
BY DEF LeftInv, Deleting, Deletes

\* and only a command at its store awaits a reply.
LEMMA NotCalled ==
  ASSUME NEW p \in Tools, CalledInv(p), UNCHANGED awaited,
         tool[p].step # "storing" \/ result[p] # "none"
  PROVE  CalledInv(p)'
BY DEF CalledInv, Calling

\* A command that has loaded no account,
LEMMA UnloadedLeft ==
  ASSUME NEW p \in Tools, tool'[p].step \notin {"store", "storing"},
         Deleting(p)' =>
           /\ \A i \in tool'[p].given \ tool'[p].ids : Gone(i)'
           /\ tool'[p].step = "done" => tool'[p].ids = {}
           /\ tool'[p].command = "delete_account" =>
                \A i, j \in tool'[p].ids : i = j
           /\ tool'[p].command = "delete_all"
                /\ tool'[p].step \in {"open", "list"} => tool'[p].given = {}
  PROVE  LeftInv(p)'
<1>1. ~Waiting(p)'
  BY DEF Waiting
<1>2. Deleting(p)' /\ tool'[p].step = "done" =>
        \A i \in tool'[p].given : Gone(i)'
  OBVIOUS
<1> QED
  BY <1>1, <1>2 DEF LeftInv

LEMMA StartDeletes ==
  ASSUME ToolIsTyped, NEW p \in Tools, CalledInv(p),
         NEW c \in Commands, NEW i \in Ids, NEW s \in Sections,
         Start(p, c, i, s)
  PROVE  LeftInv(p)' /\ CalledInv(p)'
<1>1. CalledInv(p)'
  BY NotCalled DEF Start, At, callVars
<1>2. CASE Becomes(p, Over(Shows(Command(c, "open", {}, s),
                                 "INVALID_INPUT")))
  <2>1. tool'[p] = Over(Shows(Command(c, "open", {}, s), "INVALID_INPUT"))
    BY <1>2 DEF Becomes, ToolIsTyped, ToolsTyped
  <2>2. tool'[p].shown # {}
    BY <2>1 DEF Over, Shows, Command
  <2> QED
    BY <1>1, <2>2, ShownLeft
<1>3. CASE Becomes(p, Command(c, "open", Named(c, i), s))
  <2>1. tool'[p] = Command(c, "open", Named(c, i), s)
    BY <1>3 DEF Becomes, ToolIsTyped, ToolsTyped
  <2>2. /\ tool'[p].command = c /\ tool'[p].step = "open"
        /\ tool'[p].ids = Named(c, i) /\ tool'[p].given = Named(c, i)
    BY <2>1 DEF Command
  <2>3. \A j, k \in Named(c, i) : j = k
    BY DEF Named
  <2>4. c = "delete_all" => Named(c, i) = {}
    BY DeletingSteps DEF Named
  <2>5. LeftInv(p)'
    BY <2>2, <2>3, <2>4, UnloadedLeft
  <2> QED
    BY <1>1, <2>5
<1> QED
  BY <1>2, <1>3 DEF Start

LEMMA OpenDeletes ==
  ASSUME ToolIsTyped, NEW p \in Tools, LeftInv(p), CalledInv(p),
         OpenManager(p)
  PROVE  LeftInv(p)' /\ CalledInv(p)'
<1>1. UNCHANGED tableVars /\ UNCHANGED awaited /\ tool[p].step = "open"
  BY DEF OpenManager, Quiet, remoteVars, callVars, At
<1>2. CalledInv(p)'
  BY <1>1, NotCalled
<1>3. GoneKept /\ tool[p] \in ToolRecords
  BY <1>1, TablesStay DEF ToolIsTyped, ToolsTyped
<1>4. CASE Stop(p, "ERROR_GENERIC")
  <2>1. tool'[p].shown # {}
    BY <1>4 DEF Stop, Becomes, Over, Shows, ToolIsTyped, ToolsTyped
  <2> QED
    BY <1>2, <2>1, ShownLeft
<1>5. CASE GoOn(p, tool[p]) /\ Deletes(tool[p])
  <2>1. PICK x : x = After(tool[p])
    OBVIOUS
  <2>2. /\ tool[p].command = "delete_all" => x = "list"
        /\ tool[p].command = "delete_account" => x = "load"
    BY <1>1, <1>5, <2>1, DeletingAfter
  <2>3. tool'[p] = [tool[p] EXCEPT !.step = x]
    BY <1>5, <2>1, <2>2 DEF GoOn, Becomes, ToolIsTyped, ToolsTyped, Deletes
  <2>4. /\ tool'[p].command = tool[p].command /\ tool'[p].ids = tool[p].ids
        /\ tool'[p].given = tool[p].given /\ tool'[p].shown = tool[p].shown
        /\ tool'[p].step = x
    BY <1>3, <2>3 DEF ToolRecords
  <2>5. Deleting(p)' <=> Deleting(p)
    BY <2>4 DEF Deleting, Deletes
  <2>6. ~Waiting(p) /\ x \in {"list", "load"}
    BY <1>1, <1>5, <2>2 DEF Waiting, Deletes
  <2>7. Deleting(p) => \A i \in tool[p].given \ tool[p].ids : Gone(i)'
    BY <1>3, <2>6 DEF LeftInv, GoneKept, ToolRecords
  <2>8. Deleting(p) => /\ tool[p].command = "delete_all" =>
                            tool[p].given = {}
                       /\ tool[p].command = "delete_account" =>
                            \A i, j \in tool[p].ids : i = j
    BY <1>1, <2>6 DEF LeftInv
  <2>9. LeftInv(p)'
    BY <2>4, <2>5, <2>6, <2>7, <2>8, UnloadedLeft
  <2> QED
    BY <1>2, <2>9
<1>6. CASE GoOn(p, tool[p]) /\ ~Deletes(tool[p])
  <2>1. \/ tool'[p] = NextAccount(tool[p])
        \/ tool'[p] = [tool[p] EXCEPT !.step = After(tool[p])]
    BY <1>6 DEF GoOn, Becomes, ToolIsTyped, ToolsTyped
  <2>2. tool'[p].command = tool[p].command
    BY <1>3, <2>1, NextAccountIs DEF ToolRecords
  <2> QED
    BY <1>2, <1>6, <2>2, OtherLeft
<1> QED
  BY <1>4, <1>5, <1>6 DEF OpenManager

LEMMA ListDeletes ==
  ASSUME ToolIsTyped, NEW p \in Tools, LeftInv(p), CalledInv(p), List(p)
  PROVE  LeftInv(p)' /\ CalledInv(p)'
<1>1. UNCHANGED awaited /\ tool[p].step = "list"
  BY DEF List, Quiet, remoteVars, callVars, At
<1>2. CalledInv(p)'
  BY <1>1, NotCalled
<1>3. /\ tool[p] \in ToolRecords
      /\ tool[p].step \in Range(Steps[tool[p].command])
  BY <1>1, CallOfCommand DEF ToolIsTyped, At
<1>4. tool[p].command # "delete_account"
  BY <1>1, <1>3, DeletingSteps
<1>5. CASE Becomes(p, Command(tool[p].command, "load", Live, Global))
  <2>1. tool'[p] = Command(tool[p].command, "load", Live, Global)
    BY <1>5 DEF Becomes, ToolIsTyped, ToolsTyped
  <2>2. /\ tool'[p].command = tool[p].command /\ tool'[p].step = "load"
        /\ tool'[p].ids = tool'[p].given
    BY <2>1 DEF Command
  <2> QED
    BY <1>2, <1>4, <2>2, UnloadedLeft
<1>6. CASE Becomes(p, Over(tool[p]))
  <2>1. tool'[p] = Over(tool[p])
    BY <1>6 DEF Becomes, ToolIsTyped, ToolsTyped
  <2>2. /\ tool'[p].command = tool[p].command /\ tool'[p].step = "done"
        /\ tool'[p].ids = {} /\ tool'[p].shown = tool[p].shown
        /\ Deletes(tool[p]) => tool'[p].given = tool[p].given
    BY <2>1 DEF Over
  <2>3. Deleting(p)' => Deleting(p)
    BY <2>2 DEF Deleting, Deletes
  <2>4. Deleting(p) => tool[p].given = {}
    BY <1>1, <1>4 DEF LeftInv, Deleting, Deletes
  <2>5. Deleting(p)' => tool'[p].given = {}
    BY <2>2, <2>3, <2>4 DEF Deleting
  <2> QED
    BY <1>2, <1>4, <2>2, <2>5, UnloadedLeft
<1> QED
  BY <1>5, <1>6 DEF List

\* one that has loaded one,
LEMMA LoadDeletes ==
  ASSUME ToolIsTyped, NEW p \in Tools, LeftInv(p), CalledInv(p),
         NEW i \in Ids, LoadAccount(p, i)
  PROVE  LeftInv(p)' /\ CalledInv(p)'
<1>1. /\ UNCHANGED tableVars /\ UNCHANGED awaited /\ tool[p].step = "load"
      /\ Has(p, Object(i, rows[i].nth, NoChanges))
  BY DEF LoadAccount, Load, callVars, At
<1>2. CalledInv(p)'
  BY <1>1, NotCalled
<1>3. GoneKept /\ tool[p] \in ToolRecords
  BY <1>1, TablesStay DEF ToolIsTyped, ToolsTyped
<1>4. object'[p].id = i /\ i # 0
  BY <1>1, ToolAssumption, RemoteAssumption
  DEF Has, Object, ToolIsTyped, IndInv, ObjectsInv, Ids
<1> DEFINE t == [tool[p] EXCEPT !.ids = @ \ {i}]
<1>5. /\ t \in ToolRecords /\ t.step = "load" /\ t.ids = tool[p].ids \ {i}
      /\ t.command = tool[p].command /\ t.given = tool[p].given
      /\ t.shown = tool[p].shown
  BY <1>1, <1>3 DEF ToolRecords
<1>6. GoOn(p, t) /\ i \in tool[p].ids
  BY DEF LoadAccount
<1> HIDE DEF t
<1>7. Deletes(t) <=> Deletes(tool[p])
  BY <1>5 DEF Deletes
<1>8. CASE Deletes(t)
  <2>1. After(t) = "store"
    BY <1>5, <1>8, DeletingAfter
  <2>2. tool'[p] = [t EXCEPT !.step = "store"]
    BY <1>6, <2>1 DEF GoOn, Becomes, ToolIsTyped, ToolsTyped
  <2>3. /\ tool'[p].step = "store" /\ tool'[p].ids = tool[p].ids \ {i}
        /\ tool'[p].command = tool[p].command
        /\ tool'[p].given = tool[p].given
        /\ tool'[p].shown = tool[p].shown
    BY <1>5, <2>2 DEF ToolRecords
  <2>4. (Deleting(p)' <=> Deleting(p)) /\ Waiting(p)'
    BY <2>3 DEF Deleting, Deletes, Waiting
  <2>5. ~Waiting(p) /\ tool[p].step \notin {"open", "list"}
    BY <1>1 DEF Waiting
  <2>6. Deleting(p) => \A j \in tool[p].given \ tool[p].ids : Gone(j)'
    BY <1>3, <2>5 DEF LeftInv, GoneKept, ToolRecords
  <2>7. Deleting(p) => \A j \in tool'[p].given \ tool'[p].ids :
                         Gone(j)' \/ j = object'[p].id
    BY <1>4, <2>3, <2>6
  <2>8. Deleting(p) /\ tool'[p].command = "delete_account" =>
          tool'[p].ids = {}
    BY <1>6, <2>3, <2>5 DEF LeftInv
  <2>9. LeftInv(p)'
    BY <1>4, <2>3, <2>4, <2>7, <2>8 DEF LeftInv
  <2> QED
    BY <1>2, <2>9
<1>9. CASE ~Deletes(t)
  <2>1. tool'[p] = NextAccount(t) \/ tool'[p] = [t EXCEPT !.step = After(t)]
    BY <1>6 DEF GoOn, Becomes, ToolIsTyped, ToolsTyped
  <2>2. tool'[p].command = tool[p].command
    BY <1>5, <2>1, NextAccountIs DEF ToolRecords
  <2> QED
    BY <1>2, <1>7, <1>9, <2>2, OtherLeft
<1> QED
  BY <1>8, <1>9

LEMMA NoSuchDeletes ==
  ASSUME ToolIsTyped, NEW p \in Tools, LeftInv(p), CalledInv(p),
         NEW i \in Ids, NoSuchAccount(p, i)
  PROVE  LeftInv(p)' /\ CalledInv(p)'
<1>1. UNCHANGED awaited /\ tool[p].step = "load"
  BY DEF NoSuchAccount, Quiet, remoteVars, callVars, At
<1>2. CalledInv(p)' /\ tool[p] \in ToolRecords
  BY <1>1, NotCalled DEF ToolIsTyped, ToolsTyped
<1> DEFINE t == [tool[p] EXCEPT !.ids = @ \ {i}]
           u == Shows(t, "INVALID_ACC_ID")
<1>3. t \in ToolRecords /\ t.command = tool[p].command
  BY <1>2 DEF ToolRecords
<1>4. u \in ToolRecords /\ u.command = tool[p].command /\ u.shown # {}
  BY <1>3, ShowsIs DEF Errors
<1>5. tool'[p] = IF tool[p].command = "list_accounts" THEN NextAccount(t)
                 ELSE NextAccount(u)
  BY DEF NoSuchAccount, Becomes, ToolIsTyped, ToolsTyped
<1> HIDE DEF t, u
<1>6. CASE tool[p].command = "list_accounts"
  <2>1. ~Deletes(tool[p]) /\ tool'[p].command = tool[p].command
    BY <1>3, <1>5, <1>6, NextAccountIs DEF Deletes
  <2> QED
    BY <1>2, <2>1, OtherLeft
<1>7. CASE tool[p].command # "list_accounts"
  <2>1. tool'[p].shown # {}
    BY <1>4, <1>5, <1>7, NextAccountIs
  <2> QED
    BY <1>2, <2>1, ShownLeft
<1> QED
  BY <1>6, <1>7

LEMMA OtherCallsDelete ==
  ASSUME ToolIsTyped, NEW p \in Tools, LeftInv(p), CalledInv(p),
         GetService(p) \/ ReadSetting(p) \/ PrintAccount(p)
  PROVE  LeftInv(p)' /\ CalledInv(p)'
<1>1. UNCHANGED awaited /\ tool[p].step \in {"service", "read", "print"}
  BY DEF GetService, ReadSetting, PrintAccount, Quiet, remoteVars, callVars,
         At
<1>2. CalledInv(p)' /\ tool[p] \in ToolRecords
  BY <1>1, NotCalled DEF ToolIsTyped, ToolsTyped
<1>3. tool[p].step \in Range(Steps[tool[p].command])
  BY <1>1, CallOfCommand DEF ToolIsTyped, At
<1>4. ~Deletes(tool[p])
  BY <1>1, <1>3, DeletingSteps DEF Deletes
<1>5. \/ tool'[p] = NextAccount(tool[p])
      \/ tool'[p] = [tool[p] EXCEPT !.step = After(tool[p])]
      \/ \E e : tool'[p] = Over(Shows(tool[p], e))
  BY DEF GetService, ReadSetting, PrintAccount, GoOn, Stop, Becomes,
         ToolIsTyped, ToolsTyped
<1>6. \A e : Over(Shows(tool[p], e)).command = tool[p].command
  BY <1>2, ShowsIs DEF Over
<1>7. tool'[p].command = tool[p].command
  BY <1>2, <1>5, <1>6, NextAccountIs DEF ToolRecords
<1> QED
  BY <1>2, <1>4, <1>7, OtherLeft

\* and one that stores it.
LEMMA DeletionIsStored ==
  ASSUME NEW p \in Processes, object[p] \in Objects
  PROVE  /\ Changed(p, Deletion).changes.deleted
         /\ Changed(p, Deletion).changes # NoChanges
         /\ Changed(p, Deletion).id = object[p].id
<1> DEFINE c == object[p].changes
           d == Merge(c, Deletion)
<1>1. Changed(p, Deletion) = [object[p] EXCEPT !.changes = d]
  BY DEF Changed
<1>2. d.deleted
  BY DEF Merge, Deletion, NoChanges
<1>3. d # NoChanges
  BY <1>2 DEF NoChanges
<1> HIDE DEF d
<1> QED
  BY <1>1, <1>2, <1>3 DEF Objects

LEMMA StoreDeletes ==
  ASSUME ToolIsTyped, NEW p \in Tools, LeftInv(p), CalledInv(p),
         StoreAccount(p)
  PROVE  LeftInv(p)' /\ CalledInv(p)'
<1> DEFINE o == Changed(p, Change(tool[p]))
<1>1. /\ tool[p].step = "store" /\ StoreBlocking(p, o)
      /\ tool[p] \in ToolRecords /\ p \in Processes /\ IndInv /\ CallsTyped
  BY ToolAssumption DEF StoreAccount, ToolIsTyped, ToolsTyped, At
<1>2. tool'[p] = [tool[p] EXCEPT !.step = "storing"]
  BY DEF StoreAccount, Becomes, ToolIsTyped, ToolsTyped
<1>3. /\ tool'[p].step = "storing" /\ tool'[p].ids = tool[p].ids
      /\ tool'[p].command = tool[p].command
      /\ tool'[p].given = tool[p].given
      /\ tool'[p].shown = tool[p].shown
  BY <1>1, <1>2 DEF ToolRecords
<1>4. (Deleting(p)' <=> Deleting(p)) /\ Waiting(p) /\ Waiting(p)'
  BY <1>1, <1>3 DEF Deleting, Deletes, Waiting
<1>5. ~Calling(p)
  BY <1>1 DEF CalledInv
<1>6. CASE ~Deleting(p)
  <2>1. LeftInv(p)'
    BY <1>4, <1>6 DEF LeftInv
  <2>2. Calling(p)' => result'[p] = "none"
    <3>1. UNCHANGED callVars \/ Return(p, "none")
      BY <1>1 DEF StoreBlocking, StoreNothing, StoreLocal, StoreRefused, Send
    <3> QED
      BY <1>1, <1>5, <3>1 DEF callVars, Calling, Return, CallsTyped
  <2>3. CalledInv(p)'
    BY <1>3, <1>4, <1>6, <2>2 DEF CalledInv
  <2> QED
    BY <2>1, <2>3
<1>7. CASE Deleting(p)
  <2>1. PICK j : j = object[p].id
    OBVIOUS
  <2>2. /\ object[p] \in Objects /\ j \in Nat /\ j <= inserted
        /\ j # 0 /\ j \in Ids
    BY <1>1, <1>4, <1>7, <2>1, LoadedIds
    DEF IndInv, ObjectsInv, LeftInv, Ids
  <2>3. /\ o.changes.deleted /\ o.changes # NoChanges /\ o.id = j
        /\ o \in Objects
    <3>1. Change(tool[p]) = Deletion
      BY <1>7 DEF Change, Deleting, Deletes
    <3>2. o \in Objects
      BY <1>1, <3>1, ChangesTypes, ChangedStands DEF IndInv, StandsFor
    <3> QED
      BY <1>1, <2>1, <2>2, <3>1, <3>2, DeletionIsStored
  <2> HIDE DEF o
  <2>4. ASSUME Execute(o)
        PROVE  Gone(j)' /\ GoneKept
    <3>1. DeleteRow(o)
      BY <2>3, <2>4 DEF Execute, InsertRow, UpdateRow
    <3>2. rows[j] \in RowsOf
      BY <1>1, <2>2 DEF IndInv, TablesInv
    <3>3. rows'[j].live = FALSE /\ inserted' = inserted
      BY <2>2, <2>3, <3>1, <3>2 DEF DeleteRow, RowsOf
    <3>4. \A i \in Ids : rows'[i].live => rows[i].live
      BY <1>1, <3>1 DEF DeleteRow, RowsOf, IndInv, TablesInv
    <3> QED
      BY <2>2, <3>3, <3>4 DEF Gone, GoneKept
  <2>5. ASSUME object'[p].id = j, GoneKept,
               result'[p] = "ok" => Gone(j)'
        PROVE  LeftInv(p)'
    <3>1. \A i \in tool[p].given \ tool[p].ids : Gone(i)' \/ i = j
      BY <1>1, <1>4, <1>7, <2>1, <2>5 DEF LeftInv, GoneKept, ToolRecords
    <3>2. tool[p].command = "delete_account" => tool[p].ids = {}
      BY <1>4, <1>7 DEF LeftInv
    <3>3. result'[p] = "ok" => Gone(object[p].id)'
      BY <2>5 DEF Gone
    <3> QED
      BY <1>3, <1>4, <2>2, <2>5, <3>1, <3>2, <3>3 DEF LeftInv
  <2>6. CASE StoreLocal(p, o)
    <3>1. UNCHANGED callVars
      BY <2>6 DEF StoreLocal
    <3>2. CalledInv(p)'
      BY <1>5, <3>1 DEF CalledInv, Calling, callVars
    <3>3. object'[p].id = j
      <4>1. CASE Has(p, [o EXCEPT !.changes = NoChanges])
        <5>1. object'[p] = [o EXCEPT !.changes = NoChanges]
          BY <1>1, <4>1 DEF Has, IndInv, ObjectsInv
        <5> QED
          BY <2>3, <5>1 DEF Objects
      <4>2. CASE Has(p, Object(IdOf(o), IF IdOf(o) = o.id THEN o.nth
                                        ELSE inserted', NoChanges))
        BY <1>1, <2>3, <4>2 DEF Has, Object, IdOf, IndInv, ObjectsInv
      <4> QED
        BY <2>6, <4>1, <4>2 DEF StoreLocal
    <3>4. CASE Execute(o)
      BY <2>4, <2>5, <3>2, <3>3, <3>4
    <3>5. CASE Return(p, "db") /\ UNCHANGED tableVars
      <4>1. result'[p] = "db" /\ GoneKept
        BY <1>1, <3>5, TablesStay DEF Return, CallsTyped
      <4> QED
        BY <2>5, <3>2, <3>3, <4>1
    <3> QED
      BY <2>6, <3>4, <3>5 DEF StoreLocal
  <2>7. CASE StoreRefused(p, o)
    <3>1. CalledInv(p)'
      BY <1>5, <2>7 DEF StoreRefused, CalledInv, Calling, callVars
    <3>2. object'[p].id = j /\ result'[p] = "readonly"
      BY <1>1, <2>3, <2>7
      DEF StoreRefused, Has, Return, IndInv, ObjectsInv, CallsTyped
    <3>3. GoneKept
      BY <2>7, TablesStay DEF StoreRefused
    <3> QED
      BY <2>5, <3>1, <3>2, <3>3
  <2>8. CASE Send(p, o, TRUE)
    <3>1. object'[p] = [o EXCEPT !.changes = NoChanges]
      BY <1>1, <2>8 DEF Send, Has, IndInv, ObjectsInv
    <3>2. object'[p].id = j
      BY <2>3, <3>1 DEF Objects
    <3>3. result'[p] = "none" /\ GoneKept
      BY <1>1, <2>8, TablesStay DEF Send, Return, CallsTyped
    <3>4. LeftInv(p)'
      BY <2>5, <3>2, <3>3
    <3>5. /\ ReplyTo(p)' = [object |-> o, reply |-> "none", id |-> 0]
          /\ Calling(p)'
      <4>1. messages \in Seq(Message)
        BY <1>1 DEF IndInv, CallsInv
      <4>2. awaited'[p] = Len(messages) + 1
        BY <1>1, <2>8, <4>1, AppendProperties DEF Send, IndInv, CallsInv
      <4>3. messages'[Len(messages) + 1]
              = [object |-> o, reply |-> "none", id |-> 0]
        BY <2>8, <4>1, AppendProperties DEF Send
      <4> QED
        BY <4>1, <4>2, <4>3, LenProperties DEF ReplyTo, Calling
    <3>6. CalledInv(p)'
      BY <1>3, <2>3, <3>2, <3>3, <3>5 DEF CalledInv
    <3> QED
      BY <3>4, <3>6
  <2> QED
    BY <1>1, <2>3, <2>6, <2>7, <2>8 DEF StoreBlocking, StoreNothing
<1> QED
  BY <1>6, <1>7

LEMMA StoredDeletes ==
  ASSUME ToolIsTyped, NEW p \in Tools, LeftInv(p), CalledInv(p), Stored(p)
  PROVE  LeftInv(p)' /\ CalledInv(p)'
<1>1. /\ tool[p].step = "storing" /\ result[p] # "none"
      /\ UNCHANGED tableVars /\ UNCHANGED awaited
  BY DEF Stored, At, callVars
<1>2. CalledInv(p)'
  BY <1>1, NotCalled
<1>3. tool[p] \in ToolRecords /\ GoneKept
  BY <1>1, TablesStay DEF ToolIsTyped, ToolsTyped
<1>4. CASE result[p] = "ok"
  <2>1. tool'[p] = NextAccount(tool[p])
    BY <1>4 DEF Stored, Reported, Becomes, ToolIsTyped, ToolsTyped
  <2>2. /\ tool'[p].command = tool[p].command
        /\ tool'[p].shown = tool[p].shown
        /\ Deletes(tool[p]) => tool'[p].given = tool[p].given
        /\ IF Looping(tool[p]) /\ tool[p].ids # {}
           THEN tool'[p].step = "load" /\ tool'[p].ids = tool[p].ids
           ELSE tool'[p].step = "done" /\ tool'[p].ids = {}
    BY <1>3, <2>1, NextAccountIs
  <2>3. Deleting(p)' => Deleting(p)
    BY <2>2 DEF Deleting, Deletes
  <2>4. Deleting(p) => /\ \A i \in tool[p].given \ tool[p].ids : Gone(i)
                       /\ tool[p].command = "delete_account" =>
                            tool[p].ids = {}
    BY <1>1, <1>4 DEF LeftInv, Waiting
  <2>5. tool[p].command = "delete_all" => Looping(tool[p])
    BY DeletingSteps DEF Looping
  <2>6. Deleting(p) => tool'[p].ids = tool[p].ids
    BY <2>2, <2>4, <2>5 DEF Deleting, Deletes
  <2>7. Deleting(p) =>
          \A i \in tool'[p].given \ tool'[p].ids : Gone(i)'
    BY <1>3, <2>2, <2>4, <2>6 DEF Deleting, GoneKept, ToolRecords
  <2>8. LeftInv(p)'
    BY <2>2, <2>3, <2>4, <2>6, <2>7, UnloadedLeft
  <2> QED
    BY <1>2, <2>8
<1>5. CASE result[p] # "ok"
  <2>1. tool'[p] = NextAccount(Shows(tool[p], "ERROR_GENERIC"))
    BY <1>5 DEF Stored, Reported, Becomes, ToolIsTyped, ToolsTyped
  <2>2. tool'[p].shown # {}
    BY <1>3, <2>1, NextAccountIs, ShowsIs DEF Errors
  <2> QED
    BY <1>2, <2>2, ShownLeft
<1> QED
  BY <1>4, <1>5

LEMMA RunDeletes ==
  ASSUME ToolIsTyped, NEW p \in Tools, LeftInv(p), CalledInv(p), Run(p)
  PROVE  LeftInv(p)' /\ CalledInv(p)'
BY StartDeletes, OpenDeletes, ListDeletes, LoadDeletes, NoSuchDeletes,
   OtherCallsDelete, StoreDeletes, StoredDeletes DEF Run
-----------------------------------------------------------------------------
(* The replies, and the service.                                           *)

LEMMA LibraryDeletes ==
  ASSUME ToolIsTyped, NEW p \in Tools, LeftInv(p), CalledInv(p),
         Library(p), UNCHANGED tool
  PROVE  LeftInv(p)' /\ CalledInv(p)'
<1>1. p \in Processes /\ IndInv /\ CallsTyped
  BY ToolAssumption DEF ToolIsTyped
<1>2. Calling(p) /\ Ends(p) /\ GoneKept
  BY TablesStay DEF Library, StoreDone, StoreFails, Succeeds, Fails, Ends
<1>3. CalledInv(p)'
  <2>1. awaited'[p] = 0
    BY <1>1, <1>2 DEF Ends, IndInv, CallsInv
  <2> QED
    BY <2>1 DEF CalledInv, Calling
<1>4. tool[p].step = "storing" /\ tool[p] \in ToolRecords
  BY <1>2 DEF CalledInv, ToolIsTyped, ToolsTyped
<1>5. /\ Waiting(p) /\ Waiting(p)'
      /\ Deleting(p)' <=> Deleting(p)
  BY <1>4 DEF Waiting, Deleting
<1>6. CASE ~Deleting(p)
  BY <1>3, <1>5, <1>6 DEF LeftInv
<1>7. CASE Deleting(p)
  <2> PICK j : j = object[p].id
    OBVIOUS
  <2>1. j # 0 /\ j \in Ids
    BY <1>1, <1>5, <1>7, LoadedIds DEF LeftInv
  <2>2. object'[p].id = j
    BY <1>1, <2>1
    DEF Library, StoreDone, StoreFails, Has, IndInv, ObjectsInv
  <2>3. \A i \in tool[p].given \ tool[p].ids : Gone(i)' \/ i = j
    BY <1>2, <1>4, <1>5, <1>7 DEF LeftInv, GoneKept, ToolRecords
  <2>4. tool[p].command = "delete_account" => tool[p].ids = {}
    BY <1>5, <1>7 DEF LeftInv
  <2>5. CASE StoreDone(p)
    <3>1. Gone(j)
      BY <1>2, <1>7, <2>5 DEF StoreDone, Succeeds, CalledInv
    <3>2. Gone(object[p].id)'
      BY <1>2, <2>1, <2>2, <3>1 DEF GoneKept, Gone
    <3>3. LeftInv(p)'
      BY <1>4, <1>5, <2>1, <2>2, <2>3, <2>4, <3>2 DEF LeftInv
    <3> QED
      BY <1>3, <3>3
  <2>6. CASE StoreFails(p)
    <3>1. result'[p] = "readonly"
      BY <1>1, <2>6 DEF StoreFails, Return, CallsTyped
    <3>2. LeftInv(p)'
      BY <1>4, <1>5, <2>1, <2>2, <2>3, <2>4, <3>1 DEF LeftInv
    <3> QED
      BY <1>3, <3>2
  <2> QED
    BY <2>5, <2>6 DEF Library
<1> QED
  BY <1>6, <1>7

\* The service executes a deletion before it replies.
LEMMA ServedIsGone ==
  ASSUME TablesInv, NEW o \in Objects, o.id <= inserted, o.id # 0,
         o.changes.deleted, Execute(o)
  PROVE  Gone(o.id)'
<1>1. o.id \in Ids /\ rows[o.id] \in RowsOf
  BY RemoteAssumption DEF Objects, Ids, Nth, TablesInv
<1>2. DeleteRow(o)
  BY DEF Execute, InsertRow, UpdateRow
<1>3. rows'[o.id].live = FALSE /\ inserted' = inserted
  BY <1>1, <1>2 DEF DeleteRow, RowsOf
<1> QED
  BY <1>3 DEF Gone

LEMMA ServiceDeletes ==
  ASSUME ToolIsTyped, NEW p \in Tools, LeftInv(p), CalledInv(p),
         Service, UNCHANGED tool
  PROVE  LeftInv(p)' /\ CalledInv(p)'
<1>1. /\ p \in Processes /\ IndInv
      /\ messages \in Seq(Message)
      /\ Len(messages) \in Nat
      /\ \A n \in 1..Len(messages) : messages[n].object \in Objects
                                       /\ StandsFor(messages[n].object)
  BY ToolAssumption, LenProperties
  DEF ToolIsTyped, IndInv, CallsInv, StandsFor
<1>2. PICK n \in 1..Len(messages) : Serve(n) \/ Refuse(n)
  BY DEF Service
<1>3. UNCHANGED <<object, awaited, result>>
  BY <1>2 DEF Serve, Refuse
<1>4. GoneKept
  BY <1>1, <1>2, GoneStays, TablesStay DEF Serve, Refuse, IndInv
<1>5. LeftInv(p)'
  BY <1>3, <1>4, LeftStays
<1>6. \A k \in 1..Len(messages) : k # n => messages'[k] = messages[k]
  BY <1>1, <1>2 DEF Serve, Refuse, Replies
<1>7. Unread(n) /\ (Refuse(n) => messages'[n].reply = "error")
        /\ (Serve(n) => messages'[n].reply = "id")
  BY <1>1, <1>2 DEF Serve, Refuse, Replies
<1>8. CASE Calling(p) /\ awaited[p] = n
  <2> PICK o : o = messages[n].object
    OBVIOUS
  <2>1. tool[p].step = "storing" /\ result[p] = "none"
    BY <1>8 DEF CalledInv
  <2>2. Deleting(p) => /\ o.changes.deleted
                       /\ o.id = object[p].id /\ o.id # 0
    BY <1>7, <1>8, <2>1 DEF CalledInv, ReplyTo, Unread, LeftInv, Waiting
  <2>3. /\ o \in Objects /\ o.id <= inserted /\ TablesInv
        /\ Serve(n) => Execute(o)
    BY <1>1 DEF Serve, IndInv, StandsFor
  <2>4. Deleting(p) /\ Serve(n) => Gone(o.id)'
    BY <2>2, <2>3, ServedIsGone
  <2>5. Deleting(p)' <=> Deleting(p)
    BY DEF Deleting
  <2>6. Deleting(p) /\ Serve(n) => Gone(object[p].id)'
    <3>1. Deleting(p) => object'[p].id = o.id
      BY <1>3, <2>2
    <3> QED
      BY <2>4, <3>1 DEF Gone
  <2>7. CalledInv(p)'
    BY <1>2, <1>3, <1>7, <1>8, <2>1, <2>5, <2>6
    DEF CalledInv, Calling, ReplyTo
  <2> QED
    BY <1>5, <2>7
<1>9. CASE ~(Calling(p) /\ awaited[p] = n)
  <2>1. Calling(p) => awaited[p] \in 1..Len(messages) \ {n}
    BY <1>1, <1>9 DEF IndInv, CallsInv, Calling
  <2>2. Calling(p) => messages'[awaited[p]] = messages[awaited[p]]
    BY <1>6, <2>1
  <2>3. CalledInv(p)'
    BY <1>3, <1>4, <2>2, CalledStays
  <2> QED
    BY <1>5, <2>3
<1> QED
  BY <1>8, <1>9
-----------------------------------------------------------------------------
(* Every step.                                                             *)

LEMMA NextDeletes ==
  ASSUME ToolIsTyped, DeletionInv, [Next]_vars
  PROVE  DeletionInv'
<1> SUFFICES ASSUME NEW p \in Tools
             PROVE  LeftInv(p)' /\ CalledInv(p)'
  BY DEF DeletionInv
<1>1. LeftInv(p) /\ CalledInv(p) /\ p \in Processes /\ IndInv /\ CallsTyped
  BY ToolAssumption DEF DeletionInv, ToolIsTyped
<1>2. ASSUME NEW q \in Tools, Run(q)
      PROVE  LeftInv(p)' /\ CalledInv(p)'
  <2>1. CASE p = q
    BY <1>1, <1>2, <2>1, RunDeletes
  <2>2. CASE p # q
    <3>1. Frame(q) /\ tool'[p] = tool[p] /\ q \in Processes
      BY <1>2, <2>2, RunFrame, ToolAssumption
    <3> QED
      BY <2>2, <3>1, OthersStay
  <2> QED
    BY <2>1, <2>2
<1>3. ASSUME NEW q \in Clients, Work(q)
      PROVE  LeftInv(p)' /\ CalledInv(p)'
  <2>1. Frame(q) /\ UNCHANGED tool /\ q \in Processes /\ p # q
    BY <1>3, WorkFrame, ToolAssumption
  <2> QED
    BY <2>1, OthersStay
<1>4. ASSUME NEW q \in Processes, Library(q), UNCHANGED tool
      PROVE  LeftInv(p)' /\ CalledInv(p)'
  <2>1. CASE p = q
    BY <1>1, <1>4, <2>1, LibraryDeletes
  <2>2. CASE p # q
    <3>1. Frame(q)
      BY <1>1, <1>4, LibraryFrame
    <3> QED
      BY <1>4, <2>2, <3>1, OthersStay
  <2> QED
    BY <2>1, <2>2
<1>5. CASE Service /\ UNCHANGED tool
  BY <1>1, <1>5, ServiceDeletes
<1>6. CASE UNCHANGED vars
  <2>1. /\ UNCHANGED <<tool, object, result, awaited, messages>>
        /\ UNCHANGED tableVars
    BY <1>6 DEF vars, remoteVars, tableVars, callVars
  <2>2. GoneKept
    BY <2>1, TablesStay
  <2>3. LeftInv(p)'
    BY <1>1, <2>1, <2>2, LeftStays
  <2>4. CalledInv(p)'
    BY <1>1, <2>1, <2>2, CalledStays
  <2> QED
    BY <2>3, <2>4
<1> QED
  BY <1>2, <1>3, <1>4, <1>5, <1>6 DEF Next

LEMMA InitDeletes ==
  ASSUME Init
  PROVE  DeletionInv
<1>1. \A p \in Tools : tool[p].command = "none"
  BY DEF Init, NoTool
<1>2. \A p \in Processes : awaited[p] = 0
  BY DEF Init, RemoteInit
<1> QED
  BY <1>1, <1>2, ToolAssumption
  DEF DeletionInv, LeftInv, CalledInv, Deleting, Deletes, Calling

LEMMA DeletionInvImplies ==
  ASSUME DeletionInv
  PROVE  QuietMeansGone
BY DEF DeletionInv, LeftInv, Deleting, QuietMeansGone, Gone, Live, At

\* When delete-account has ended and printed no error, the account that was
\* named, or all those that ag_manager_list() has returned to it, are not in
\* the database: whatever other processes store, create and delete at the
\* same time, through D-Bus or not, and whichever queries time out.
THEOREM DeletionsAreReported == Spec => []QuietMeansGone
<1>1. Init => ToolIsTyped /\ DeletionInv
  BY InitInv, InitTypes, InitDeletes DEF ToolIsTyped
<1>2. ToolIsTyped /\ DeletionInv /\ [Next]_vars
        => ToolIsTyped' /\ DeletionInv'
  BY NextKeeps, NextTypes, NextDeletes DEF ToolIsTyped
<1>3. DeletionInv => QuietMeansGone
  BY DeletionInvImplies
<1> QED
  BY <1>1, <1>2, <1>3, PTL DEF Spec
=============================================================================
