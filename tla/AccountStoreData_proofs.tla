----------------------- MODULE AccountStoreData_proofs -----------------------
(***************************************************************************)
(* Proofs about what AccountStore leaves in the database, in the account   *)
(* objects and in the manager, and that it implements StoreContract.       *)
(***************************************************************************)
EXTENDS AccountStore_proofs

-----------------------------------------------------------------------------
(***************************************************************************)
(* The steps of AccountStore, reduced to what they do to the data: a step  *)
(* either leaves it alone, edits or deletes, begins a call that is         *)
(* answered at once, waits or stores at once, ends a call that waited, or  *)
(* belongs to another process.                                             *)
(***************************************************************************)
Pending(c) == status[c] \in {"waiting", "sleeping"}

\* No store of the account is waiting for the database.
Alone(c) == \A d \in Calls : Target[d] = Target[c] => ~Pending(d)

\* Clients keep to one store of an account at a time.
Orderly == "overtake" \notin Env /\ GuardInv

Idle ==
  /\ UNCHANGED <<edits, lastEdit, changes, request, result, wanted, dataVars>>
  /\ \A d \in Calls : /\ Pending(d)' => Pending(d)
                      /\ Orderly /\ Pending(d) => Pending(d)'
                      /\ status'[d] = "unused" => status[d] = "unused"

\* The first half of every step of a store function.
Begins(c) ==
  /\ status[c] = "unused"
  /\ status'[c] # "unused"
  /\ \A d \in Calls \ {c} : status'[d] = status[d]
  /\ wanted' = [wanted EXCEPT ![c] = lastEdit[Target[c]]]
  /\ UNCHANGED <<edits, lastEdit>>

AnswersAtOnce(c) ==
  /\ Begins(c)
  /\ ~Pending(c)'
  /\ \E x \in {"in_progress", "deleted", "ok"} :
       /\ Answer(c, x)
       /\ x = "ok" => changes[Target[c]] = NoChanges /\ (Orderly => Alone(c))
  /\ UNCHANGED <<changes, request, dataVars>>

Takes(c) ==
  /\ Begins(c)
  /\ Orderly => Alone(c)
  /\ Pending(c)'
  /\ ~gone[Target[c]]
  /\ Steal(c)
  /\ UNCHANGED <<result, dataVars>>

StoresAtOnce(c) ==
  /\ Begins(c)
  /\ Orderly => Alone(c)
  /\ ~Pending(c)'
  /\ ~gone[Target[c]]
  /\ Steal(c)
  /\ \E res \in {"ok", "db"} :
       Transaction(c, NewRequest(Target[c]), res) /\ Answer(c, res)

\* The first half of every step that ends the wait of a call.
Ends(c) ==
  /\ Pending(c)
  /\ ~Pending(c)'
  /\ status'[c] # "unused"
  /\ \A d \in Calls \ {c} : status'[d] = status[d]
  /\ UNCHANGED <<edits, lastEdit, changes, request, wanted>>

StoresLate(c) ==
  /\ Ends(c)
  /\ \E res \in {"ok", "db"} :
       Transaction(c, request[c], res) /\ Answer(c, res)

GivesUp(c) ==
  /\ Ends(c)
  /\ \E x \in {"db", "cancelled"} : Answer(c, x)
  /\ UNCHANGED dataVars

LEMMA WaitingIsGuarded ==
  ASSUME TypeOK, Orderly, NEW c \in Calls, ThreadFree,
         storeTask[Target[c]] = NoCall \/ Waiting(Target[c]) = {}
  PROVE  Alone(c)
BY ConstantsAssumption DEF Orderly, GuardInv, ThreadFree, Alone, Pending,
   Waiting

LEMMA AsyncSteps ==
  ASSUME TypeOK, NEW c \in Calls, StoreAsync(c)
  PROVE  AnswersAtOnce(c) \/ Takes(c) \/ StoresAtOnce(c)
<1>1. BeginAsync(c) /\ storeTask[Target[c]] = NoCall => (Orderly => Alone(c))
  BY WaitingIsGuarded DEF BeginAsync
<1>2. ASSUME BeginAsync(c), NEW s \in {"returned", "waiting"}, Move(c, s)
      PROVE  Begins(c) /\ (Pending(c)' <=> s = "waiting")
  BY <1>2 DEF BeginAsync, Begins, Move, Pending, TypeOK
<1>3. CASE StoreRejected(c) \/ StoreNothing(c) \/ StoreDeleted(c)
  BY <1>1, <1>2, <1>3
     DEF StoreRejected, StoreNothing, StoreDeleted, StoreStarts, AnswersAtOnce
<1>4. CASE StoreBusy(c)
  BY <1>1, <1>2, <1>4 DEF StoreBusy, StoreStarts, Takes
<1>5. CASE StoreNow(c)
  BY <1>1, <1>2, <1>5 DEF StoreNow, StoreStarts, StoresAtOnce
<1> QED
  BY <1>3, <1>4, <1>5 DEF StoreAsync

LEMMA BlockingSteps ==
  ASSUME TypeOK, NEW c \in Calls, StoreBlocking(c)
  PROVE  AnswersAtOnce(c) \/ Takes(c) \/ StoresAtOnce(c)
<1>1. BeginBlocking(c) => (Orderly => Alone(c))
  BY WaitingIsGuarded DEF BeginBlocking, Orderly, Allowed
<1>2. ASSUME BeginBlocking(c), NEW s \in {"done", "sleeping"}, Move(c, s)
      PROVE  Begins(c) /\ (Pending(c)' <=> s = "sleeping")
  BY <1>2 DEF BeginBlocking, Begins, Move, Pending, TypeOK
<1>3. CASE BlockingNothing(c) \/ BlockingDeleted(c)
  BY <1>1, <1>2, <1>3 DEF BlockingNothing, BlockingDeleted, AnswersAtOnce
<1>4. CASE BlockingBusy(c)
  BY <1>1, <1>2, <1>4 DEF BlockingBusy, Takes
<1>5. CASE BlockingNow(c)
  BY <1>1, <1>2, <1>5 DEF BlockingNow, StoresAtOnce
<1> QED
  BY <1>3, <1>4, <1>5 DEF StoreBlocking

LEMMA ThreadSteps ==
  ASSUME TypeOK, NEW c \in Calls, Thread(c)
  PROVE  Idle \/ StoresLate(c) \/ GivesUp(c)
<1>1. ASSUME NEW s \in {"idle_callback", "done"}, Move(c, s), Pending(c),
             UNCHANGED <<clientVars, request, wanted>>
      PROVE  Ends(c)
  BY <1>1 DEF Ends, Move, Pending, clientVars, TypeOK
<1>2. CASE Retry(c)
  BY <1>1, <1>2 DEF Retry, RetryReady, StoresLate, Pending
<1>3. CASE RetryCancelled(c)
  BY <1>1, <1>3 DEF RetryCancelled, RetryReady, GivesUp, Pending
<1>4. CASE RunCallback(c) \/ EndCallback(c)
  BY <1>4 DEF RunCallback, EndCallback, Move, Idle, Pending, clientVars, TypeOK
<1>5. CASE EndIdleCallback(c)
  <2>1. Orderly => storeTask[Target[c]] = c
    BY <1>5 DEF EndIdleCallback, Orderly, GuardInv
  <2>2. ASSUME NEW d \in Calls
        PROVE  /\ Pending(d)' => Pending(d)
               /\ Orderly /\ Pending(d) => Pending(d)'
    BY <1>5, <2>1 DEF EndIdleCallback, Pending
  <2>3. ASSUME NEW d \in Calls
        PROVE  status'[d] = "unused" => status[d] = "unused"
    BY <1>5 DEF EndIdleCallback
  <2> QED
    BY <1>5, <2>2, <2>3 DEF EndIdleCallback, Idle, clientVars
<1>6. CASE WakeBusy(c)
  <2>1. CASE UNCHANGED <<status, result>>
    BY <1>6, <2>1 DEF WakeBusy, Idle, Pending, clientVars
  <2>2. CASE Move(c, "done") /\ Answer(c, "db")
    BY <1>1, <1>6, <2>2 DEF WakeBusy, GivesUp, Pending
  <2> QED
    BY <1>6, <2>1, <2>2 DEF WakeBusy
<1>7. CASE WakeNow(c)
  BY <1>1, <1>7 DEF WakeNow, StoresLate, Pending
<1> QED
  BY <1>2, <1>3, <1>4, <1>5, <1>6, <1>7 DEF Thread

\* Every step is one of these; the proofs of the invariants go through them.
LEMMA Steps ==
  ASSUME TypeOK, [Next]_vars
  PROVE  \/ Idle
         \/ \E r \in RowIds \ {0} : OtherDeletes(r)
         \/ \E a \in Accounts : DeletionArrives(a)
         \/ \E a \in Accounts : Delete(a) \/ \E k \in Keys : Edit(a, k)
         \/ \E c \in Calls : \/ AnswersAtOnce(c) \/ Takes(c) \/ StoresAtOnce(c)
                             \/ StoresLate(c) \/ GivesUp(c)
<1>1. ASSUME UNCHANGED <<edits, lastEdit, changes, callVars, dataVars>>
      PROVE  Idle
  BY <1>1 DEF Idle, Pending, callVars
<1>2. CASE Client
  BY <1>1, <1>2, AsyncSteps, BlockingSteps DEF Client, Cancel
<1>3. CASE \E c \in Calls : Thread(c)
  BY <1>3, ThreadSteps
<1>4. CASE Others \/ UNCHANGED vars
  BY <1>1, <1>4 DEF Others, OtherLocks, OtherUnlocks, vars, clientVars
<1> QED
  BY <1>2, <1>3, <1>4 DEF Next

\* What the two steps of another process do, without the functions.
LEMMA OtherDeletesEffect ==
  ASSUME TypeOK, NEW r \in RowIds \ {0}, OtherDeletes(r)
  PROVE  /\ rows[r].live
         /\ rows'[r] = EmptyRow
         /\ ~rows'[r].live /\ rows'[r].vals = NoValues
         /\ \A i \in RowIds \ {r} : rows'[i] = rows[i]
         /\ foreign' = foreign \cup {r}
         /\ \A c \in Calls : Pending(c)' <=> Pending(c)
         /\ UNCHANGED <<clientVars, callVars, edits, lastEdit, changes, status,
                        request, result, wanted, id, mem, gone, cache, created,
                        removed, nextRow, lastId>>
BY DEF OtherDeletes, TypeOK, EmptyRow, Pending, clientVars, callVars

LEMMA DeletionArrivesEffect ==
  ASSUME TypeOK, NEW a \in Accounts, DeletionArrives(a)
  PROVE  /\ id[a] \in foreign /\ id[a] \in RowIds /\ cache[id[a]] = a
         /\ gone'[a] /\ \A b \in Accounts \ {a} : gone'[b] = gone[b]
         /\ cache' = [cache EXCEPT ![id[a]] = NoAccount]
         /\ removed' = removed \cup {id[a]}
         /\ \A c \in Calls : Pending(c)' <=> Pending(c)
         /\ UNCHANGED <<clientVars, callVars, edits, lastEdit, changes, status,
                        request, result, wanted, id, mem, created, rows,
                        nextRow, foreign, lastId>>
<1>1. gone' = [gone EXCEPT ![a] = TRUE]
  BY DEF DeletionArrives
<1>2. gone'[a] /\ \A b \in Accounts \ {a} : gone'[b] = gone[b]
  BY <1>1, Zenon DEF TypeOK
<1> QED
  BY <1>2 DEF DeletionArrives, TypeOK, Pending, clientVars, callVars

-----------------------------------------------------------------------------
(* What a transaction does to one row.                                     *)

LEMMA RowAfter ==
  ASSUME TypeOK, NEW q \in Requests, NEW i \in RowIds,
         IsInsert(q) => nextRow \in RowIds
  PROVE  /\ IsInsert(q) /\ i = nextRow
              => RowsAfter(q)[i] = [live |-> TRUE, vals |-> q.vals]
         /\ q.deleted /\ q.row # 0 /\ i = q.row => RowsAfter(q)[i] = EmptyRow
         /\ ~q.deleted /\ q.row # 0 /\ i = q.row
              => /\ RowsAfter(q)[i].live = rows[i].live
                 /\ RowsAfter(q)[i].vals = Overlay(rows[i].vals, q.vals)
         /\ ~(IsInsert(q) /\ i = nextRow) /\ ~(q.row # 0 /\ i = q.row)
              => RowsAfter(q)[i] = rows[i]
<1>1. q.row \in RowIds /\ q.deleted \in BOOLEAN
  BY DEF Requests
<1>2. rows \in [RowIds -> Row]
  BY DEF TypeOK
<1>3. CASE q.deleted
  BY <1>1, <1>2, <1>3 DEF RowsAfter, IsInsert
<1>4. CASE IsInsert(q)
  BY <1>1, <1>2, <1>4 DEF RowsAfter, IsInsert
<1>5. CASE ~q.deleted /\ ~IsInsert(q)
  <2>1. RowsAfter(q) = [rows EXCEPT ![q.row].vals = Overlay(@, q.vals)]
    BY <1>5 DEF RowsAfter, IsInsert
  <2>2. rows[i] \in Row
    BY <1>2
  <2> QED
    BY <1>1, <1>2, <1>5, <2>1, <2>2 DEF IsInsert, Row
<1> QED
  BY <1>3, <1>4, <1>5

\* What Commit does, without the functions.
LEMMA CommitEffect ==
  ASSUME TypeOK, NEW a \in Accounts, NEW q \in Requests, Commit(a, q)
  PROVE  /\ IsInsert(q) => nextRow \in RowIds
         /\ nextRow' = IF IsInsert(q) THEN nextRow + 1 ELSE nextRow
         /\ rows' = RowsAfter(q)
         /\ lastId' = LastIdAfter(q)
         /\ id'[a] = IdAfter(a, q)
         /\ \A b \in Accounts \ {a} : id'[b] = id[b]
         /\ mem'[a] = Overlay(mem[a], q.vals)
         /\ \A b \in Accounts \ {a} : mem'[b] = mem[b]
         /\ gone'[a] <=> gone[a] \/ q.deleted
         /\ \A b \in Accounts \ {a} : gone'[b] = gone[b]
         /\ cache' = [cache EXCEPT ![IdAfter(a, q)] =
                        IF q.deleted THEN NoAccount
                        ELSE IF id[a] = 0 THEN a ELSE @]
         /\ created' = IF q.created THEN created \cup {IdAfter(a, q)}
                       ELSE created
         /\ removed' = IF q.deleted THEN removed \cup {IdAfter(a, q)}
                       ELSE removed
         /\ foreign' = foreign
<1>1. IsInsert(q) => nextRow \in RowIds
  BY ConstantsAssumption DEF Commit, TypeOK, RowIds
<1>2. /\ id' = [id EXCEPT ![a] = IdAfter(a, q)]
      /\ mem' = [mem EXCEPT ![a] = Overlay(@, q.vals)]
      /\ gone' = [gone EXCEPT ![a] = @ \/ q.deleted]
  BY DEF Commit
<1>3. id'[a] = IdAfter(a, q) /\ \A b \in Accounts \ {a} : id'[b] = id[b]
  BY <1>2 DEF TypeOK
<1>4. /\ mem'[a] = Overlay(mem[a], q.vals)
      /\ \A b \in Accounts \ {a} : mem'[b] = mem[b]
  BY <1>2 DEF TypeOK
<1>5. /\ gone'[a] <=> gone[a] \/ q.deleted
      /\ \A b \in Accounts \ {a} : gone'[b] = gone[b]
  BY <1>2, Zenon DEF TypeOK
<1> QED
  BY <1>1, <1>3, <1>4, <1>5 DEF Commit

\* A call takes the changes of its account.
LEMMA StealEffect ==
  ASSUME TypeOK, NEW c \in Calls, Steal(c)
  PROVE  /\ changes'[Target[c]] = NoChanges
         /\ \A a \in Accounts \ {Target[c]} : changes'[a] = changes[a]
         /\ request'[c] = NewRequest(Target[c])
         /\ \A d \in Calls \ {c} : request'[d] = request[d]
BY ConstantsAssumption DEF Steal, TypeOK

LEMMA NewRequestFields ==
  ASSUME NEW a \in Accounts
  PROVE  /\ NewRequest(a).row = id[a]
         /\ NewRequest(a).created = changes[a].created
         /\ NewRequest(a).deleted = changes[a].deleted
         /\ NewRequest(a).vals = changes[a].vals
BY DEF NewRequest, Request

LEMMA EditEffect ==
  ASSUME TypeOK, NEW a \in Accounts, NEW k \in Keys, Edit(a, k)
  PROVE  /\ edits' = edits + 1
         /\ changes'[a].vals[k] = edits + 1
         /\ \A j \in Keys \ {k} : changes'[a].vals[j] = changes[a].vals[j]
         /\ changes'[a].created = changes[a].created
         /\ changes'[a].deleted = changes[a].deleted
         /\ \A b \in Accounts \ {a} : changes'[b] = changes[b]
         /\ lastEdit'[a][k] = edits + 1
         /\ \A j \in Keys \ {k} : lastEdit'[a][j] = lastEdit[a][j]
         /\ \A b \in Accounts \ {a} : lastEdit'[b] = lastEdit[b]
         /\ UNCHANGED <<status, request, result, wanted, dataVars>>
<1>1. changes[a] \in Changes /\ changes[a].vals \in Values
      /\ lastEdit[a] \in Values
  BY DEF TypeOK, Changes
<1>2. changes'[a] = [changes[a] EXCEPT !.vals =
                       [changes[a].vals EXCEPT ![k] = edits + 1]]
  BY <1>1 DEF Edit, TypeOK
<1>3. changes'[a].vals = [changes[a].vals EXCEPT ![k] = edits + 1]
      /\ changes'[a].created = changes[a].created
      /\ changes'[a].deleted = changes[a].deleted
  BY <1>1, <1>2 DEF Changes
<1>4. lastEdit'[a] = [lastEdit[a] EXCEPT ![k] = edits + 1]
  BY <1>1 DEF Edit, TypeOK
<1> QED
  BY <1>1, <1>3, <1>4 DEF Edit, TypeOK, Values, callVars

LEMMA DeleteEffect ==
  ASSUME TypeOK, NEW a \in Accounts, Delete(a)
  PROVE  /\ changes'[a].vals = changes[a].vals
         /\ changes'[a].created = changes[a].created
         /\ changes'[a].deleted
         /\ \A b \in Accounts \ {a} : changes'[b] = changes[b]
         /\ UNCHANGED <<edits, lastEdit, status, request, result, wanted,
                        dataVars>>
BY DEF Delete, TypeOK, Changes, callVars

\* The request a transaction runs, and when: the beginnings of StoresAtOnce
\* and StoresLate brought to one form.
LEMMA StoreEffect ==
  ASSUME TypeOK, NEW c \in Calls, NEW q \in Requests,
         \E res \in {"ok", "db"} : Transaction(c, q, res) /\ Answer(c, res)
  PROVE  /\ \A d \in Calls \ {c} : result'[d] = result[d]
         /\ \/ result'[c] = "ok" /\ Commit(Target[c], q)
            \/ result'[c] = "db" /\ UNCHANGED accountVars
<1>1. PICK res \in {"ok", "db"} : Transaction(c, q, res) /\ Answer(c, res)
  OBVIOUS
<1>2. result'[c] = res /\ \A d \in Calls \ {c} : result'[d] = result[d]
  BY <1>1 DEF Answer, TypeOK
<1>3. res = "db" => UNCHANGED accountVars
  BY <1>1 DEF Transaction, ExecFails, CommitFails, BeginFails, dataVars
<1>4. res = "ok" => Commit(Target[c], q)
  BY <1>1 DEF Transaction
<1> QED
  BY <1>1, <1>2, <1>3, <1>4

-----------------------------------------------------------------------------
(* A call has a result exactly when it is over.                            *)
CallInv ==
  \A c \in Calls : status[c] = "unused" \/ Pending(c) => result[c] = "none"

LEMMA CallInit == Init => CallInv
BY DEF Init, CallInv

LEMMA CallNext ==
  ASSUME TypeOK, CallInv, [Next]_vars
  PROVE  CallInv'
<1>1. CASE Idle
  BY <1>1 DEF Idle, CallInv
<1>2. CASE \E a \in Accounts : Delete(a) \/ \E k \in Keys : Edit(a, k)
  BY <1>2 DEF Delete, Edit, callVars, CallInv, Pending
<1>3. ASSUME NEW c \in Calls,
             \A d \in Calls \ {c} : status'[d] = status[d]
                                    /\ result'[d] = result[d],
             status'[c] # "unused" /\ ~Pending(c)'
      PROVE  CallInv'
  BY <1>3 DEF CallInv, Pending
<1>4. ASSUME NEW c \in Calls, AnswersAtOnce(c) \/ GivesUp(c)
      PROVE  CallInv'
  <2>1. \A d \in Calls \ {c} : result'[d] = result[d]
    BY <1>4 DEF AnswersAtOnce, GivesUp, Answer, TypeOK
  <2> QED
    BY <1>3, <1>4, <2>1 DEF AnswersAtOnce, GivesUp, Begins, Ends
<1>5. ASSUME NEW c \in Calls, StoresAtOnce(c) \/ StoresLate(c)
      PROVE  CallInv'
  <2>1. \A d \in Calls \ {c} : result'[d] = result[d]
    BY <1>5 DEF StoresAtOnce, StoresLate, Answer, TypeOK
  <2> QED
    BY <1>3, <1>5, <2>1 DEF StoresAtOnce, StoresLate, Begins, Ends
<1>6. ASSUME NEW c \in Calls, Takes(c)
      PROVE  CallInv'
  BY <1>6 DEF Takes, Begins, CallInv, Pending
<1>7. ASSUME UNCHANGED <<status, result>>
      PROVE  CallInv'
  BY <1>7 DEF CallInv, Pending
<1> QED
  BY <1>1, <1>2, <1>4, <1>5, <1>6, <1>7, OtherDeletesEffect,
     DeletionArrivesEffect, Steps

-----------------------------------------------------------------------------
(***************************************************************************)
(* Rows: an id is used once, so that a row that another process has        *)
(* deleted stays dead, and what stores have written there since is theirs. *)
(***************************************************************************)
ForeignInv ==
  /\ ~rows[0].live
  /\ \A r \in RowIds : rows[r].live => r < nextRow
  /\ \A r \in foreign : r < nextRow /\ ~rows[r].live

OrphanInv ==
  \A r \in foreign, k \in Keys : rows[r].vals[k] # 0 =>
    \E c \in Calls : /\ result[c] = "ok"
                    /\ request[c].row = r
                    /\ request[c].vals[k] = rows[r].vals[k]

LEMMA ForeignInit == Init => ForeignInv /\ OrphanInv
<1> SUFFICES ASSUME Init PROVE ForeignInv /\ OrphanInv
  OBVIOUS
<1>1. Cardinality(Stored) \in Nat /\ 0 \in RowIds
  BY FS_CardinalityType, ConstantsAssumption DEF RowIds
<1>2. foreign = {} /\ nextRow = Cardinality(Stored) + 1
      /\ \A r \in RowIds : (rows[r].live <=> r \in 1..Cardinality(Stored))
  BY DEF Init
<1>3. ~rows[0].live
  BY <1>1, <1>2
<1>4. \A r \in RowIds : rows[r].live => r < nextRow
  BY <1>1, <1>2
<1> QED
  BY <1>2, <1>3, <1>4 DEF ForeignInv, OrphanInv

LEMMA ForeignCommit ==
  ASSUME TypeOK, ForeignInv, NEW a \in Accounts, NEW q \in Requests,
         Commit(a, q)
  PROVE  ForeignInv'
<1> USE ConstantsAssumption
<1>1. /\ q.row \in RowIds /\ q.deleted \in BOOLEAN
      /\ nextRow \in Nat /\ nextRow # 0 /\ RowIds \subseteq Nat
      /\ 0 \in RowIds /\ rows \in [RowIds -> Row] /\ foreign \subseteq RowIds
  BY DEF Requests, TypeOK, RowIds
<1>2. /\ IsInsert(q) => nextRow \in RowIds
      /\ nextRow' = IF IsInsert(q) THEN nextRow + 1 ELSE nextRow
      /\ rows' = RowsAfter(q)
      /\ foreign' = foreign
  BY CommitEffect
<1>3. \A r \in RowIds :
        /\ IsInsert(q) /\ r = nextRow
             => rows'[r] = [live |-> TRUE, vals |-> q.vals]
        /\ q.deleted /\ q.row # 0 /\ r = q.row => rows'[r] = EmptyRow
        /\ ~q.deleted /\ q.row # 0 /\ r = q.row
             => rows'[r].live = rows[r].live
        /\ ~(IsInsert(q) /\ r = nextRow) /\ ~(q.row # 0 /\ r = q.row)
             => rows'[r] = rows[r]
  BY <1>2, RowAfter
<1>4. \A r \in RowIds : \/ IsInsert(q) /\ r = nextRow /\ rows'[r].live
                        \/ ~rows'[r].live
                        \/ rows'[r].live = rows[r].live
  <2> TAKE r \in RowIds
  <2>1. EmptyRow.live = FALSE
    BY DEF EmptyRow
  <2>2. CASE IsInsert(q) /\ r = nextRow
    BY <1>3, <2>2
  <2>3. CASE q.row # 0 /\ r = q.row
    BY <1>1, <1>3, <2>1, <2>3
  <2> QED
    BY <1>3, <2>2, <2>3
<1>5. nextRow' \in Nat /\ nextRow <= nextRow'
      /\ (IsInsert(q) => nextRow < nextRow')
  BY <1>1, <1>2
<1>6. ~rows'[0].live
  <2>1. ~(IsInsert(q) /\ 0 = nextRow) /\ ~(q.row # 0 /\ 0 = q.row)
    BY <1>1
  <2>2. rows'[0] = rows[0]
    BY <1>1, <1>3, <2>1
  <2> QED
    BY <2>2 DEF ForeignInv
<1>7. ASSUME NEW r \in RowIds, rows'[r].live
      PROVE  r < nextRow'
  <2>1. r \in Nat /\ (rows[r].live => r < nextRow)
    BY <1>1 DEF ForeignInv
  <2> QED
    BY <1>1, <1>4, <1>5, <1>7, <2>1
<1>8. ASSUME NEW r \in foreign
      PROVE  r < nextRow' /\ ~rows'[r].live
  <2>1. r \in RowIds /\ r \in Nat /\ r < nextRow /\ ~rows[r].live
    BY <1>1 DEF ForeignInv
  <2> QED
    BY <1>1, <1>4, <1>5, <2>1
<1> QED
  BY <1>2, <1>6, <1>7, <1>8 DEF ForeignInv

LEMMA OrphanCommit ==
  ASSUME TypeOK, ForeignInv, OrphanInv, NEW c \in Calls,
         NEW q \in Requests, Commit(Target[c], q),
         request'[c] = q, result'[c] = "ok", result[c] # "ok",
         \A d \in Calls \ {c} : request'[d] = request[d]
                               /\ result'[d] = result[d]
  PROVE  OrphanInv'
<1>1. /\ q.row \in RowIds /\ q.deleted \in BOOLEAN /\ q.vals \in Values
      /\ rows \in [RowIds -> Row] /\ foreign \subseteq RowIds \ {0}
      /\ nextRow \in Nat /\ RowIds \subseteq Nat
  BY ConstantsAssumption DEF Requests, TypeOK, RowIds
<1>2. /\ IsInsert(q) => nextRow \in RowIds
      /\ rows' = RowsAfter(q)
      /\ foreign' = foreign
  BY CommitEffect, ConstantsAssumption
<1> SUFFICES ASSUME NEW r \in foreign, NEW k \in Keys, rows'[r].vals[k] # 0
             PROVE  \E d \in Calls :
                      /\ result'[d] = "ok"
                      /\ request'[d].row = r
                      /\ request'[d].vals[k] = rows'[r].vals[k]
  BY <1>2 DEF OrphanInv
<1>3. r \in RowIds /\ r # 0 /\ r # nextRow
  BY <1>1 DEF ForeignInv
<1>4. /\ q.deleted /\ r = q.row => rows'[r] = EmptyRow
      /\ ~q.deleted /\ r = q.row
           => rows'[r].vals = Overlay(rows[r].vals, q.vals)
      /\ r # q.row => rows'[r] = rows[r]
  BY <1>2, <1>3, RowAfter
<1>5. CASE rows'[r].vals[k] = rows[r].vals[k]
  <2>1. PICK d \in Calls : /\ result[d] = "ok"
                           /\ request[d].row = r
                           /\ request[d].vals[k] = rows[r].vals[k]
    BY <1>5 DEF OrphanInv
  <2> QED
    BY <1>5, <2>1
<1>6. CASE r = q.row /\ rows'[r].vals[k] = q.vals[k]
  BY <1>6
<1>7. q.deleted /\ r = q.row => rows'[r].vals[k] = 0
  BY <1>4 DEF EmptyRow, NoValues
<1>8. ~q.deleted /\ r = q.row
        => rows'[r].vals[k] \in {rows[r].vals[k], q.vals[k]}
  BY <1>4 DEF Overlay
<1> QED
  BY <1>1, <1>4, <1>5, <1>6, <1>7, <1>8

LEMMA ForeignNext ==
  ASSUME TypeOK, TypeOK', CallInv, ForeignInv, OrphanInv, [Next]_vars
  PROVE  ForeignInv' /\ OrphanInv'
<1> USE ConstantsAssumption
<1>1. ASSUME UNCHANGED <<rows, nextRow, foreign>>,
             \A c \in Calls : result[c] = "ok"
               => result'[c] = "ok" /\ request'[c] = request[c]
      PROVE  ForeignInv' /\ OrphanInv'
  <2>1. ForeignInv'
    BY <1>1 DEF ForeignInv
  <2>2. OrphanInv'
    BY <1>1 DEF OrphanInv
  <2> QED
    BY <2>1, <2>2
<1>2. CASE Idle
  BY <1>1, <1>2 DEF Idle, dataVars, accountVars
<1>3. ASSUME NEW a \in Accounts, Delete(a) \/ \E k \in Keys : Edit(a, k)
      PROVE  ForeignInv' /\ OrphanInv'
  BY <1>1, <1>3 DEF Delete, Edit, callVars, dataVars, accountVars
<1>4. ASSUME NEW r \in RowIds \ {0}, OtherDeletes(r)
      PROVE  ForeignInv' /\ OrphanInv'
  <2>1. /\ rows[r].live /\ ~rows'[r].live /\ rows'[r].vals = NoValues
        /\ \A i \in RowIds \ {r} : rows'[i] = rows[i]
        /\ foreign' = foreign \cup {r} /\ foreign \subseteq RowIds
        /\ UNCHANGED <<request, result, nextRow>>
        /\ 0 \in RowIds /\ rows \in [RowIds -> Row] /\ rows' \in [RowIds -> Row]
    BY <1>4, OtherDeletesEffect DEF TypeOK, RowIds
  <2>2. ForeignInv'
    BY <2>1 DEF ForeignInv
  <2>3. OrphanInv'
    BY <2>1 DEF OrphanInv, NoValues
  <2> QED
    BY <2>2, <2>3
<1>5. ASSUME NEW a \in Accounts, DeletionArrives(a)
      PROVE  ForeignInv' /\ OrphanInv'
  BY <1>1, <1>5, DeletionArrivesEffect
<1>6. ASSUME NEW c \in Calls, AnswersAtOnce(c) \/ GivesUp(c)
      PROVE  ForeignInv' /\ OrphanInv'
  <2>1. /\ UNCHANGED <<request, dataVars>>
        /\ \E x : Answer(c, x)
        /\ result[c] = "none"
    BY <1>6 DEF AnswersAtOnce, GivesUp, Begins, Ends, CallInv
  <2>2. \A d \in Calls : result[d] = "ok" => result'[d] = "ok"
    BY <2>1 DEF Answer, TypeOK
  <2> QED
    BY <1>1, <2>1, <2>2 DEF dataVars, accountVars
<1>7. ASSUME NEW c \in Calls, Takes(c)
      PROVE  ForeignInv' /\ OrphanInv'
  <2>1. /\ \A d \in Calls \ {c} : request'[d] = request[d]
        /\ result[c] = "none"
    BY <1>7, StealEffect DEF Takes, Begins, CallInv
  <2> QED
    BY <1>1, <1>7, <2>1 DEF Takes, dataVars, accountVars
<1>8. ASSUME NEW c \in Calls, StoresAtOnce(c) \/ StoresLate(c)
      PROVE  ForeignInv' /\ OrphanInv'
  <2>1. /\ request'[c] \in Requests
        /\ \A d \in Calls \ {c} : request'[d] = request[d]
        /\ result[c] = "none"
        /\ \E res \in {"ok", "db"} :
             Transaction(c, request'[c], res) /\ Answer(c, res)
    <3>1. CASE StoresAtOnce(c)
      BY <3>1, StealEffect DEF StoresAtOnce, Begins, CallInv, TypeOK
    <3>2. CASE StoresLate(c)
      BY <3>2 DEF StoresLate, Ends, CallInv, TypeOK
    <3> QED
      BY <1>8, <3>1, <3>2
  <2>2. /\ \A d \in Calls \ {c} : result'[d] = result[d]
        /\ \/ result'[c] = "ok" /\ Commit(Target[c], request'[c])
           \/ result'[c] = "db" /\ UNCHANGED accountVars
    BY <2>1, StoreEffect
  <2>3. CASE UNCHANGED accountVars
    BY <1>1, <2>1, <2>2, <2>3 DEF accountVars
  <2>4. CASE result'[c] = "ok" /\ Commit(Target[c], request'[c])
    BY <2>1, <2>2, <2>4, ForeignCommit, OrphanCommit
  <2> QED
    BY <2>2, <2>3, <2>4
<1> QED
  BY <1>2, <1>3, <1>4, <1>5, <1>6, <1>7, <1>8, Steps

LEMMA ForeignHolds == Spec => [](CallInv /\ ForeignInv /\ OrphanInv)
<1>1. TypeOK /\ TypeOK' /\ CallInv /\ [Next]_vars => CallInv'
  BY CallNext
<1>2. /\ TypeOK
      /\ TypeOK'
      /\ CallInv
      /\ ForeignInv
      /\ OrphanInv
      /\ [Next]_vars
      => ForeignInv' /\ OrphanInv'
  BY ForeignNext
<1> QED
  BY TypeCorrect, CallInit, ForeignInit, <1>1, <1>2, PTL DEF Spec

-----------------------------------------------------------------------------
(***************************************************************************)
(* Ids, the hash of accounts and the deletions that were announced, for    *)
(* clients that do not delete an account they never stored.                *)
(***************************************************************************)

\* What a request must say for its transaction to keep the ids in order: an
\* account without a row is never deleted, a row is the one of the account.
IdRequest(a, q) ==
  /\ q.deleted => q.row # 0
  /\ q.row # 0 => q.row = id[a]

IdInv ==
  /\ \A a \in Accounts : id[a] < nextRow
  /\ \A a, b \in Accounts : id[a] = id[b] /\ id[a] # 0 => a = b
  /\ cache[0] = NoAccount
  /\ \A r \in RowIds : cache[r] # NoAccount => id[cache[r]] = r
  /\ \A r \in removed : r < nextRow /\ ~rows[r].live
  /\ \A a \in Accounts : changes[a].deleted => id[a] # 0
  /\ \A c \in Calls : Pending(c) => IdRequest(Target[c], request[c])

LEMMA IdInit == Init => IdInv
<1> SUFFICES ASSUME Init PROVE IdInv
  OBVIOUS
<1> USE ConstantsAssumption
<1>1. Cardinality(Stored) \in Nat /\ nextRow = Cardinality(Stored) + 1
  BY FS_CardinalityType DEF Init
<1>2. /\ \A a \in Accounts : id[a] \in 0..Cardinality(Stored)
      /\ \A a \in Accounts : id[a] = 0 <=> a \notin Stored
      /\ \A a, b \in Stored : id[a] = id[b] => a = b
  BY DEF Init, StoredIds
<1>3. \A a \in Accounts : id[a] < nextRow
  BY <1>1, <1>2
<1>4. \A r \in RowIds : IF \E a \in Stored : id[a] = r
                        THEN cache[r] \in Stored /\ id[cache[r]] = r
                        ELSE cache[r] = NoAccount
  BY DEF Init
<1>5. cache[0] = NoAccount
  BY <1>2, <1>4 DEF RowIds
<1>6. \A a \in Accounts : ~changes[a].deleted
  BY DEF Init, NewChanges, NoChanges
<1>7. \A c \in Calls : ~Pending(c)
  BY DEF Init, Pending
<1>8. removed = {}
  BY DEF Init
<1> QED
  BY <1>2, <1>3, <1>4, <1>5, <1>6, <1>7, <1>8 DEF IdInv

LEMMA IdCommit ==
  ASSUME TypeOK, IdInv, NEW a \in Accounts, NEW q \in Requests,
         IdRequest(a, q), Commit(a, q)
  PROVE  /\ \A b \in Accounts : id'[b] < nextRow'
         /\ \A b, d \in Accounts : id'[b] = id'[d] /\ id'[b] # 0 => b = d
         /\ cache'[0] = NoAccount
         /\ \A r \in RowIds : cache'[r] # NoAccount => id'[cache'[r]] = r
         /\ \A r \in removed' : r < nextRow' /\ ~rows'[r].live
         /\ id[a] # 0 => id'[a] = id[a]
         /\ id'[a] # 0
         /\ \A b \in Accounts \ {a} : id'[b] = id[b]
<1> USE ConstantsAssumption
<1> DEFINE new == IdAfter(a, q)
<1>1. /\ q.row \in RowIds /\ q.deleted \in BOOLEAN
      /\ id \in [Accounts -> RowIds]
      /\ nextRow \in Nat \ {0} /\ RowIds \subseteq Nat
      /\ cache \in [RowIds -> Accounts \cup {NoAccount}]
  BY DEF Requests, TypeOK, RowIds
<1>2. /\ IsInsert(q) => nextRow \in RowIds
      /\ nextRow' = IF IsInsert(q) THEN nextRow + 1 ELSE nextRow
      /\ id'[a] = new /\ \A b \in Accounts \ {a} : id'[b] = id[b]
      /\ rows' = RowsAfter(q)
      /\ cache' = [cache EXCEPT ![new] = IF q.deleted THEN NoAccount
                                         ELSE IF id[a] = 0 THEN a ELSE @]
      /\ removed' = IF q.deleted THEN removed \cup {new} ELSE removed
  BY CommitEffect
<1>3. \/ id[a] # 0 /\ new = id[a]
      \/ id[a] = 0 /\ IsInsert(q) /\ new = nextRow
  BY <1>1 DEF IdRequest, IsInsert, IdAfter, LastIdAfter
<1>4. q.deleted => q.row = id[a] /\ new = id[a] /\ id[a] # 0
  BY <1>3 DEF IdRequest
<1>0. nextRow' \in Nat /\ nextRow <= nextRow'
  BY <1>1, <1>2
<1>5. new \in RowIds /\ new # 0 /\ new < nextRow'
  <2>1. id[a] \in RowIds /\ id[a] \in Nat /\ id[a] < nextRow
    BY <1>1 DEF IdInv
  <2>2. CASE id[a] # 0 /\ new = id[a]
    <3>1. id[a] < nextRow'
      BY <1>0, <1>1, <2>1
    <3> QED
      BY <2>1, <2>2, <3>1
  <2>3. CASE IsInsert(q) /\ new = nextRow
    <3>1. nextRow' = nextRow + 1 /\ nextRow \in RowIds
      BY <1>2, <2>3
    <3> QED
      BY <1>1, <2>3, <3>1
  <2> QED
    BY <1>3, <2>2, <2>3
<1>6. \A b \in Accounts : id'[b] < nextRow'
  <2>1. ASSUME NEW b \in Accounts \ {a} PROVE id'[b] < nextRow'
    <3>1. id'[b] = id[b] /\ id[b] \in Nat /\ id[b] < nextRow
      BY <1>1, <1>2 DEF IdInv
    <3> QED
      BY <1>0, <1>1, <3>1
  <2> QED
    BY <1>2, <1>5, <2>1
<1>8. \A b \in Accounts \ {a} : id[b] # new
  BY <1>1, <1>3 DEF IdInv
<1>9. \A b, d \in Accounts : id'[b] = id'[d] /\ id'[b] # 0 => b = d
  BY <1>2, <1>8 DEF IdInv
<1>10. cache'[0] = NoAccount
  BY <1>1, <1>2, <1>5 DEF IdInv, RowIds
<1>11. ASSUME NEW r \in RowIds, cache'[r] # NoAccount
       PROVE  id'[cache'[r]] = r
  <2>1. CASE r = new
    <3>1. ~q.deleted /\ cache'[r] = IF id[a] = 0 THEN a ELSE cache[r]
      BY <1>1, <1>2, <1>5, <1>11, <2>1
    <3>2. id[a] # 0 => cache[r] \in Accounts /\ id[cache[r]] = id[a]
      BY <1>1, <1>3, <1>11, <2>1, <3>1 DEF IdInv
    <3>3. id[a] # 0 => cache[r] = a
      BY <3>2 DEF IdInv
    <3> QED
      BY <1>2, <2>1, <3>1, <3>3
  <2>2. CASE r # new
    <3>1. cache'[r] = cache[r] /\ cache[r] \in Accounts /\ id[cache[r]] = r
      BY <1>1, <1>2, <1>5, <1>11, <2>2 DEF IdInv
    <3>2. r # 0
      BY <1>11, <3>1 DEF IdInv
    <3>3. cache[r] # a
      BY <1>3, <2>2, <3>1, <3>2
    <3> QED
      BY <1>2, <3>1, <3>3
  <2> QED
    BY <2>1, <2>2
<1>12. ASSUME NEW r \in removed'
       PROVE  r < nextRow' /\ ~rows'[r].live
  <2>1. r \in RowIds /\ (r \in removed \/ (q.deleted /\ r = new))
    BY <1>2, <1>5, <1>12 DEF TypeOK
  <2>2. CASE q.deleted /\ r = q.row
    <3>1. rows'[r] = EmptyRow
      BY <1>2, <1>4, <2>1, <2>2, RowAfter
    <3> QED
      BY <1>4, <1>5, <2>2, <3>1 DEF EmptyRow
  <2>3. CASE r \in removed /\ ~(q.deleted /\ r = q.row)
    <3>1. r < nextRow /\ ~rows[r].live
      BY <2>3 DEF IdInv
    <3>2. rows'[r].live = rows[r].live
      <4>1. ~(IsInsert(q) /\ r = nextRow)
        BY <1>1, <3>1
      <4>2. CASE ~q.deleted /\ q.row # 0 /\ r = q.row
        BY <1>2, <2>1, <4>2, RowAfter
      <4>3. CASE ~(q.row # 0 /\ r = q.row)
        BY <1>2, <2>1, <4>1, <4>3, RowAfter
      <4> QED
        BY <1>1, <2>3, <4>2, <4>3
    <3> QED
      BY <1>1, <1>2, <2>1, <3>1, <3>2
  <2> QED
    BY <1>4, <2>1, <2>2, <2>3
<1> QED
  BY <1>2, <1>3, <1>5, <1>6, <1>9, <1>10, <1>11, <1>12

\* A request that is made from the changes of an account is in order.
LEMMA IdNewRequest ==
  ASSUME IdInv, NEW a \in Accounts
  PROVE  IdRequest(a, NewRequest(a))
BY NewRequestFields DEF IdInv, IdRequest

\* Ids only change from 0.
LEMMA IdRequestKept ==
  ASSUME NEW a \in Accounts, NEW q, IdRequest(a, q),
         id[a] # 0 => id'[a] = id[a]
  PROVE  IdRequest(a, q)'
BY DEF IdRequest

LEMMA IdNext ==
  ASSUME TypeOK, ForeignInv, IdInv, "delete_new" \notin Env, [Next]_vars
  PROVE  IdInv'
<1> USE ConstantsAssumption
<1>1. ASSUME UNCHANGED <<id, nextRow, cache, removed, rows>>,
             \A a \in Accounts : changes'[a].deleted => id[a] # 0,
             \A c \in Calls : Pending(c)' => IdRequest(Target[c], request'[c])
      PROVE  IdInv'
  BY <1>1 DEF IdInv, IdRequest
<1>2. CASE Idle
  BY <1>1, <1>2 DEF Idle, IdInv, dataVars, accountVars
<1>3. ASSUME NEW a \in Accounts, Delete(a)
      PROVE  IdInv'
  <2>1. id[a] # 0
    BY <1>3 DEF Delete, Allowed
  <2> QED
    BY <1>1, <1>3, <2>1, DeleteEffect
       DEF IdInv, dataVars, accountVars, Pending
<1>4. ASSUME NEW a \in Accounts, NEW k \in Keys, Edit(a, k)
      PROVE  IdInv'
  BY <1>1, <1>4, EditEffect DEF IdInv, dataVars, accountVars, Pending
<1>5. ASSUME NEW c \in Calls, AnswersAtOnce(c) \/ GivesUp(c)
      PROVE  IdInv'
  <2>1. /\ UNCHANGED <<changes, request, dataVars>>
        /\ \A d \in Calls : Pending(d)' => Pending(d)
    BY <1>5 DEF AnswersAtOnce, GivesUp, Begins, Ends, Pending
  <2> QED
    BY <1>1, <2>1 DEF IdInv, dataVars, accountVars
<1>6. ASSUME NEW c \in Calls, Steal(c)
      PROVE  /\ request'[c] = NewRequest(Target[c])
             /\ IdRequest(Target[c], NewRequest(Target[c]))
             /\ NewRequest(Target[c]) \in Requests
             /\ \A d \in Calls \ {c} : request'[d] = request[d]
             /\ \A a \in Accounts : changes'[a].deleted => id[a] # 0
  <2>1. IdRequest(Target[c], NewRequest(Target[c]))
    BY IdNewRequest
  <2>2. ~NoChanges.deleted
    BY DEF NoChanges
  <2> QED
    BY <1>6, <2>1, <2>2, StealEffect, NewRequestType DEF IdInv
<1>7. ASSUME NEW c \in Calls, Takes(c)
      PROVE  IdInv'
  <2>1. \A d \in Calls : Pending(d)' => d = c \/ Pending(d)
    BY <1>7 DEF Takes, Begins, Pending
  <2>2. \A d \in Calls : Pending(d)' => IdRequest(Target[d], request'[d])
    BY <1>6, <1>7, <2>1 DEF Takes, IdInv
  <2> QED
    BY <1>1, <1>6, <1>7, <2>2 DEF Takes, dataVars, accountVars
<1>8. ASSUME NEW c \in Calls, NEW q \in Requests,
             \E res \in {"ok", "db"} :
               Transaction(c, q, res) /\ Answer(c, res),
             IdRequest(Target[c], q),
             \A a \in Accounts : changes'[a].deleted => id[a] # 0,
             \A d \in Calls : Pending(d)' => Pending(d) /\ d # c,
             \A d \in Calls \ {c} : request'[d] = request[d]
      PROVE  IdInv'
  <2>1. CASE UNCHANGED accountVars
    BY <1>1, <1>8, <2>1 DEF IdInv, accountVars
  <2>2. CASE Commit(Target[c], q)
    <3>1. \A b \in Accounts : id[b] # 0 => id'[b] = id[b]
      BY <1>8, <2>2, IdCommit
    <3>2. \A b \in Accounts : changes'[b].deleted => id'[b] # 0
      BY <1>8, <3>1
    <3>3. ASSUME NEW d \in Calls, Pending(d)'
          PROVE  IdRequest(Target[d], request[d])'
      <4>1. IdRequest(Target[d], request[d]) /\ request'[d] = request[d]
        BY <1>8, <3>3 DEF IdInv
      <4> QED
        BY <3>1, <4>1 DEF IdRequest
    <3>4. /\ \A b \in Accounts : id'[b] < nextRow'
          /\ \A b, d \in Accounts : id'[b] = id'[d] /\ id'[b] # 0 => b = d
          /\ cache'[0] = NoAccount
          /\ \A r \in RowIds : cache'[r] # NoAccount => id'[cache'[r]] = r
          /\ \A r \in removed' : r < nextRow' /\ ~rows'[r].live
      BY <1>8, <2>2, IdCommit
    <3> QED
      BY <3>2, <3>3, <3>4 DEF IdInv
  <2> QED
    BY <1>8, <2>1, <2>2, StoreEffect
<1>9. ASSUME NEW c \in Calls, StoresAtOnce(c)
      PROVE  IdInv'
  <2>1. \A d \in Calls : Pending(d)' => Pending(d) /\ d # c
    BY <1>9 DEF StoresAtOnce, Begins, Pending
  <2> QED
    BY <1>6, <1>8, <1>9, <2>1 DEF StoresAtOnce
<1>10. ASSUME NEW c \in Calls, StoresLate(c)
       PROVE  IdInv'
  <2>1. /\ \A d \in Calls : Pending(d)' => Pending(d) /\ d # c
        /\ Pending(c) /\ UNCHANGED <<changes, request>>
    BY <1>10 DEF StoresLate, Ends, Pending
  <2>2. request[c] \in Requests /\ IdRequest(Target[c], request[c])
    BY <2>1 DEF TypeOK, IdInv
  <2> QED
    BY <1>8, <1>10, <2>1, <2>2 DEF StoresLate, IdInv
<1>11. ASSUME NEW r \in RowIds \ {0}, OtherDeletes(r)
       PROVE  IdInv'
  <2>1. \A i \in RowIds : rows'[i].live => rows[i].live
    BY <1>11, OtherDeletesEffect
  <2>2. /\ UNCHANGED <<id, nextRow, cache, removed, changes, request>>
        /\ \A c \in Calls : Pending(c)' => Pending(c)
        /\ removed \subseteq RowIds
    BY <1>11, OtherDeletesEffect DEF TypeOK
  <2> QED
    BY <2>1, <2>2 DEF IdInv, IdRequest
<1>12. ASSUME NEW a \in Accounts, DeletionArrives(a)
       PROVE  IdInv'
  <2>1. /\ id[a] \in foreign /\ id[a] \in RowIds /\ id[a] # 0
        /\ cache' = [cache EXCEPT ![id[a]] = NoAccount]
        /\ removed' = removed \cup {id[a]}
        /\ UNCHANGED <<id, nextRow, rows, changes, request>>
        /\ \A c \in Calls : Pending(c)' => Pending(c)
        /\ cache \in [RowIds -> Accounts \cup {NoAccount}]
    BY <1>12, DeletionArrivesEffect DEF TypeOK
  <2>2. /\ cache'[0] = NoAccount
        /\ \A r \in RowIds : cache'[r] # NoAccount => cache'[r] = cache[r]
    BY <2>1 DEF IdInv, RowIds
  <2>3. \A r \in removed' : r < nextRow /\ ~rows[r].live
    BY <2>1 DEF IdInv, ForeignInv
  <2> QED
    BY <2>1, <2>2, <2>3 DEF IdInv, IdRequest
<1> QED
  BY <1>2, <1>3, <1>4, <1>5, <1>7, <1>9, <1>10, <1>11, <1>12, Steps

(* If clients never delete an account that was not stored yet, no two      *)
(* account objects of a manager stand for the same row and the hash of     *)
(* accounts finds each object under its own id, even when stores overlap   *)
(* and overtake each other, and whatever another process deletes.          *)
THEOREM IdsStayDistinct ==
  ASSUME "delete_new" \notin Env
  PROVE  Spec => []IdsAreDistinct
<1>1. TypeOK /\ ForeignInv /\ IdInv /\ [Next]_vars => IdInv'
  BY IdNext
<1>2. IdInv => IdsAreDistinct
  BY DEF IdInv, IdsAreDistinct
<1> QED
  BY TypeCorrect, ForeignHolds, IdInit, <1>1, <1>2, PTL DEF Spec

(* Under the same assumption "account-deleted" is emitted only for ids     *)
(* that are not in the database, then and ever after.                      *)
THEOREM DeletionsAreTrue ==
  ASSUME "delete_new" \notin Env
  PROVE  Spec => []DeletedIsTrue
<1>1. TypeOK /\ ForeignInv /\ IdInv /\ [Next]_vars => IdInv'
  BY IdNext
<1>2. IdInv => DeletedIsTrue
  BY DEF IdInv, DeletedIsTrue
<1> QED
  BY TypeCorrect, ForeignHolds, IdInit, <1>1, <1>2, PTL DEF Spec

-----------------------------------------------------------------------------
(***************************************************************************)
(* Each edit is in one place: in the changes of one account, in one        *)
(* request, or in the rows that this request has written.                  *)
(***************************************************************************)

\* The two hold no edit in common.
Apart(v, w) == \A k \in Keys : v[k] = w[k] => v[k] = 0

\* Every edit was made before the next one.
Known(v) == \A k \in Keys : v[k] <= edits

EditsInv ==
  /\ \A a \in Accounts : Known(changes[a].vals)
  /\ \A c \in Calls : Known(request[c].vals)
  /\ \A a, b \in Accounts : a # b => Apart(changes[a].vals, changes[b].vals)
  /\ \A a \in Accounts, c \in Calls : Apart(changes[a].vals, request[c].vals)
  /\ \A c, d \in Calls : c # d => Apart(request[c].vals, request[d].vals)

WrittenInv ==
  /\ \A r \in RowIds : Known(rows[r].vals)
  /\ \A a \in Accounts, r \in RowIds : Apart(changes[a].vals, rows[r].vals)
  /\ \A c \in Calls, r \in RowIds :
       result[c] # "ok" => Apart(request[c].vals, rows[r].vals)

LEMMA ValuesTyped ==
  ASSUME TypeOK
  PROVE  /\ \A a \in Accounts : changes[a].vals \in Values
         /\ \A c \in Calls : request[c].vals \in Values
         /\ \A r \in RowIds : rows[r].vals \in Values
         /\ \A a \in Accounts : mem[a] \in Values /\ lastEdit[a] \in Values
         /\ \A c \in Calls : wanted[c] \in Values
         /\ edits \in Nat
         /\ \A v \in Values, k \in Keys : v[k] \in Nat
BY ConstantsAssumption DEF TypeOK, Changes, Requests, Row, Values

LEMMA EditsInit == Init => EditsInv /\ WrittenInv
<1> SUFFICES ASSUME Init PROVE EditsInv /\ WrittenInv
  OBVIOUS
<1>1. \A a \in Accounts : changes[a].vals = NoValues
  BY DEF Init, NewChanges, NoChanges
<1>2. \A c \in Calls : request[c].vals = NoValues
  BY DEF Init, NoRequest, Request, NoChanges
<1>3. \A r \in RowIds : rows[r].vals = NoValues
  BY DEF Init
<1>4. edits = 0 /\ \A k \in Keys : NoValues[k] = 0
  BY DEF Init, NoValues
<1> QED
  BY <1>1, <1>2, <1>3, <1>4 DEF EditsInv, WrittenInv, Known, Apart

LEMMA EditsEdit ==
  ASSUME TypeOK, EditsInv, WrittenInv,
         NEW a \in Accounts, NEW k \in Keys, Edit(a, k)
  PROVE  EditsInv' /\ WrittenInv'
<1> USE ValuesTyped, EditEffect
<1>1. /\ edits' = edits + 1 /\ edits \in Nat
      /\ UNCHANGED <<request, result, rows>>
      /\ \A b \in Accounts \ {a} : changes'[b] = changes[b]
      /\ changes'[a].vals[k] = edits + 1
      /\ \A j \in Keys \ {k} : changes'[a].vals[j] = changes[a].vals[j]
  BY DEF dataVars, accountVars
<1>2. ASSUME NEW v \in Values, Known(v)
      PROVE  Known(v)' /\ (Apart(changes[a].vals, v)
                             => Apart(changes'[a].vals, v)
                                /\ Apart(v, changes'[a].vals))
  BY <1>1, <1>2 DEF Known, Apart
<1>3. /\ \A b \in Accounts : Known(changes[b].vals)
      /\ \A c \in Calls : Known(request[c].vals)
      /\ \A r \in RowIds : Known(rows[r].vals)
  BY DEF EditsInv, WrittenInv
<1>4. Known(changes[a].vals)'
  BY <1>1, <1>3 DEF Known
<1>5. /\ \A b \in Accounts : Known(changes[b].vals)'
      /\ \A c \in Calls : Known(request[c].vals)'
      /\ \A r \in RowIds : Known(rows[r].vals)'
  BY <1>1, <1>2, <1>3, <1>4
<1>6. ASSUME NEW b \in Accounts, NEW d \in Accounts, b # d
      PROVE  Apart(changes[b].vals, changes[d].vals)'
  <2>1. Apart(changes[b].vals, changes[d].vals)
        /\ Apart(changes[d].vals, changes[b].vals)
    BY <1>6 DEF EditsInv
  <2>2. CASE b = a
    BY <1>1, <1>2, <1>3, <1>6, <2>1, <2>2
  <2>3. CASE d = a
    BY <1>1, <1>2, <1>3, <1>6, <2>1, <2>3
  <2>4. CASE b # a /\ d # a
    BY <1>1, <2>1, <2>4
  <2> QED
    BY <2>2, <2>3, <2>4
<1>7. ASSUME NEW b \in Accounts, NEW v \in Values, Known(v),
             Apart(changes[b].vals, v)
      PROVE  Apart(changes'[b].vals, v)
  BY <1>1, <1>2, <1>7
<1>8. \A b \in Accounts, c \in Calls : Apart(changes[b].vals, request[c].vals)'
  BY <1>1, <1>3, <1>7 DEF EditsInv
<1>9. \A b \in Accounts, r \in RowIds : Apart(changes[b].vals, rows[r].vals)'
  BY <1>1, <1>3, <1>7 DEF WrittenInv
<1>10. EditsInv'
  BY <1>1, <1>5, <1>6, <1>8 DEF EditsInv
<1>11. WrittenInv'
  BY <1>1, <1>5, <1>9 DEF WrittenInv
<1> QED
  BY <1>10, <1>11

LEMMA EditsSteal ==
  ASSUME TypeOK, EditsInv, WrittenInv, NEW c \in Calls, Steal(c),
         UNCHANGED edits
  PROVE  /\ EditsInv'
         /\ \A a \in Accounts, r \in RowIds :
              Apart(changes'[a].vals, rows[r].vals)
         /\ \A r \in RowIds : Apart(request'[c].vals, rows[r].vals)
<1> DEFINE a == Target[c]
<1>1. a \in Accounts
  BY ConstantsAssumption
<1>2. /\ changes'[a].vals = NoValues
      /\ \A b \in Accounts \ {a} : changes'[b] = changes[b]
      /\ request'[c].vals = changes[a].vals
      /\ \A d \in Calls \ {c} : request'[d] = request[d]
  BY <1>1, StealEffect, NewRequestFields DEF NoChanges
<1>3. /\ \A v : Apart(NoValues, v) /\ Apart(v, NoValues)
      /\ Known(NoValues)
  BY ValuesTyped DEF Apart, Known, NoValues
<1>4. \A v, w : Apart(v, w) => Apart(w, v)
  BY DEF Apart
<1>5. \A b \in Accounts : \/ changes'[b].vals = NoValues
                          \/ b # a /\ changes'[b].vals = changes[b].vals
  <2> TAKE b \in Accounts
  <2>1. CASE b = a
    BY <1>2, <2>1
  <2>2. CASE b # a
    BY <1>2, <2>2
  <2> QED
    BY <2>1, <2>2
<1>6. /\ \A b \in Accounts : Known(changes[b].vals)'
      /\ \A d \in Calls : Known(request[d].vals)'
  <2>1. /\ \A b \in Accounts : Known(changes[b].vals)
        /\ \A d \in Calls : Known(request[d].vals)
    BY DEF EditsInv
  <2>2. \A v : Known(v)' <=> Known(v)
    BY DEF Known
  <2> QED
    BY <1>1, <1>2, <1>3, <1>5, <2>1, <2>2
<1>7. \A b, d \in Accounts : b # d
        => Apart(changes'[b].vals, changes'[d].vals)
  BY <1>3, <1>5 DEF EditsInv
<1>8. \A b \in Accounts, d \in Calls : Apart(changes'[b].vals, request'[d].vals)
  <2>1. \A b \in Accounts : b # a => Apart(changes[b].vals, changes[a].vals)
    BY <1>1 DEF EditsInv
  <2>2. \A b \in Accounts, d \in Calls : Apart(changes[b].vals, request[d].vals)
    BY DEF EditsInv
  <2> QED
    BY <1>2, <1>3, <1>5, <2>1, <2>2
<1>9. \A d, e \in Calls : d # e => Apart(request'[d].vals, request'[e].vals)
  <2>1. \A d \in Calls : /\ Apart(changes[a].vals, request[d].vals)
                         /\ Apart(request[d].vals, changes[a].vals)
    BY <1>1, <1>4 DEF EditsInv
  <2>2. \A d, e \in Calls : d # e => Apart(request[d].vals, request[e].vals)
    BY DEF EditsInv
  <2> QED
    BY <1>2, <2>1, <2>2
<1>10. EditsInv'
  BY <1>6, <1>7, <1>8, <1>9 DEF EditsInv
<1>11. \A b \in Accounts, r \in RowIds : Apart(changes[b].vals, rows[r].vals)
  BY DEF WrittenInv
<1> QED
  BY <1>1, <1>2, <1>3, <1>5, <1>10, <1>11

\* A row holds after a commit what it held, or edits of the request.
LEMMA CommitApart ==
  ASSUME TypeOK, NEW a \in Accounts, NEW q \in Requests, Commit(a, q),
         NEW r \in RowIds
  PROVE  /\ \A v : Apart(v, rows[r].vals) /\ Apart(v, q.vals)
                     => Apart(v, rows'[r].vals)
         /\ Known(rows[r].vals) /\ Known(q.vals) => Known(rows'[r].vals)
<1>1. \/ rows'[r].vals = rows[r].vals
      \/ rows'[r].vals = NoValues
      \/ rows'[r].vals = q.vals
      \/ rows'[r].vals = Overlay(rows[r].vals, q.vals)
  <2>1. rows' = RowsAfter(q) /\ (IsInsert(q) => nextRow \in RowIds)
    BY CommitEffect
  <2>2. /\ IsInsert(q) /\ r = nextRow
             => rows'[r] = [live |-> TRUE, vals |-> q.vals]
        /\ q.deleted /\ q.row # 0 /\ r = q.row => rows'[r] = EmptyRow
        /\ ~q.deleted /\ q.row # 0 /\ r = q.row
             => rows'[r].vals = Overlay(rows[r].vals, q.vals)
        /\ ~(IsInsert(q) /\ r = nextRow) /\ ~(q.row # 0 /\ r = q.row)
             => rows'[r] = rows[r]
    BY <2>1, RowAfter
  <2>3. rows'[r] = [live |-> TRUE, vals |-> q.vals] => rows'[r].vals = q.vals
    OBVIOUS
  <2>4. rows'[r] = EmptyRow => rows'[r].vals = NoValues
    BY DEF EmptyRow
  <2> QED
    BY <2>2, <2>3, <2>4
<1> QED
  BY <1>1, ValuesTyped DEF Apart, Known, NoValues, Overlay

\* The rows after call c has run, or failed to run, its request.
LEMMA WrittenStore ==
  ASSUME TypeOK, CallInv, NEW c \in Calls,
         EditsInv', UNCHANGED edits, request'[c] \in Requests,
         \E res \in {"ok", "db"} :
           Transaction(c, request'[c], res) /\ Answer(c, res),
         \A r \in RowIds : Known(rows[r].vals),
         \A a \in Accounts, r \in RowIds :
           Apart(changes'[a].vals, rows[r].vals),
         \A d \in Calls, r \in RowIds :
           d = c \/ result[d] # "ok" => Apart(request'[d].vals, rows[r].vals)
  PROVE  WrittenInv'
<1> DEFINE q == request'[c]
<1>1. /\ \A d \in Calls \ {c} : result'[d] = result[d]
      /\ \/ result'[c] = "ok" /\ Commit(Target[c], q)
         \/ result'[c] = "db" /\ UNCHANGED accountVars
  BY StoreEffect
<1>2. CASE UNCHANGED rows
  <2>1. \A r \in RowIds : Known(rows[r].vals)'
    BY <1>2 DEF Known
  <2> QED
    BY <1>1, <1>2, <2>1 DEF WrittenInv
<1>3. CASE result'[c] = "ok" /\ Commit(Target[c], q)
  <2>1. Target[c] \in Accounts
    BY ConstantsAssumption
  <2>2. ASSUME NEW r \in RowIds
        PROVE  /\ \A v : Apart(v, rows[r].vals) /\ Apart(v, q.vals)
                           => Apart(v, rows'[r].vals)
               /\ Known(rows[r].vals) /\ Known(q.vals) => Known(rows'[r].vals)
    BY <1>3, <2>1, CommitApart
  <2>3. Known(q.vals)
    BY DEF EditsInv, Known
  <2>4. \A r \in RowIds : Known(rows[r].vals)'
    BY <2>2, <2>3 DEF Known
  <2>5. \A a \in Accounts, r \in RowIds : Apart(changes[a].vals, rows[r].vals)'
    BY <2>2 DEF EditsInv
  <2>6. \A d \in Calls, r \in RowIds :
          result'[d] # "ok" => Apart(request'[d].vals, rows'[r].vals)
    BY <1>1, <1>3, <2>2 DEF EditsInv
  <2> QED
    BY <2>4, <2>5, <2>6 DEF WrittenInv
<1> QED
  BY <1>1, <1>2, <1>3 DEF accountVars

LEMMA EditsNext ==
  ASSUME TypeOK, TypeOK', CallInv, EditsInv, WrittenInv, [Next]_vars
  PROVE  EditsInv' /\ WrittenInv'
<1> USE ConstantsAssumption
<1>1. ASSUME UNCHANGED <<edits, request, rows>>,
             \A a \in Accounts : changes'[a].vals = changes[a].vals,
             \A c \in Calls : result[c] = "ok" => result'[c] = "ok"
      PROVE  EditsInv' /\ WrittenInv'
  BY <1>1 DEF EditsInv, WrittenInv, Known
<1>2. CASE Idle
  BY <1>1, <1>2 DEF Idle, dataVars, accountVars
<1>3. ASSUME NEW a \in Accounts, Delete(a)
      PROVE  EditsInv' /\ WrittenInv'
  <2>1. \A b \in Accounts : changes'[b].vals = changes[b].vals
    BY <1>3, DeleteEffect
  <2> QED
    BY <1>1, <1>3, <2>1, DeleteEffect DEF dataVars, accountVars
<1>4. ASSUME NEW c \in Calls, AnswersAtOnce(c) \/ GivesUp(c)
      PROVE  EditsInv' /\ WrittenInv'
  <2>1. /\ UNCHANGED <<edits, changes, request, dataVars>>
        /\ \E x : Answer(c, x)
        /\ result[c] = "none"
    BY <1>4 DEF AnswersAtOnce, GivesUp, Begins, Ends, CallInv
  <2>2. \A d \in Calls : result[d] = "ok" => result'[d] = "ok"
    BY <2>1 DEF Answer, TypeOK
  <2> QED
    BY <1>1, <2>1, <2>2 DEF dataVars, accountVars
<1>5. ASSUME NEW c \in Calls, Takes(c)
      PROVE  EditsInv' /\ WrittenInv'
  <2>1. UNCHANGED <<edits, result, rows>> /\ Steal(c)
    BY <1>5 DEF Takes, Begins, dataVars, accountVars
  <2>2. EditsInv'
    BY <2>1, EditsSteal
  <2>3. /\ \A a \in Accounts, r \in RowIds :
             Apart(changes'[a].vals, rows[r].vals)
        /\ \A r \in RowIds : Apart(request'[c].vals, rows[r].vals)
        /\ \A d \in Calls \ {c} : request'[d] = request[d]
    BY <2>1, EditsSteal, StealEffect
  <2>4. \A r \in RowIds : Known(rows[r].vals)'
    BY <2>1 DEF WrittenInv, Known
  <2> QED
    BY <2>1, <2>2, <2>3, <2>4 DEF WrittenInv
<1>6. ASSUME NEW c \in Calls, StoresAtOnce(c)
      PROVE  EditsInv' /\ WrittenInv'
  <2>1. UNCHANGED edits /\ Steal(c)
    BY <1>6 DEF StoresAtOnce, Begins
  <2>2. EditsInv'
    BY <2>1, EditsSteal
  <2>3. /\ \A a \in Accounts, r \in RowIds :
             Apart(changes'[a].vals, rows[r].vals)
        /\ \A r \in RowIds : Apart(request'[c].vals, rows[r].vals)
        /\ \A d \in Calls \ {c} : request'[d] = request[d]
        /\ request'[c] = NewRequest(Target[c])
    BY <2>1, EditsSteal, StealEffect
  <2>4. request'[c] \in Requests
    BY DEF TypeOK
  <2>5. \A r \in RowIds : Known(rows[r].vals)
    BY DEF WrittenInv
  <2>6. \A d \in Calls, r \in RowIds :
          d = c \/ result[d] # "ok" => Apart(request'[d].vals, rows[r].vals)
    BY <2>3 DEF WrittenInv
  <2>7. \E res \in {"ok", "db"} :
          Transaction(c, request'[c], res) /\ Answer(c, res)
    BY <1>6, <2>3 DEF StoresAtOnce
  <2>8. WrittenInv'
    BY <2>1, <2>2, <2>3, <2>4, <2>5, <2>6, <2>7, WrittenStore
  <2> QED
    BY <2>2, <2>8
<1>7. ASSUME NEW c \in Calls, StoresLate(c)
      PROVE  EditsInv' /\ WrittenInv'
  <2>1. /\ UNCHANGED <<edits, changes, request>>
        /\ result[c] = "none"
    BY <1>7 DEF StoresLate, Ends, CallInv
  <2>2. EditsInv'
    BY <2>1 DEF EditsInv, Known
  <2>3. /\ \A a \in Accounts, r \in RowIds :
             Apart(changes'[a].vals, rows[r].vals)
        /\ \A r \in RowIds : Known(rows[r].vals)
        /\ \A d \in Calls, r \in RowIds :
             d = c \/ result[d] # "ok" => Apart(request'[d].vals, rows[r].vals)
    BY <2>1 DEF WrittenInv
  <2>4. request'[c] \in Requests
    BY DEF TypeOK
  <2>5. \E res \in {"ok", "db"} :
          Transaction(c, request'[c], res) /\ Answer(c, res)
    BY <1>7, <2>1 DEF StoresLate
  <2>6. WrittenInv'
    BY <2>1, <2>2, <2>3, <2>4, <2>5, WrittenStore
  <2> QED
    BY <2>2, <2>6
<1>8. ASSUME NEW r \in RowIds \ {0}, OtherDeletes(r)
      PROVE  EditsInv' /\ WrittenInv'
  <2>1. /\ UNCHANGED <<edits, changes, request, result>>
        /\ \A i \in RowIds : \/ rows'[i] = rows[i]
                            \/ rows'[i].vals = NoValues
    BY <1>8, OtherDeletesEffect
  <2>2. EditsInv'
    BY <2>1 DEF EditsInv, Known
  <2>3. \A v : Apart(v, NoValues)
    BY DEF Apart, NoValues
  <2>4. \A i \in RowIds : Known(rows[i].vals)'
    BY <2>1, ValuesTyped DEF WrittenInv, Known, NoValues
  <2>5. WrittenInv'
    BY <2>1, <2>3, <2>4 DEF WrittenInv
  <2> QED
    BY <2>2, <2>5
<1>9. ASSUME NEW a \in Accounts, DeletionArrives(a)
      PROVE  EditsInv' /\ WrittenInv'
  BY <1>1, <1>9, DeletionArrivesEffect
<1> QED
  BY <1>2, <1>3, <1>4, <1>5, <1>6, <1>7, <1>8, <1>9, EditsEdit, Steps

(* Whatever clients and environment do, nothing of a store that failed or  *)
(* was cancelled is ever in the database: each edit the client made is     *)
(* taken by one store, and a transaction writes all of its request or      *)
(* nothing.                                                                *)
THEOREM FailuresWriteNothing == Spec => []ErrorMeansNotWritten
<1>1. TypeOK /\ TypeOK' /\ CallInv /\ [Next]_vars => CallInv'
  BY CallNext
<1>2. TypeOK /\ TypeOK' /\ CallInv /\ EditsInv /\ WrittenInv /\ [Next]_vars
        => EditsInv' /\ WrittenInv'
  BY EditsNext
<1>3. WrittenInv => ErrorMeansNotWritten
  BY DEF WrittenInv, ErrorMeansNotWritten, Apart
<1> QED
  BY TypeCorrect, CallInit, EditsInit, <1>1, <1>2, <1>3, PTL DEF Spec

-----------------------------------------------------------------------------
(***************************************************************************)
(* Rows and objects, for clients that keep to one store of an account at a *)
(* time.  What may not happen is that a request is carried out on a row    *)
(* that another request has created or deleted since it was made; with one *)
(* request at a time, a request still names the row of its account.        *)
(***************************************************************************)
Held(a) == ~gone[a] \/ \E c \in Calls : Pending(c) /\ Target[c] = a

RowInv ==
  /\ \A a \in Accounts : ~gone[a] => id[a] < nextRow
  /\ \A c, d \in Calls :
       Pending(c) /\ Pending(d) /\ Target[c] = Target[d] => c = d
  /\ \A c \in Calls : Pending(c)
       => /\ request[c].row = id[Target[c]]
          /\ gone[Target[c]] => id[Target[c]] \in foreign
  /\ \A a \in Accounts : id[a] # 0 /\ Ours(a) => rows[id[a]].live
  /\ \A a, b \in Accounts :
       Held(a) /\ Held(b) /\ id[a] = id[b] /\ id[a] # 0 => a = b
  /\ \A r \in RowIds \ foreign : ~rows[r].live => rows[r].vals = NoValues
  /\ \A a \in Accounts : Ours(a) => mem[a] = KeptIn(a)

LEMMA OverlayNone ==
  ASSUME NEW v \in Values
  PROVE  Overlay(NoValues, v) = v
BY DEF Overlay, NoValues, Values

LEMMA RowInit == Init => RowInv
<1> SUFFICES ASSUME Init PROVE RowInv
  OBVIOUS
<1> USE ConstantsAssumption
<1>1. Cardinality(Stored) \in Nat /\ nextRow = Cardinality(Stored) + 1
  BY FS_CardinalityType DEF Init
<1>2. /\ \A a \in Accounts : id[a] \in 0..Cardinality(Stored)
      /\ \A a \in Accounts : id[a] = 0 <=> a \notin Stored
      /\ \A a, b \in Stored : id[a] = id[b] => a = b
  BY DEF Init, StoredIds
<1>3. \A a \in Accounts : id[a] < nextRow
  BY <1>1, <1>2
<1>4. \A r \in RowIds : /\ rows[r].live <=> r \in 1..Cardinality(Stored)
                        /\ rows[r].vals = NoValues
  BY DEF Init
<1>5. \A a \in Accounts : id[a] # 0 => id[a] \in RowIds /\ rows[id[a]].live
  <2>1. Cardinality(Stored) <= MaxRows
    BY DEF Init
  <2>2. \A a \in Accounts : id[a] \in RowIds
    BY <1>1, <1>2, <2>1 DEF RowIds
  <2> QED
    BY <1>1, <1>2, <1>4, <2>2
<1>7. \A c \in Calls : ~Pending(c)
  BY DEF Init, Pending
<1>8. \A a \in Accounts : mem[a] = KeptIn(a)
  BY <1>4, <1>5 DEF Init, KeptIn
<1> QED
  BY <1>2, <1>3, <1>4, <1>5, <1>7, <1>8 DEF RowInv

\* The rows of two accounts in use are apart, and there is none at nextRow.
LEMMA HeldApart ==
  ASSUME TypeOK, ForeignInv, RowInv, NEW a \in Accounts, Held(a)
  PROVE  /\ id[a] # nextRow
         /\ \A b \in Accounts \ {a} :
              Held(b) /\ id[b] # 0 => id[b] # id[a] /\ id[b] # nextRow
<1>1. /\ nextRow \in Nat /\ \A b \in Accounts : id[b] \in Nat
      /\ foreign \subseteq RowIds /\ RowIds \subseteq Nat
  BY ConstantsAssumption DEF TypeOK, RowIds
<1>2. ASSUME NEW b \in Accounts, Held(b)
      PROVE  id[b] # nextRow
  <2>1. id[b] \in foreign \/ ~gone[b]
    BY <1>2 DEF Held, RowInv
  <2>2. id[b] < nextRow
    BY <2>1 DEF ForeignInv, RowInv
  <2> QED
    BY <1>1, <2>2
<1> QED
  BY <1>2 DEF RowInv

\* The facts about one commit that everything below rests on.
LEMMA OrderlyCommit ==
  ASSUME TypeOK, ForeignInv, RowInv, NEW a \in Accounts, NEW q \in Requests,
         q.row = id[a], Held(a), gone[a] => id[a] \in foreign, Commit(a, q)
  PROVE  /\ id[a] # 0 => id'[a] = id[a]
         /\ ~q.deleted => /\ id'[a] # 0
                          /\ Ours(a)' => rows'[id'[a]].live
                          /\ KeptIn(a)' = Overlay(KeptIn(a), q.vals)
         /\ ~q.deleted /\ id[a] = 0 => id'[a] = nextRow
         /\ \A b \in Accounts \ {a} : Held(b) /\ id[b] # 0
              => id[b] # id'[a] \/ q.deleted
         /\ \A b \in Accounts \ {a} : Held(b)
              => /\ id'[b] = id[b]
                 /\ KeptIn(b)' = KeptIn(b)
                 /\ id[b] # 0 => rows'[id[b]].live = rows[id[b]].live
<1> USE ConstantsAssumption
<1>1. /\ q.row \in RowIds /\ q.deleted \in BOOLEAN /\ q.vals \in Values
      /\ id \in [Accounts -> RowIds] /\ nextRow \in Nat
      /\ \A b \in Accounts : id[b] \in Nat
  BY DEF Requests, TypeOK, RowIds
<1>2. /\ IsInsert(q) => nextRow \in RowIds
      /\ rows' = RowsAfter(q)
      /\ id'[a] = IdAfter(a, q)
      /\ \A b \in Accounts \ {a} : id'[b] = id[b]
      /\ foreign' = foreign
      /\ gone'[a] <=> gone[a] \/ q.deleted
  BY CommitEffect
<1>3. \A r \in RowIds :
        /\ IsInsert(q) /\ r = nextRow
             => rows'[r] = [live |-> TRUE, vals |-> q.vals]
        /\ ~q.deleted /\ q.row # 0 /\ r = q.row
             => /\ rows'[r].live = rows[r].live
                /\ rows'[r].vals = Overlay(rows[r].vals, q.vals)
        /\ ~(IsInsert(q) /\ r = nextRow) /\ ~(q.row # 0 /\ r = q.row)
             => rows'[r] = rows[r]
  BY <1>2, RowAfter
<1>4. id[a] # 0 => id'[a] = id[a]
  BY <1>2 DEF IdAfter
<1>5. ~q.deleted /\ id[a] = 0 => IsInsert(q) /\ id'[a] = nextRow
  BY <1>2 DEF IdAfter, LastIdAfter, IsInsert
<1>6. nextRow # 0
  BY DEF TypeOK
<1>7. ASSUME ~q.deleted
      PROVE  /\ id'[a] # 0
             /\ Ours(a)' => rows'[id'[a]].live
             /\ KeptIn(a)' = Overlay(KeptIn(a), q.vals)
  <2>1. CASE id[a] = 0
    <3>1. id'[a] = nextRow /\ rows'[nextRow] = [live |-> TRUE, vals |-> q.vals]
      BY <1>2, <1>3, <1>5, <1>7, <2>1
    <3>2. rows'[id'[a]].live /\ rows'[id'[a]].vals = q.vals
      BY <3>1
    <3> QED
      BY <1>1, <1>6, <2>1, <3>1, <3>2, OverlayNone DEF KeptIn
  <2>2. CASE id[a] # 0
    <3>1. /\ rows'[id[a]].live = rows[id[a]].live
          /\ rows'[id[a]].vals = Overlay(rows[id[a]].vals, q.vals)
      BY <1>1, <1>3, <1>7, <2>2
    <3>2. Ours(a)' => rows[id[a]].live
      BY <1>2, <1>4, <2>2 DEF RowInv, Ours
    <3> QED
      BY <1>4, <2>2, <3>1, <3>2 DEF KeptIn
  <2> QED
    BY <2>1, <2>2
<1>8. ASSUME NEW b \in Accounts \ {a}, Held(b), id[b] # 0
      PROVE  /\ id[b] # id'[a] \/ q.deleted
             /\ rows'[id[b]] = rows[id[b]]
  <2>1. id[b] # nextRow /\ id[b] # id[a]
    BY <1>8, HeldApart
  <2>2. rows'[id[b]] = rows[id[b]]
    BY <1>1, <1>3, <2>1
  <2>3. id[b] # id'[a] \/ q.deleted
    BY <1>1, <1>4, <1>5, <2>1
  <2> QED
    BY <2>2, <2>3
<1>9. ASSUME NEW b \in Accounts \ {a}, Held(b)
      PROVE  /\ id'[b] = id[b]
             /\ KeptIn(b)' = KeptIn(b)
             /\ id[b] # 0 => rows'[id[b]].live = rows[id[b]].live
  BY <1>2, <1>8, <1>9 DEF KeptIn
<1> QED
  BY <1>4, <1>5, <1>7, <1>8, <1>9

LEMMA RowCommit ==
  ASSUME TypeOK, ForeignInv, RowInv, NEW c \in Calls, NEW q \in Requests,
         q.row = id[Target[c]], Held(Target[c]),
         gone[Target[c]] => id[Target[c]] \in foreign,
         Commit(Target[c], q), ForeignInv',
         \A d \in Calls : Pending(d)' => Pending(d) /\ Target[d] # Target[c],
         \A d \in Calls \ {c} : request'[d] = request[d]
  PROVE  RowInv'
<1> USE ConstantsAssumption
<1> DEFINE a == Target[c]
<1>0. a \in Accounts
  OBVIOUS
<1> HIDE DEF a
<1>h. /\ q.row = id[a] /\ Held(a) /\ Commit(a, q)
      /\ gone[a] => id[a] \in foreign
  BY DEF a
<1>1. /\ q.row \in RowIds /\ q.deleted \in BOOLEAN /\ q.vals \in Values
      /\ nextRow \in Nat /\ nextRow # 0
      /\ \A b \in Accounts : id[b] \in Nat
      /\ foreign \subseteq RowIds \ {0} /\ RowIds \subseteq Nat
  BY DEF Requests, TypeOK, RowIds
<1>2. /\ IsInsert(q) => nextRow \in RowIds
      /\ nextRow' = IF IsInsert(q) THEN nextRow + 1 ELSE nextRow
      /\ rows' = RowsAfter(q)
      /\ id'[a] = IdAfter(a, q)
      /\ \A b \in Accounts \ {a} : id'[b] = id[b]
      /\ mem'[a] = Overlay(mem[a], q.vals)
      /\ \A b \in Accounts \ {a} : mem'[b] = mem[b]
      /\ gone'[a] <=> gone[a] \/ q.deleted
      /\ \A b \in Accounts \ {a} : gone'[b] = gone[b]
      /\ foreign' = foreign
  BY <1>0, <1>h, CommitEffect
<1>3. /\ id[a] # 0 => id'[a] = id[a]
      /\ ~q.deleted => /\ id'[a] # 0
                       /\ Ours(a)' => rows'[id'[a]].live
                       /\ KeptIn(a)' = Overlay(KeptIn(a), q.vals)
      /\ ~q.deleted /\ id[a] = 0 => id'[a] = nextRow
      /\ \A b \in Accounts \ {a} : Held(b)
           => /\ id'[b] = id[b]
              /\ KeptIn(b)' = KeptIn(b)
              /\ id[b] # 0 => rows'[id[b]].live = rows[id[b]].live
  BY <1>0, <1>h, OrderlyCommit
<1>4. /\ id[a] # nextRow
      /\ \A b \in Accounts \ {a} :
           Held(b) /\ id[b] # 0 => id[b] # id[a] /\ id[b] # nextRow
  BY <1>0, <1>h, HeldApart
<1>5. ~q.deleted /\ id[a] = 0 => IsInsert(q)
  BY <1>h DEF IsInsert
<1>6. ASSUME NEW b \in Accounts, ~gone'[b]
      PROVE  id'[b] < nextRow'
  <2>1. ~gone[b] /\ id[b] \in Nat /\ id[b] < nextRow /\ (b = a => ~q.deleted)
    BY <1>1, <1>2, <1>6 DEF RowInv
  <2>2. CASE b # a \/ id[b] # 0
    BY <1>1, <1>2, <1>3, <2>1, <2>2
  <2>3. CASE b = a /\ id[a] = 0
    BY <1>1, <1>2, <1>3, <1>5, <2>1, <2>3
  <2> QED
    BY <2>2, <2>3
<1>7. \A d \in Calls : Pending(d)'
        => /\ request'[d].row = id'[Target[d]]
           /\ gone'[Target[d]] => id'[Target[d]] \in foreign'
  <2> SUFFICES ASSUME NEW d \in Calls, Pending(d)'
               PROVE  /\ request'[d].row = id'[Target[d]]
                      /\ gone'[Target[d]] => id'[Target[d]] \in foreign'
    OBVIOUS
  <2>1. Pending(d) /\ Target[d] \in Accounts \ {a} /\ d # c
    BY DEF a
  <2>2. /\ request[d].row = id[Target[d]]
        /\ gone[Target[d]] => id[Target[d]] \in foreign
    BY <2>1 DEF RowInv
  <2> QED
    BY <1>2, <2>1, <2>2
<1>8. \A b \in Accounts : ~gone'[b] => ~gone[b] /\ (b = a => ~q.deleted)
  BY <1>0, <1>2, <1>h
<1>9. ASSUME NEW b \in Accounts, id'[b] # 0, Ours(b)'
      PROVE  rows'[id'[b]].live
  <2>1. ~gone[b] /\ (b = a => ~q.deleted) /\ id'[b] \notin foreign
    BY <1>2, <1>8, <1>9 DEF Ours
  <2>2. CASE b = a
    BY <1>3, <1>9, <2>1, <2>2
  <2>3. CASE b # a
    <3>1. id'[b] = id[b] /\ rows'[id[b]].live = rows[id[b]].live
      BY <1>2, <1>3, <1>9, <2>1, <2>3 DEF Held
    <3> QED
      BY <1>9, <2>1, <3>1 DEF RowInv, Ours
  <2> QED
    BY <2>2, <2>3
<1>10. ASSUME NEW b \in Accounts, NEW d \in Accounts, Held(b)', Held(d)',
              id'[b] = id'[d], id'[b] # 0
       PROVE  b = d
  <2>1. ASSUME NEW e \in Accounts, Held(e)'
        PROVE  Held(e) /\ (e = a => ~q.deleted)
    <3>1. CASE ~gone'[e]
      BY <1>8, <3>1 DEF Held
    <3>2. ASSUME NEW f \in Calls, Pending(f)', Target[f] = e
          PROVE  Held(e) /\ e # a
      BY <3>2 DEF Held, a
    <3> QED
      BY <2>1, <3>1, <3>2 DEF Held
  <2>2. Held(b) /\ Held(d)
    BY <1>10, <2>1
  <2>3. CASE b # a /\ d # a
    BY <1>2, <1>10, <2>2, <2>3 DEF RowInv
  <2>4. ASSUME NEW e \in Accounts \ {a}, Held(e), Held(a)'
        PROVE  id'[e] # id'[a] \/ id'[e] = 0
    <3>1. id'[a] \in {id[a], nextRow}
      BY <1>0, <1>3, <2>1, <2>4
    <3> QED
      BY <1>2, <1>4, <2>4, <3>1
  <2> QED
    BY <1>10, <2>2, <2>3, <2>4
<1>11. ASSUME NEW r \in RowIds, r \notin foreign', ~rows'[r].live
       PROVE  rows'[r].vals = NoValues
  <2>1. /\ IsInsert(q) /\ r = nextRow
             => rows'[r] = [live |-> TRUE, vals |-> q.vals]
        /\ q.deleted /\ q.row # 0 /\ r = q.row => rows'[r] = EmptyRow
        /\ ~q.deleted /\ q.row # 0 /\ r = q.row => rows'[r].live = rows[r].live
        /\ ~(IsInsert(q) /\ r = nextRow) /\ ~(q.row # 0 /\ r = q.row)
             => rows'[r] = rows[r]
    BY <1>2, RowAfter
  <2>2. ~rows[r].live => rows[r].vals = NoValues
    BY <1>2, <1>11 DEF RowInv
  <2>3. CASE IsInsert(q) /\ r = nextRow
    BY <1>11, <2>1, <2>3
  <2>4. CASE q.deleted /\ q.row # 0 /\ r = q.row
    BY <2>1, <2>4 DEF EmptyRow
  <2>5. CASE ~q.deleted /\ q.row # 0 /\ r = q.row
    <3>1. Ours(a) /\ id[a] # 0 /\ r = id[a]
      BY <1>2, <1>11, <1>h, <2>5 DEF Ours
    <3>2. rows[r].live
      BY <1>0, <3>1 DEF RowInv
    <3> QED
      BY <1>11, <2>1, <2>5, <3>2
  <2>6. CASE ~(IsInsert(q) /\ r = nextRow) /\ ~(q.row # 0 /\ r = q.row)
    BY <1>11, <2>1, <2>2, <2>6
  <2> QED
    BY <1>1, <2>3, <2>4, <2>5, <2>6
<1>12. ASSUME NEW b \in Accounts, Ours(b)'
       PROVE  mem'[b] = KeptIn(b)'
  <2>1. ~gone[b] /\ (b = a => ~q.deleted) /\ id'[b] \notin foreign
    BY <1>2, <1>8, <1>12 DEF Ours
  <2>2. Ours(b) /\ Held(b)
    BY <1>1, <1>2, <1>3, <2>1 DEF Ours, Held
  <2>3. mem[b] = KeptIn(b)
    BY <2>2 DEF RowInv
  <2> QED
    BY <1>2, <1>3, <2>1, <2>2, <2>3
<1>13. \A d, e \in Calls :
         Pending(d)' /\ Pending(e)' /\ Target[d] = Target[e] => d = e
  BY DEF RowInv
<1> QED
  BY <1>6, <1>7, <1>9, <1>10, <1>11, <1>12, <1>13 DEF RowInv

LEMMA RowNext ==
  ASSUME TypeOK, TypeOK', ForeignInv, ForeignInv', RowInv, Orderly,
         [Next]_vars
  PROVE  RowInv'
<1> USE ConstantsAssumption
<1>1. ASSUME UNCHANGED accountVars,
             \A d, e \in Calls :
               Pending(d)' /\ Pending(e)' /\ Target[d] = Target[e] => d = e,
             \A d \in Calls : Pending(d)'
               => /\ request'[d].row = id[Target[d]]
                  /\ gone[Target[d]] => Pending(d) /\ id[Target[d]] \in foreign
      PROVE  RowInv'
  <2>1. \A a \in Accounts : Held(a)' => Held(a)
    BY <1>1 DEF Held, accountVars
  <2> QED
    BY <1>1, <2>1 DEF RowInv, accountVars, KeptIn, Ours
<1>2. ASSUME UNCHANGED <<request, accountVars>>,
             \A d \in Calls : Pending(d)' => Pending(d)
      PROVE  RowInv'
  BY <1>1, <1>2 DEF RowInv
<1>3. CASE Idle
  BY <1>2, <1>3 DEF Idle, dataVars
<1>4. ASSUME NEW a \in Accounts, Delete(a) \/ \E k \in Keys : Edit(a, k)
      PROVE  RowInv'
  BY <1>2, <1>4 DEF Delete, Edit, callVars, Pending, dataVars
<1>5. ASSUME NEW c \in Calls, AnswersAtOnce(c) \/ GivesUp(c)
      PROVE  RowInv'
  <2>1. \A d \in Calls : Pending(d)' => Pending(d)
    BY <1>5 DEF AnswersAtOnce, GivesUp, Begins, Ends, Pending
  <2> QED
    BY <1>2, <1>5, <2>1 DEF AnswersAtOnce, GivesUp, Ends, dataVars
<1>6. ASSUME NEW c \in Calls, Takes(c)
      PROVE  RowInv'
  <2>1. /\ \A d \in Calls : Pending(d)' => d = c \/ Pending(d)
        /\ \A d \in Calls : Pending(d) => Target[d] # Target[c]
    BY <1>6 DEF Takes, Begins, Alone, Pending
  <2>2. /\ request'[c].row = id[Target[c]] /\ ~gone[Target[c]]
        /\ \A d \in Calls \ {c} : request'[d] = request[d]
    BY <1>6, StealEffect, NewRequestFields DEF Takes
  <2>3. \A d, e \in Calls :
          Pending(d)' /\ Pending(e)' /\ Target[d] = Target[e] => d = e
    BY <2>1 DEF RowInv
  <2>4. \A d \in Calls : Pending(d)'
          => /\ request'[d].row = id[Target[d]]
             /\ gone[Target[d]] => Pending(d) /\ id[Target[d]] \in foreign
    BY <2>1, <2>2 DEF RowInv
  <2> QED
    BY <1>1, <1>6, <2>3, <2>4 DEF Takes, dataVars
<1>7. ASSUME NEW c \in Calls, NEW q \in Requests,
             \E res \in {"ok", "db"} :
               Transaction(c, q, res) /\ Answer(c, res),
             q.row = id[Target[c]], Held(Target[c]),
             gone[Target[c]] => id[Target[c]] \in foreign,
             \A d \in Calls : Pending(d)' => Pending(d) /\ Target[d] # Target[c],
             \A d \in Calls \ {c} : request'[d] = request[d]
      PROVE  RowInv'
  <2>1. CASE UNCHANGED accountVars
    BY <1>1, <1>7, <2>1 DEF RowInv
  <2>2. CASE Commit(Target[c], q)
    BY <1>7, <2>2, RowCommit
  <2> QED
    BY <1>7, <2>1, <2>2, StoreEffect
<1>8. ASSUME NEW c \in Calls, StoresAtOnce(c)
      PROVE  RowInv'
  <2>1. \A d \in Calls : Pending(d)' => Pending(d) /\ Target[d] # Target[c]
    BY <1>8 DEF StoresAtOnce, Begins, Alone, Pending
  <2>2. /\ NewRequest(Target[c]).row = id[Target[c]]
        /\ NewRequest(Target[c]) \in Requests
        /\ \A d \in Calls \ {c} : request'[d] = request[d]
    BY <1>8, StealEffect, NewRequestFields, NewRequestType DEF StoresAtOnce
  <2>3. ~gone[Target[c]] /\ Held(Target[c])
    BY <1>8 DEF StoresAtOnce, Held
  <2> QED
    BY <1>7, <1>8, <2>1, <2>2, <2>3 DEF StoresAtOnce
<1>9. ASSUME NEW c \in Calls, StoresLate(c)
      PROVE  RowInv'
  <2>1. /\ \A d \in Calls : Pending(d)' => Pending(d) /\ d # c
        /\ Pending(c) /\ UNCHANGED request
    BY <1>9 DEF StoresLate, Ends, Pending
  <2>2. \A d \in Calls : Pending(d)' => Pending(d) /\ Target[d] # Target[c]
    BY <2>1 DEF RowInv
  <2>3. /\ request[c].row = id[Target[c]] /\ Held(Target[c])
        /\ gone[Target[c]] => id[Target[c]] \in foreign
        /\ request[c] \in Requests
    BY <2>1 DEF RowInv, TypeOK, Held
  <2> QED
    BY <1>7, <1>9, <2>1, <2>2, <2>3 DEF StoresLate
<1>10. ASSUME NEW r \in RowIds \ {0}, OtherDeletes(r)
       PROVE  RowInv'
  <2>1. /\ rows'[r].vals = NoValues
        /\ \A i \in RowIds \ {r} : rows'[i] = rows[i]
        /\ foreign' = foreign \cup {r}
        /\ \A c \in Calls : Pending(c)' <=> Pending(c)
        /\ UNCHANGED <<request, id, mem, gone, nextRow>>
        /\ \A a \in Accounts : id[a] \in RowIds
    BY <1>10, OtherDeletesEffect DEF TypeOK
  <2>2. \A a \in Accounts :
          /\ Held(a)' <=> Held(a)
          /\ Ours(a)' => /\ Ours(a)
                         /\ id[a] # 0 => rows'[id[a]] = rows[id[a]]
                         /\ KeptIn(a)' = KeptIn(a)
    BY <2>1 DEF Held, Ours, KeptIn
  <2> QED
    BY <2>1, <2>2 DEF RowInv
<1>11. ASSUME NEW a \in Accounts, DeletionArrives(a)
       PROVE  RowInv'
  <2>1. /\ id[a] \in foreign
        /\ gone'[a] /\ \A b \in Accounts \ {a} : gone'[b] = gone[b]
        /\ \A c \in Calls : Pending(c)' <=> Pending(c)
        /\ UNCHANGED <<request, id, mem, rows, nextRow, foreign>>
    BY <1>11, DeletionArrivesEffect
  <2>2. \A b \in Accounts : /\ Held(b)' => Held(b)
                            /\ Ours(b)' => Ours(b)
                            /\ ~gone'[b] => ~gone[b]
    BY <2>1 DEF Held, Ours
  <2>3. \A c \in Calls : Pending(c)'
          => /\ request'[c].row = id'[Target[c]]
             /\ gone'[Target[c]] => id'[Target[c]] \in foreign'
    BY <2>1 DEF RowInv
  <2>4. \A b \in Accounts : KeptIn(b)' = KeptIn(b)
    BY <2>1 DEF KeptIn
  <2> QED
    BY <2>1, <2>2, <2>3, <2>4 DEF RowInv
<1> QED
  BY <1>3, <1>4, <1>5, <1>6, <1>8, <1>9, <1>10, <1>11, Steps

\* What a client that keeps to one store of an account at a time gives.
OrderlyInv == GuardInv /\ CallInv /\ ForeignInv /\ OrphanInv /\ RowInv

LEMMA OrderlyInit == Init => OrderlyInv
BY GuardInit, CallInit, ForeignInit, RowInit DEF OrderlyInv

LEMMA OrderlyNext ==
  ASSUME TypeOK, TypeOK', OrderlyInv, [Next]_vars,
         "reuse" \notin Env, "overtake" \notin Env
  PROVE  OrderlyInv'
<1>1. Orderly
  BY DEF Orderly, OrderlyInv
<1>2. ForeignInv' /\ OrphanInv'
  BY ForeignNext DEF OrderlyInv
<1> QED
  BY <1>1, <1>2, GuardNext, CallNext, RowNext DEF OrderlyInv

LEMMA OrderlyHolds ==
  ASSUME "reuse" \notin Env, "overtake" \notin Env
  PROVE  Spec => []OrderlyInv
<1>1. TypeOK /\ TypeOK' /\ OrderlyInv /\ [Next]_vars => OrderlyInv'
  BY OrderlyNext
<1> QED
  BY TypeCorrect, OrderlyInit, <1>1, PTL DEF Spec

(* If clients keep to one store of an account at a time, what an account   *)
(* object shows is what its row in the database holds, whatever fails,     *)
(* until another process deletes that row.                                 *)
THEOREM ObjectsMatchDatabase ==
  ASSUME "reuse" \notin Env, "overtake" \notin Env
  PROVE  Spec => []MemoryMatchesDatabase
<1>1. OrderlyInv => MemoryMatchesDatabase
  BY DEF OrderlyInv, RowInv, MemoryMatchesDatabase, KeptIn
<1> QED
  BY OrderlyHolds, <1>1, PTL

(* Under the same assumptions settings without an account are left behind  *)
(* only where another process has deleted the row, and they are what a     *)
(* store has written there since and answered with success.                *)
THEOREM SettingsHaveAccounts ==
  ASSUME "reuse" \notin Env, "overtake" \notin Env
  PROVE  Spec => []NoOrphanSettings
<1>1. OrderlyInv => NoOrphanSettings
  <2> SUFFICES ASSUME OrderlyInv, NEW r \in RowIds, NEW k \in Keys,
                      ~rows[r].live, rows[r].vals[k] # 0
               PROVE  /\ r \in foreign
                      /\ \E c \in Calls :
                           /\ result[c] = "ok"
                           /\ request[c].row = r
                           /\ request[c].vals[k] = rows[r].vals[k]
    BY DEF NoOrphanSettings
  <2>1. r \in foreign
    BY DEF OrderlyInv, RowInv, NoValues
  <2> QED
    BY <2>1 DEF OrderlyInv, OrphanInv
<1> QED
  BY OrderlyHolds, <1>1, PTL

-----------------------------------------------------------------------------
(***************************************************************************)
(* The order of the edits: what a store is about to write is later than    *)
(* what the database holds, and what the client has changed since is later *)
(* still.                                                                  *)
(***************************************************************************)
Later(new, old) == \A k \in Keys : new[k] # 0 => new[k] > old[k]

OrderInv ==
  /\ \A a \in Accounts : ~gone[a] => Later(changes[a].vals, KeptIn(a))
  /\ \A c \in Calls : Pending(c) =>
       /\ Later(request[c].vals, KeptIn(Target[c]))
       /\ Later(changes[Target[c]].vals, request[c].vals)

LEMMA LaterOverlay ==
  ASSUME NEW v, NEW w, NEW u, Later(v, w), Later(v, u)
  PROVE  Later(v, Overlay(w, u))
BY DEF Later, Overlay

LEMMA LaterNone == ASSUME NEW v PROVE Later(NoValues, v)
BY DEF Later, NoValues

LEMMA KeptType ==
  ASSUME TypeOK, NEW a \in Accounts
  PROVE  KeptIn(a) \in Values
BY NoValuesType DEF TypeOK, KeptIn, Row

LEMMA OrderInit == Init => OrderInv
<1> SUFFICES ASSUME Init PROVE OrderInv
  OBVIOUS
<1>1. \A a \in Accounts : changes[a].vals = NoValues
  BY DEF Init, NewChanges, NoChanges
<1>2. \A c \in Calls : ~Pending(c)
  BY DEF Init, Pending
<1> QED
  BY <1>1, <1>2, LaterNone DEF OrderInv

LEMMA OrderEdit ==
  ASSUME TypeOK, EditsInv, WrittenInv, OrderInv,
         NEW a \in Accounts, NEW k \in Keys, Edit(a, k)
  PROVE  OrderInv'
<1>1. /\ edits' = edits + 1 /\ edits \in Nat
      /\ changes'[a].vals[k] = edits + 1
      /\ \A j \in Keys \ {k} : changes'[a].vals[j] = changes[a].vals[j]
      /\ \A b \in Accounts \ {a} : changes'[b] = changes[b]
      /\ UNCHANGED <<status, request, id, gone, rows>>
  BY EditEffect, ValuesTyped DEF dataVars, accountVars
<1>2. \A b \in Accounts : KeptIn(b)' = KeptIn(b)
  BY <1>1 DEF KeptIn
<1>3. ASSUME NEW v \in Values, Known(v), Later(changes[a].vals, v)
      PROVE  Later(changes'[a].vals, v)
  BY <1>1, <1>3, ValuesTyped DEF Known, Later
<1>4. \A b \in Accounts : Known(KeptIn(b))
  <2>1. Known(NoValues)
    BY ValuesTyped DEF Known, NoValues
  <2>2. \A b \in Accounts : id[b] \in RowIds
    BY DEF TypeOK
  <2> QED
    BY <2>1, <2>2 DEF KeptIn, WrittenInv
<1>5. \A c \in Calls : Known(request[c].vals) /\ request[c].vals \in Values
  BY ValuesTyped DEF EditsInv
<1>6. \A b \in Accounts : ~gone'[b] => Later(changes'[b].vals, KeptIn(b)')
  <2> TAKE b \in Accounts
  <2> HAVE ~gone'[b]
  <2>1. Later(changes[b].vals, KeptIn(b)) /\ KeptIn(b)' = KeptIn(b)
    BY <1>1, <1>2 DEF OrderInv
  <2>2. CASE b = a
    BY <1>3, <1>4, <2>1, <2>2, KeptType
  <2>3. CASE b # a
    BY <1>1, <2>1, <2>3
  <2> QED
    BY <2>2, <2>3
<1>7. ASSUME NEW c \in Calls, Pending(c)'
      PROVE  /\ Later(request'[c].vals, KeptIn(Target[c])')
             /\ Later(changes'[Target[c]].vals, request'[c].vals)
  <2>1. Pending(c) /\ Target[c] \in Accounts
    BY <1>1, <1>7, ConstantsAssumption DEF Pending
  <2>2. /\ Later(request[c].vals, KeptIn(Target[c]))
        /\ Later(changes[Target[c]].vals, request[c].vals)
    BY <2>1 DEF OrderInv
  <2>3. Later(request'[c].vals, KeptIn(Target[c])')
    BY <1>1, <1>2, <2>1, <2>2
  <2>4. CASE Target[c] = a
    BY <1>1, <1>3, <1>5, <2>2, <2>3, <2>4
  <2>5. CASE Target[c] # a
    BY <1>1, <2>1, <2>2, <2>3, <2>5
  <2> QED
    BY <2>4, <2>5
<1> QED
  BY <1>6, <1>7 DEF OrderInv

\* One commit: its request is later than the row, and the changes that
\* remain are later than both.
LEMMA OrderCommit ==
  ASSUME TypeOK, ForeignInv, RowInv, NEW c \in Calls, NEW q \in Requests,
         q.row = id[Target[c]], Held(Target[c]),
         gone[Target[c]] => id[Target[c]] \in foreign, Commit(Target[c], q),
         \A d \in Calls : Pending(d)' => Pending(d) /\ Target[d] # Target[c],
         \A d \in Calls \ {c} : request'[d] = request[d],
         \A a \in Accounts : ~gone[a] => Later(changes'[a].vals, KeptIn(a)),
         Later(changes'[Target[c]].vals, q.vals),
         \A d \in Calls : Pending(d)' =>
           /\ Later(request[d].vals, KeptIn(Target[d]))
           /\ Later(changes'[Target[d]].vals, request[d].vals)
  PROVE  OrderInv'
<1> DEFINE a == Target[c]
<1>1. a \in Accounts
  BY ConstantsAssumption
<1>2. /\ ~q.deleted => KeptIn(a)' = Overlay(KeptIn(a), q.vals)
      /\ \A b \in Accounts \ {a} : Held(b) => KeptIn(b)' = KeptIn(b)
  BY <1>1, OrderlyCommit
<1>3. /\ gone'[a] <=> gone[a] \/ q.deleted
      /\ \A b \in Accounts \ {a} : gone'[b] = gone[b]
  BY <1>1, CommitEffect
<1>4. ASSUME NEW b \in Accounts, ~gone'[b]
      PROVE  Later(changes'[b].vals, KeptIn(b)')
  <2>1. CASE b = a
    <3>1. ~q.deleted /\ ~gone[a]
      BY <1>3, <1>4, <2>1
    <3> QED
      BY <1>1, <1>2, <2>1, <3>1, LaterOverlay
  <2>2. CASE b # a
    BY <1>2, <1>3, <1>4, <2>2 DEF Held
  <2> QED
    BY <2>1, <2>2
<1>5. ASSUME NEW d \in Calls, Pending(d)'
      PROVE  /\ Later(request'[d].vals, KeptIn(Target[d])')
             /\ Later(changes'[Target[d]].vals, request'[d].vals)
  <2>1. /\ Pending(d) /\ Target[d] \in Accounts \ {a} /\ d # c
        /\ Held(Target[d])
    BY <1>5, ConstantsAssumption DEF Held
  <2> QED
    BY <1>2, <1>5, <2>1
<1> QED
  BY <1>4, <1>5 DEF OrderInv

\* The same three facts at the start of both kinds of transaction.
LEMMA OrderSteal ==
  ASSUME TypeOK, RowInv, OrderInv, NEW c \in Calls, Steal(c), Alone(c),
         ~gone[Target[c]], \A d \in Calls : Pending(d)' => Pending(d) \/ d = c
  PROVE  /\ \A a \in Accounts : ~gone[a] => Later(changes'[a].vals, KeptIn(a))
         /\ \A d \in Calls : Pending(d)' \/ d = c =>
              /\ Later(request'[d].vals, KeptIn(Target[d]))
              /\ Later(changes'[Target[d]].vals, request'[d].vals)
<1> DEFINE a == Target[c]
<1>1. a \in Accounts
  BY ConstantsAssumption
<1>2. /\ changes'[a].vals = NoValues
      /\ \A b \in Accounts \ {a} : changes'[b] = changes[b]
      /\ request'[c].vals = changes[a].vals
      /\ \A d \in Calls \ {c} : request'[d] = request[d]
  BY <1>1, StealEffect, NewRequestFields DEF NoChanges
<1>3. \A b \in Accounts : ~gone[b] => Later(changes'[b].vals, KeptIn(b))
  <2> TAKE b \in Accounts
  <2>1. CASE b = a
    BY <1>2, <2>1, LaterNone
  <2>2. CASE b # a
    BY <1>2, <2>2 DEF OrderInv
  <2> QED
    BY <2>1, <2>2
<1>4. ASSUME NEW d \in Calls, Pending(d)' \/ d = c
      PROVE  /\ Later(request'[d].vals, KeptIn(Target[d]))
             /\ Later(changes'[Target[d]].vals, request'[d].vals)
  <2>1. CASE d = c
    BY <1>1, <1>2, <2>1, LaterNone DEF OrderInv
  <2>2. CASE d # c
    <3>1. Pending(d) /\ Target[d] \in Accounts \ {a}
      BY <1>4, <2>2, ConstantsAssumption DEF Alone
    <3> QED
      BY <1>2, <2>2, <3>1 DEF OrderInv
  <2> QED
    BY <2>1, <2>2
<1> QED
  BY <1>3, <1>4

LEMMA OrderNext ==
  ASSUME TypeOK, Orderly, ForeignInv, RowInv, EditsInv, WrittenInv, OrderInv,
         [Next]_vars
  PROVE  OrderInv'
<1> USE ConstantsAssumption
<1>1. ASSUME UNCHANGED <<request, accountVars>>,
             \A a \in Accounts : changes'[a].vals = changes[a].vals,
             \A d \in Calls : Pending(d)' => Pending(d)
      PROVE  OrderInv'
  BY <1>1 DEF OrderInv, accountVars, KeptIn
<1>2. CASE Idle
  BY <1>1, <1>2 DEF Idle, dataVars
<1>3. ASSUME NEW a \in Accounts, Delete(a)
      PROVE  OrderInv'
  <2>1. \A b \in Accounts : changes'[b].vals = changes[b].vals
    BY <1>3, DeleteEffect
  <2> QED
    BY <1>1, <1>3, <2>1, DeleteEffect DEF Pending, dataVars
<1>4. ASSUME NEW c \in Calls, AnswersAtOnce(c) \/ GivesUp(c)
      PROVE  OrderInv'
  <2>1. /\ \A d \in Calls : Pending(d)' => Pending(d)
        /\ UNCHANGED <<changes, request, dataVars>>
    BY <1>4 DEF AnswersAtOnce, GivesUp, Begins, Ends, Pending
  <2> QED
    BY <1>1, <2>1 DEF dataVars
<1>5. ASSUME NEW c \in Calls, Takes(c)
      PROVE  OrderInv'
  <2>1. \A d \in Calls : Pending(d)' => Pending(d) \/ d = c
    BY <1>5 DEF Takes, Begins, Pending
  <2>2. UNCHANGED <<id, gone, rows>>
    BY <1>5 DEF Takes, dataVars, accountVars
  <2>3. /\ \A a \in Accounts : ~gone[a] => Later(changes'[a].vals, KeptIn(a))
        /\ \A d \in Calls : Pending(d)' =>
             /\ Later(request'[d].vals, KeptIn(Target[d]))
             /\ Later(changes'[Target[d]].vals, request'[d].vals)
    BY <1>5, <2>1, OrderSteal DEF Takes
  <2> QED
    BY <2>2, <2>3 DEF OrderInv, KeptIn
<1>6. ASSUME NEW c \in Calls, StoresAtOnce(c)
      PROVE  OrderInv'
  <2> DEFINE q == NewRequest(Target[c])
  <2>1. \A d \in Calls : Pending(d)' => Pending(d) /\ Target[d] # Target[c]
    BY <1>6 DEF StoresAtOnce, Begins, Alone, Pending
  <2>2. /\ q.row = id[Target[c]] /\ q \in Requests /\ q = request'[c]
        /\ \A d \in Calls \ {c} : request'[d] = request[d]
    BY <1>6, StealEffect, NewRequestFields, NewRequestType DEF StoresAtOnce
  <2>3. /\ \A a \in Accounts : ~gone[a] => Later(changes'[a].vals, KeptIn(a))
        /\ \A d \in Calls : Pending(d)' \/ d = c =>
             /\ Later(request'[d].vals, KeptIn(Target[d]))
             /\ Later(changes'[Target[d]].vals, request'[d].vals)
    BY <1>6, <2>1, OrderSteal DEF StoresAtOnce
  <2>4. \A d \in Calls : Pending(d)' => request'[d] = request[d]
    BY <2>1, <2>2
  <2>5. CASE UNCHANGED accountVars
    BY <2>3, <2>5 DEF OrderInv, accountVars, KeptIn
  <2>6. CASE Commit(Target[c], q)
    BY <1>6, <2>1, <2>2, <2>3, <2>4, <2>6, OrderCommit DEF StoresAtOnce, Held
  <2> QED
    BY <1>6, <2>2, <2>5, <2>6, StoreEffect DEF StoresAtOnce
<1>7. ASSUME NEW c \in Calls, StoresLate(c)
      PROVE  OrderInv'
  <2> DEFINE q == request[c]
  <2>1. /\ \A d \in Calls : Pending(d)' => Pending(d) /\ d # c
        /\ Pending(c) /\ UNCHANGED <<changes, request>>
    BY <1>7 DEF StoresLate, Ends, Pending
  <2>2. \A d \in Calls : Pending(d)' => Pending(d) /\ Target[d] # Target[c]
    BY <2>1 DEF RowInv
  <2>3. /\ q.row = id[Target[c]] /\ Held(Target[c]) /\ q \in Requests
        /\ gone[Target[c]] => id[Target[c]] \in foreign
    BY <2>1 DEF RowInv, TypeOK, Held
  <2>4. /\ \A a \in Accounts : ~gone[a] => Later(changes'[a].vals, KeptIn(a))
        /\ Later(changes'[Target[c]].vals, q.vals)
        /\ \A d \in Calls : Pending(d)' =>
             /\ Later(request[d].vals, KeptIn(Target[d]))
             /\ Later(changes'[Target[d]].vals, request[d].vals)
    BY <2>1 DEF OrderInv
  <2>5. CASE UNCHANGED accountVars
    BY <1>1, <2>1, <2>5
  <2>6. CASE Commit(Target[c], q)
    BY <2>1, <2>2, <2>3, <2>4, <2>6, OrderCommit
  <2> QED
    BY <1>7, <2>3, <2>5, <2>6, StoreEffect DEF StoresLate
<1>8. ASSUME NEW r \in RowIds \ {0}, OtherDeletes(r)
      PROVE  OrderInv'
  <2>1. /\ rows'[r].vals = NoValues
        /\ \A i \in RowIds \ {r} : rows'[i] = rows[i]
        /\ UNCHANGED <<request, changes, id, gone>>
        /\ \A c \in Calls : Pending(c)' <=> Pending(c)
        /\ \A a \in Accounts : id[a] \in RowIds
    BY <1>8, OtherDeletesEffect DEF TypeOK
  <2>2. \A a \in Accounts : KeptIn(a)' \in {KeptIn(a), NoValues}
    BY <2>1 DEF KeptIn
  <2>3. \A v \in Values : Later(v, NoValues)
    BY ValuesTyped DEF Later, NoValues
  <2> QED
    BY <2>1, <2>2, <2>3, ValuesTyped DEF OrderInv
<1>9. ASSUME NEW a \in Accounts, DeletionArrives(a)
      PROVE  OrderInv'
  <2>1. /\ \A b \in Accounts : ~gone'[b] => ~gone[b]
        /\ UNCHANGED <<request, changes, id, rows>>
        /\ \A c \in Calls : Pending(c)' <=> Pending(c)
    BY <1>9, DeletionArrivesEffect
  <2> QED
    BY <2>1 DEF OrderInv, KeptIn
<1> QED
  BY <1>2, <1>3, <1>4, <1>5, <1>6, <1>7, <1>8, <1>9, OrderEdit, Steps

\* A commit of a request that is later than the row it goes to.
LEMMA NoStaleCommit ==
  ASSUME TypeOK, ForeignInv, RowInv, NEW a \in Accounts, NEW q \in Requests,
         q.row = id[a], Commit(a, q), Later(q.vals, KeptIn(a)),
         NEW r \in RowIds, NEW k \in Keys, rows'[r].live
  PROVE  rows'[r].vals[k] >= rows[r].vals[k]
<1>1. /\ rows' = RowsAfter(q) /\ (IsInsert(q) => nextRow \in RowIds)
      /\ q.vals[k] \in Nat /\ rows[r].vals[k] \in Nat
      /\ rows[r].vals \in Values /\ q.vals \in Values
      /\ nextRow \in Nat
  BY CommitEffect, ValuesTyped DEF Requests, TypeOK
<1>2. CASE IsInsert(q) /\ r = nextRow
  <2>1. rows'[r].vals = q.vals
    <3>1. rows'[r] = [live |-> TRUE, vals |-> q.vals]
      BY <1>1, <1>2, RowAfter
    <3> QED
      BY <3>1
  <2>2. rows[r].vals = NoValues
    BY <1>1, <1>2 DEF RowInv, ForeignInv
  <2> QED
    BY <1>1, <2>1, <2>2 DEF NoValues
<1>3. CASE q.deleted /\ q.row # 0 /\ r = q.row
  <2>1. rows'[r] = EmptyRow
    BY <1>1, <1>3, RowAfter
  <2> QED
    BY <2>1 DEF EmptyRow
<1>4. CASE ~q.deleted /\ q.row # 0 /\ r = q.row
  <2>1. rows'[r].vals = Overlay(rows[r].vals, q.vals)
    BY <1>1, <1>4, RowAfter
  <2>2. Later(q.vals, rows[r].vals)
    BY <1>4 DEF KeptIn
  <2> QED
    BY <1>1, <2>1, <2>2 DEF Later, Overlay
<1>5. CASE ~(IsInsert(q) /\ r = nextRow) /\ ~(q.row # 0 /\ r = q.row)
  <2>1. rows'[r] = rows[r]
    BY <1>1, <1>5, RowAfter
  <2> QED
    BY <1>1, <2>1
<1> QED
  BY <1>2, <1>3, <1>4, <1>5

LEMMA NoStaleStep ==
  ASSUME TypeOK, Orderly, ForeignInv, RowInv, OrderInv, [Next]_vars
  PROVE  [\A r \in RowIds, k \in Keys :
            rows'[r].live => rows'[r].vals[k] >= rows[r].vals[k]]_rows
<1> USE ConstantsAssumption
<1>1. CASE UNCHANGED rows
  BY <1>1
<1>2. ASSUME NEW c \in Calls, NEW q \in Requests,
             \E res \in {"ok", "db"} :
               Transaction(c, q, res) /\ Answer(c, res),
             q.row = id[Target[c]], Later(q.vals, KeptIn(Target[c]))
      PROVE  \/ UNCHANGED rows
             \/ \A r \in RowIds, k \in Keys :
                  rows'[r].live => rows'[r].vals[k] >= rows[r].vals[k]
  BY <1>2, StoreEffect, NoStaleCommit DEF accountVars
<1>3. ASSUME NEW c \in Calls, StoresAtOnce(c)
      PROVE  \/ UNCHANGED rows
             \/ \A r \in RowIds, k \in Keys :
                  rows'[r].live => rows'[r].vals[k] >= rows[r].vals[k]
  <2>1. /\ NewRequest(Target[c]).row = id[Target[c]]
        /\ NewRequest(Target[c]).vals = changes[Target[c]].vals
        /\ NewRequest(Target[c]) \in Requests
    BY NewRequestFields, NewRequestType
  <2> QED
    BY <1>2, <1>3, <2>1 DEF StoresAtOnce, OrderInv
<1>4. ASSUME NEW c \in Calls, StoresLate(c)
      PROVE  \/ UNCHANGED rows
             \/ \A r \in RowIds, k \in Keys :
                  rows'[r].live => rows'[r].vals[k] >= rows[r].vals[k]
  <2>1. /\ request[c].row = id[Target[c]]
        /\ request[c] \in Requests /\ Later(request[c].vals, KeptIn(Target[c]))
    BY <1>4 DEF StoresLate, Ends, RowInv, OrderInv, TypeOK
  <2> QED
    BY <1>2, <1>4, <2>1 DEF StoresLate
<1>5. ASSUME NEW i \in RowIds \ {0}, OtherDeletes(i)
      PROVE  \A r \in RowIds, k \in Keys :
               rows'[r].live => rows'[r].vals[k] >= rows[r].vals[k]
  BY <1>5, OtherDeletesEffect, ValuesTyped
<1>6. \A a \in Accounts : DeletionArrives(a) => UNCHANGED rows
  BY DEF DeletionArrives
<1> QED
  BY <1>1, <1>3, <1>4, <1>5, <1>6, Steps
     DEF Idle, Delete, Edit, AnswersAtOnce, Takes, GivesUp, dataVars,
         accountVars

EditsOrderInv == OrderlyInv /\ EditsInv /\ WrittenInv /\ OrderInv

LEMMA EditsOrderHolds ==
  ASSUME "reuse" \notin Env, "overtake" \notin Env
  PROVE  Spec => []EditsOrderInv
<1>1. Init => EditsOrderInv
  BY OrderlyInit, EditsInit, OrderInit DEF EditsOrderInv
<1>2. TypeOK /\ TypeOK' /\ EditsOrderInv /\ [Next]_vars => EditsOrderInv'
  <2> SUFFICES ASSUME TypeOK, TypeOK', EditsOrderInv, [Next]_vars
               PROVE  EditsOrderInv'
    OBVIOUS
  <2>1. Orderly
    BY DEF Orderly, OrderlyInv, EditsOrderInv
  <2> QED
    BY <2>1, OrderlyNext, EditsNext, OrderNext DEF EditsOrderInv, OrderlyInv
<1> QED
  BY TypeCorrect, <1>1, <1>2, PTL DEF Spec

(* If clients keep to one store of an account at a time, a setting in the  *)
(* database is never replaced by an older edit: a store that waited cannot *)
(* undo what a later one has written.                                      *)
THEOREM NothingOlderIsWritten ==
  ASSUME "reuse" \notin Env, "overtake" \notin Env
  PROVE  Spec => NoStaleOverwrite
<1>1. TypeOK /\ EditsOrderInv /\ [Next]_vars
        => [\A r \in RowIds, k \in Keys :
              rows'[r].live => rows'[r].vals[k] >= rows[r].vals[k]]_rows
  BY NoStaleStep DEF EditsOrderInv, OrderlyInv, Orderly
<1> QED
  BY TypeCorrect, EditsOrderHolds, <1>1, PTL DEF Spec, NoStaleOverwrite

-----------------------------------------------------------------------------
(***************************************************************************)
(* What the client may conclude from the answer of a store.                *)
(***************************************************************************)

\* A store that failed had taken the edit, or the account itself.
Lost(a, k, w) == \E d \in Failed(a) : request[d].vals[k] = w
Unborn(a)     == \E d \in Failed(a) : request[d].created

\* The edit, or a later one, is in the database, unless it was lost.
Safe(a, k, w) == KeptIn(a)[k] >= w \/ Lost(a, k, w)

StillSafe(a, k, w) ==
  \/ KeptIn(a)'[k] >= w
  \/ \E d \in Failed(a)' : request'[d].vals[k] = w

\* A call on the account has taken the edit and waits.
Taken(a, k, w) ==
  \E c \in Calls : Pending(c) /\ Target[c] = a /\ request[c].vals[k] = w

SavedInv ==
  /\ \A a \in Accounts, k \in Keys : Ours(a) =>
       \/ Safe(a, k, lastEdit[a][k])
       \/ changes[a].vals[k] = lastEdit[a][k]
       \/ Taken(a, k, lastEdit[a][k])
  /\ \A c \in Calls, k \in Keys : result[c] = "ok" /\ Ours(Target[c])
       => Safe(Target[c], k, wanted[c][k])
  /\ \A c \in Calls, k \in Keys : Pending(c) /\ Ours(Target[c])
       => \/ Safe(Target[c], k, wanted[c][k])
          \/ request[c].vals[k] = wanted[c][k]

\* Until it is stored, an account that is new says so in its changes or in
\* the request that took them.
BornInv ==
  /\ \A a \in Accounts :
       \/ gone[a] /\ id[a] = 0
       \/ changes[a].created
       \/ \E c \in Calls : Pending(c) /\ Target[c] = a /\ request[c].created
       \/ id[a] # 0 /\ (a \in Stored \/ id[a] \in created)
       \/ Unborn(a)
  /\ \A a \in Accounts : changes[a].created => id[a] = 0
  /\ \A c \in Calls : Pending(c) =>
       /\ ~changes[Target[c]].created
       /\ request[c].created => id[Target[c]] = 0
  /\ \A c \in Calls : result[c] = "ok" /\ ~gone[Target[c]]
       => id[Target[c]] # 0 \/ Unborn(Target[c])

LEMMA SavedInit == Init => SavedInv /\ BornInv
<1> SUFFICES ASSUME Init PROVE SavedInv /\ BornInv
  OBVIOUS
<1>1. \A a \in Accounts : /\ changes[a].vals = NoValues
                          /\ changes[a].created <=> a \notin Stored
                          /\ lastEdit[a] = NoValues
  BY DEF Init, NewChanges, NoChanges
<1>2. \A c \in Calls : ~Pending(c) /\ result[c] = "none"
  BY DEF Init, Pending
<1>3. \A a \in Accounts : id[a] = 0 <=> a \notin Stored
  BY DEF Init, StoredIds
<1> QED
  BY <1>1, <1>2, <1>3 DEF SavedInv, BornInv

\* A call that was answered is over.
LEMMA AnsweredStays ==
  ASSUME TypeOK, CallInv, [Next]_vars, NEW d \in Calls, result[d] # "none"
  PROVE  /\ result'[d] = result[d] /\ request'[d] = request[d]
         /\ wanted'[d] = wanted[d]
<1>1. status[d] # "unused" /\ ~Pending(d)
  BY DEF CallInv
<1>2. CASE Idle \/ \E a \in Accounts : Delete(a) \/ \E k \in Keys : Edit(a, k)
  BY <1>2 DEF Idle, Delete, Edit, callVars
<1>3. ASSUME NEW c \in Calls, AnswersAtOnce(c) \/ GivesUp(c)
      PROVE  /\ result'[d] = result[d] /\ request'[d] = request[d]
             /\ wanted'[d] = wanted[d]
  BY <1>1, <1>3 DEF AnswersAtOnce, GivesUp, Begins, Ends, Answer, TypeOK
<1>4. ASSUME NEW c \in Calls, Takes(c)
      PROVE  /\ result'[d] = result[d] /\ request'[d] = request[d]
             /\ wanted'[d] = wanted[d]
  BY <1>1, <1>4 DEF Takes, Begins, Steal, TypeOK
<1>5. ASSUME NEW c \in Calls, StoresAtOnce(c)
      PROVE  /\ result'[d] = result[d] /\ request'[d] = request[d]
             /\ wanted'[d] = wanted[d]
  BY <1>1, <1>5 DEF StoresAtOnce, Begins, Steal, Answer, TypeOK
<1>6. ASSUME NEW c \in Calls, StoresLate(c)
      PROVE  /\ result'[d] = result[d] /\ request'[d] = request[d]
             /\ wanted'[d] = wanted[d]
  BY <1>1, <1>6 DEF StoresLate, Ends, Answer, TypeOK
<1> QED
  BY <1>2, <1>3, <1>4, <1>5, <1>6, OtherDeletesEffect, DeletionArrivesEffect,
     Steps

LEMMA LostStays ==
  ASSUME TypeOK, CallInv, [Next]_vars, NEW a \in Accounts
  PROVE  /\ \A k, w : Lost(a, k, w)
              => \E d \in Failed(a)' : request'[d].vals[k] = w
         /\ Unborn(a) => Unborn(a)'
<1>1. \A d \in Failed(a) : d \in Failed(a)' /\ request'[d] = request[d]
  BY AnsweredStays DEF Failed
<1> QED
  BY <1>1 DEF Lost, Unborn

\* What a transaction does to the settings that are kept: those of its own
\* account grow, and have the edits of the request or have lost them.
LEMMA KeptAfterStore ==
  ASSUME TypeOK, TypeOK', ForeignInv, RowInv,
         NEW c \in Calls, NEW q \in Requests,
         \E res \in {"ok", "db"} : Transaction(c, q, res) /\ Answer(c, res),
         q.row = id[Target[c]], Held(Target[c]),
         gone[Target[c]] => id[Target[c]] \in foreign, q = request'[c],
         Later(q.vals, KeptIn(Target[c]))
  PROVE  /\ \A a \in Accounts : Ours(a)'
              => /\ Ours(a)
                 /\ \A k \in Keys : KeptIn(a)'[k] >= KeptIn(a)[k]
         /\ Ours(Target[c])'
              => \A k \in Keys : StillSafe(Target[c], k, q.vals[k])
<1> DEFINE a == Target[c]
<1>1. a \in Accounts
  BY ConstantsAssumption
<1>2. \A b \in Accounts, k \in Keys : KeptIn(b)[k] \in Nat
  BY KeptType, ValuesTyped
<1>3. CASE result'[c] = "db" /\ UNCHANGED accountVars
  <2>1. c \in Failed(a)'
    BY <1>3 DEF Failed
  <2>2. \A k \in Keys : StillSafe(a, k, q.vals[k])
    BY <2>1 DEF StillSafe
  <2>3. \A b \in Accounts : KeptIn(b)' = KeptIn(b)
    BY <1>3 DEF KeptIn, accountVars
  <2> QED
    BY <1>2, <1>3, <2>2, <2>3 DEF accountVars, Ours
<1>4. CASE Commit(a, q)
  <2>1. /\ id[a] # 0 => id'[a] = id[a]
        /\ ~q.deleted => KeptIn(a)' = Overlay(KeptIn(a), q.vals)
        /\ \A b \in Accounts \ {a} : ~gone[b] => KeptIn(b)' = KeptIn(b)
    BY <1>1, <1>4, OrderlyCommit DEF Held
  <2>2. /\ \A b \in Accounts \ {a} : id'[b] = id[b] /\ gone'[b] = gone[b]
        /\ gone'[a] <=> gone[a] \/ q.deleted
        /\ foreign' = foreign
    BY <1>1, <1>4, CommitEffect
  <2>5. \A b \in Accounts : Ours(b)' => Ours(b)
    <3>1. 0 \notin foreign
      BY DEF TypeOK
    <3> QED
      BY <2>1, <2>2, <3>1 DEF Ours
  <2>3. ASSUME ~gone'[a], NEW k \in Keys
        PROVE  KeptIn(a)'[k] >= KeptIn(a)[k] /\ KeptIn(a)'[k] >= q.vals[k]
    <3>1. KeptIn(a)' = Overlay(KeptIn(a), q.vals)
      BY <2>1, <2>2, <2>3
    <3>2. KeptIn(a)[k] \in Nat /\ q.vals[k] \in Nat
      BY <1>1, <1>2, ValuesTyped DEF Requests
    <3>3. q.vals[k] # 0 => q.vals[k] > KeptIn(a)[k]
      BY DEF Later
    <3> QED
      BY <3>1, <3>2, <3>3 DEF Overlay
  <2>4. ASSUME NEW b \in Accounts, ~gone'[b]
        PROVE  \A k \in Keys : KeptIn(b)'[k] >= KeptIn(b)[k]
    <3>1. CASE b = a
      BY <2>1, <2>3, <2>4, <3>1
    <3>2. CASE b # a
      BY <1>2, <2>1, <2>2, <2>4, <3>2
    <3> QED
      BY <3>1, <3>2
  <2> QED
    BY <2>3, <2>4, <2>5 DEF StillSafe, Ours
<1> QED
  BY <1>3, <1>4, StoreEffect

LEMMA SafeStays ==
  ASSUME TypeOK, TypeOK', CallInv, [Next]_vars, NEW a \in Accounts,
         NEW k \in Keys, NEW w \in Nat,
         KeptIn(a)'[k] >= KeptIn(a)[k], Safe(a, k, w)
  PROVE  StillSafe(a, k, w)
<1>1. KeptIn(a)[k] \in Nat /\ KeptIn(a)'[k] \in Nat
  <2>1. rows'[id'[a]].vals \in Values \/ id'[a] = 0
    BY DEF TypeOK, Row
  <2>2. KeptIn(a)' \in Values
    BY <2>1, NoValuesType DEF KeptIn
  <2> QED
    BY <2>2, KeptType, ValuesTyped
<1>2. CASE KeptIn(a)[k] >= w
  BY <1>1, <1>2 DEF StillSafe
<1>3. CASE Lost(a, k, w)
  BY <1>3, LostStays DEF StillSafe
<1> QED
  BY <1>2, <1>3 DEF Safe

\* A call that gives up loses what it had taken.
LEMMA GivenUpIsLost ==
  ASSUME TypeOK, NEW c \in Calls, GivesUp(c)
  PROVE  /\ \A k : StillSafe(Target[c], k, request[c].vals[k])
         /\ request[c].created => Unborn(Target[c])'
<1>1. c \in Failed(Target[c])' /\ request'[c] = request[c]
  BY DEF GivesUp, Ends, Answer, Failed, TypeOK
<1> QED
  BY <1>1 DEF StillSafe, Unborn

\* SavedInv over one transaction: what stands in a history variable was safe
\* before, or is in the request, or is still to be stored.
LEMMA SavedStore ==
  ASSUME TypeOK, TypeOK', CallInv, ForeignInv, RowInv, SavedInv, [Next]_vars,
         NEW c \in Calls, NEW q \in Requests,
         \E res \in {"ok", "db"} : Transaction(c, q, res) /\ Answer(c, res),
         q.row = id[Target[c]], Held(Target[c]),
         gone[Target[c]] => id[Target[c]] \in foreign, q = request'[c],
         Later(q.vals, KeptIn(Target[c])),
         UNCHANGED lastEdit,
         \A a \in Accounts \ {Target[c]} : changes'[a] = changes[a],
         Ours(Target[c]) => \A k \in Keys :
           /\ \/ Safe(Target[c], k, lastEdit[Target[c]][k])
              \/ q.vals[k] = lastEdit[Target[c]][k]
              \/ changes'[Target[c]].vals[k] = lastEdit[Target[c]][k]
           /\ \/ Safe(Target[c], k, wanted'[c][k])
              \/ q.vals[k] = wanted'[c][k],
         \A d \in Calls \ {c} : wanted'[d] = wanted[d]
                                /\ request'[d] = request[d],
         \A d \in Calls : Pending(d)' => Pending(d) /\ Target[d] # Target[c],
         \A d \in Calls : Pending(d) /\ Target[d] # Target[c] => Pending(d)'
  PROVE  SavedInv'
<1> DEFINE a == Target[c]
<1>0. a \in Accounts
  BY ConstantsAssumption
<1>1. /\ \A b \in Accounts : Ours(b)'
           => /\ Ours(b)
              /\ \A k \in Keys : KeptIn(b)'[k] >= KeptIn(b)[k]
      /\ Ours(a)' => \A k \in Keys : StillSafe(a, k, q.vals[k])
  BY KeptAfterStore
<1>2. \A b \in Accounts, k \in Keys, w \in Nat :
        Ours(b)' /\ Safe(b, k, w) => StillSafe(b, k, w)
  BY <1>1, SafeStays
<1>3. /\ \A b \in Accounts, k \in Keys : lastEdit[b][k] \in Nat
      /\ \A d \in Calls, k \in Keys : wanted[d][k] \in Nat
      /\ \A d \in Calls, k \in Keys : wanted'[d][k] \in Nat
  <2>1. \A d \in Calls : wanted'[d] \in Values
    BY DEF TypeOK
  <2> QED
    BY <2>1, ValuesTyped
<1>4. ASSUME NEW b \in Accounts, NEW k \in Keys, Ours(b)'
      PROVE  \/ StillSafe(b, k, lastEdit[b][k])
             \/ changes'[b].vals[k] = lastEdit[b][k]
             \/ Taken(b, k, lastEdit[b][k])'
  <2>1. CASE b = a
    BY <1>1, <1>2, <1>3, <1>4, <2>1
  <2>2. CASE b # a
    <3>1. Ours(b) /\ changes'[b] = changes[b]
      BY <1>1, <1>4, <2>2
    <3>2. CASE Safe(b, k, lastEdit[b][k])
      BY <1>2, <1>3, <1>4, <3>2
    <3>3. CASE Taken(b, k, lastEdit[b][k])
      BY <2>2, <3>3 DEF Taken
    <3> QED
      BY <3>1, <3>2, <3>3 DEF SavedInv
  <2> QED
    BY <2>1, <2>2
<1>5. ASSUME NEW d \in Calls, NEW k \in Keys,
             result'[d] = "ok", Ours(Target[d])'
      PROVE  StillSafe(Target[d], k, wanted'[d][k])
  <2>1. Target[d] \in Accounts
    BY ConstantsAssumption
  <2>2. CASE d = c
    BY <1>1, <1>2, <1>3, <1>5, <2>1, <2>2
  <2>3. CASE d # c
    <3>1. /\ result[d] = "ok" /\ Ours(Target[d])
          /\ wanted'[d] = wanted[d]
      BY <1>1, <1>5, <2>1, <2>3, StoreEffect
    <3>2. Safe(Target[d], k, wanted[d][k])
      BY <3>1 DEF SavedInv
    <3> QED
      BY <1>2, <1>3, <1>5, <2>1, <3>1, <3>2
  <2> QED
    BY <2>2, <2>3
<1>6. ASSUME NEW d \in Calls, NEW k \in Keys,
             Pending(d)', Ours(Target[d])'
      PROVE  \/ StillSafe(Target[d], k, wanted'[d][k])
             \/ request'[d].vals[k] = wanted'[d][k]
  <2>1. /\ Pending(d) /\ d # c /\ Target[d] \in Accounts
        /\ wanted'[d] = wanted[d] /\ request'[d] = request[d]
    BY <1>6, ConstantsAssumption
  <2>2. Ours(Target[d])
    BY <1>1, <1>6, <2>1
  <2>3. Safe(Target[d], k, wanted[d][k]) \/ request[d].vals[k] = wanted[d][k]
    BY <2>1, <2>2 DEF SavedInv
  <2> QED
    BY <1>2, <1>3, <1>6, <2>1, <2>3
<1> QED
  BY <1>4, <1>5, <1>6 DEF SavedInv, Safe, Lost, StillSafe

LEMMA SavedNext ==
  ASSUME TypeOK, TypeOK', Orderly, CallInv, ForeignInv, RowInv, OrderInv,
         SavedInv, [Next]_vars
  PROVE  SavedInv'
<1> USE ConstantsAssumption
<1>1. /\ \A a \in Accounts, k \in Keys : lastEdit[a][k] \in Nat
      /\ \A d \in Calls, k \in Keys : wanted[d][k] \in Nat
      /\ \A a \in Accounts, k \in Keys : KeptIn(a)[k] \in Nat
  BY ValuesTyped, KeptType
<1>2. UNCHANGED <<id, rows>>
        => \A a \in Accounts, k \in Keys, w \in Nat :
             Safe(a, k, w) => StillSafe(a, k, w)
  BY <1>1, SafeStays DEF KeptIn
<1>3. ASSUME UNCHANGED <<request, dataVars>>,
             \A a \in Accounts, k \in Keys :
               \/ lastEdit'[a][k] = lastEdit[a][k]
                  /\ changes'[a].vals[k] = changes[a].vals[k]
               \/ changes'[a].vals[k] = lastEdit'[a][k],
             \A d \in Calls, k \in Keys :
               result'[d] = "ok" /\ Ours(Target[d])
                 => Safe(Target[d], k, wanted'[d][k]) /\ wanted'[d][k] \in Nat,
             \A d \in Calls : Pending(d)' => Pending(d) /\ wanted'[d] = wanted[d],
             \A d \in Calls : Pending(d) =>
               \/ Pending(d)'
               \/ \A k : StillSafe(Target[d], k, request[d].vals[k])
      PROVE  SavedInv'
  <2>1. /\ UNCHANGED <<id, rows>>
        /\ \A b \in Accounts : Ours(b)' <=> Ours(b)
    BY <1>3 DEF dataVars, accountVars, Ours
  <2>2. ASSUME NEW a \in Accounts, NEW k \in Keys, Ours(a)
        PROVE  \/ StillSafe(a, k, lastEdit'[a][k])
               \/ changes'[a].vals[k] = lastEdit'[a][k]
               \/ \E c \in Calls : /\ Pending(c)' /\ Target[c] = a
                                   /\ request'[c].vals[k] = lastEdit'[a][k]
    <3>1. CASE Safe(a, k, lastEdit[a][k])
      BY <1>1, <1>2, <1>3, <2>1, <3>1
    <3>2. CASE Taken(a, k, lastEdit[a][k])
      BY <1>3, <3>2 DEF Taken
    <3> QED
      BY <1>3, <2>2, <3>1, <3>2 DEF SavedInv
  <2>3. \A d \in Calls, k \in Keys : result'[d] = "ok" /\ Ours(Target[d])'
          => StillSafe(Target[d], k, wanted'[d][k])
    BY <1>2, <1>3, <2>1
  <2>4. \A d \in Calls, k \in Keys : Pending(d)' /\ Ours(Target[d])
          => \/ StillSafe(Target[d], k, wanted'[d][k])
             \/ request'[d].vals[k] = wanted'[d][k]
    BY <1>1, <1>2, <1>3, <2>1 DEF SavedInv
  <2> QED
    BY <2>1, <2>2, <2>3, <2>4 DEF SavedInv, Safe, Lost, StillSafe, Taken
<1>4. ASSUME UNCHANGED <<result, wanted>>,
             NEW d \in Calls, NEW k \in Keys, result'[d] = "ok",
             Ours(Target[d])
      PROVE  Safe(Target[d], k, wanted'[d][k]) /\ wanted'[d][k] \in Nat
  BY <1>1, <1>4 DEF SavedInv
<1>5. CASE Idle
  BY <1>3, <1>4, <1>5 DEF Idle
<1>6. ASSUME NEW a \in Accounts, Delete(a)
      PROVE  SavedInv'
  <2>1. \A b \in Accounts : changes'[b].vals = changes[b].vals
    BY <1>6, DeleteEffect
  <2> QED
    BY <1>3, <1>4, <1>6, <2>1, DeleteEffect DEF Pending
<1>7. ASSUME NEW a \in Accounts, NEW j \in Keys, Edit(a, j)
      PROVE  SavedInv'
  <2>1. \A b \in Accounts, k \in Keys :
          \/ lastEdit'[b][k] = lastEdit[b][k]
             /\ changes'[b].vals[k] = changes[b].vals[k]
          \/ changes'[b].vals[k] = lastEdit'[b][k]
    <3> TAKE b \in Accounts, k \in Keys
    <3>1. CASE b = a /\ k = j
      BY <1>7, <3>1, EditEffect
    <3>2. CASE b # a \/ k # j
      BY <1>7, <3>2, EditEffect
    <3> QED
      BY <3>1, <3>2
  <2> QED
    BY <1>3, <1>4, <1>7, <2>1, EditEffect DEF Pending
\* The last edit of the account of a call that starts alone.
<1>8. ASSUME NEW c \in Calls, Alone(c), Ours(Target[c]), NEW k \in Keys
      PROVE  \/ Safe(Target[c], k, lastEdit[Target[c]][k])
             \/ changes[Target[c]].vals[k] = lastEdit[Target[c]][k]
  BY <1>8 DEF SavedInv, Taken, Alone
<1>9. ASSUME NEW c \in Calls, Begins(c)
      PROVE  /\ wanted'[c] = lastEdit[Target[c]]
             /\ \A d \in Calls \ {c} : wanted'[d] = wanted[d]
                                       /\ (Pending(d)' <=> Pending(d))
             /\ ~Pending(c) /\ UNCHANGED lastEdit
  BY <1>9 DEF Begins, Pending, TypeOK
<1>10. ASSUME NEW c \in Calls, AnswersAtOnce(c)
       PROVE  SavedInv'
  <2>1. ASSUME NEW d \in Calls, NEW k \in Keys, result'[d] = "ok",
               Ours(Target[d])
        PROVE  Safe(Target[d], k, wanted'[d][k]) /\ wanted'[d][k] \in Nat
    <3>1. CASE d = c
      <4>1. changes[Target[c]] = NoChanges /\ Alone(c)
        BY <1>10, <2>1, <3>1 DEF AnswersAtOnce, Answer, TypeOK
      <4>2. changes[Target[c]].vals[k] = 0
        BY <4>1 DEF NoChanges, NoValues
      <4>3. changes[Target[c]].vals[k] = lastEdit[Target[c]][k]
              => Safe(Target[c], k, lastEdit[Target[c]][k])
        BY <1>1, <4>2 DEF Safe
      <4> QED
        BY <1>1, <1>8, <1>9, <1>10, <2>1, <3>1, <4>1, <4>3 DEF AnswersAtOnce
    <3>2. CASE d # c
      <4>1. result[d] = "ok" /\ wanted'[d] = wanted[d]
        BY <1>9, <1>10, <2>1, <3>2 DEF AnswersAtOnce, Answer, TypeOK
      <4> QED
        BY <1>1, <2>1, <4>1 DEF SavedInv
    <3> QED
      BY <3>1, <3>2
  <2> QED
    BY <1>3, <1>9, <1>10, <2>1 DEF AnswersAtOnce
<1>11. ASSUME NEW c \in Calls, GivesUp(c)
       PROVE  SavedInv'
  <2>1. /\ \A d \in Calls : result'[d] = "ok" => result[d] = "ok"
        /\ \A d \in Calls \ {c} : Pending(d)' <=> Pending(d)
        /\ ~Pending(c)' /\ UNCHANGED <<lastEdit, changes, request, wanted>>
    BY <1>11 DEF GivesUp, Ends, Answer, Pending, TypeOK
  <2>2. \A k : StillSafe(Target[c], k, request[c].vals[k])
    BY <1>11, GivenUpIsLost
  <2>3. \A d \in Calls, k \in Keys : result'[d] = "ok" /\ Ours(Target[d])
          => Safe(Target[d], k, wanted'[d][k]) /\ wanted'[d][k] \in Nat
    BY <1>1, <2>1 DEF SavedInv
  <2> QED
    BY <1>3, <1>11, <2>1, <2>2, <2>3 DEF GivesUp
<1>12. ASSUME NEW c \in Calls, Steal(c)
       PROVE  /\ \A a \in Accounts \ {Target[c]} : changes'[a] = changes[a]
              /\ \A d \in Calls \ {c} : request'[d] = request[d]
              /\ request'[c] = NewRequest(Target[c])
              /\ NewRequest(Target[c]) \in Requests
              /\ request'[c].vals = changes[Target[c]].vals
              /\ request'[c].row = id[Target[c]]
  BY <1>12, StealEffect, NewRequestType, NewRequestFields
<1>13. ASSUME NEW c \in Calls, Takes(c)
       PROVE  SavedInv'
  <2>1. /\ UNCHANGED <<id, rows, result>>
        /\ \A b \in Accounts : Ours(b)' <=> Ours(b)
    BY <1>13 DEF Takes, dataVars, accountVars, Ours
  <2>2. Ours(Target[c]) => \A k \in Keys : \/ Safe(Target[c], k, lastEdit[Target[c]][k])
                        \/ request'[c].vals[k] = lastEdit[Target[c]][k]
    BY <1>8, <1>12, <1>13 DEF Takes
  <2>3. ASSUME NEW a \in Accounts, NEW k \in Keys, Ours(a)
        PROVE  \/ StillSafe(a, k, lastEdit[a][k])
               \/ changes'[a].vals[k] = lastEdit[a][k]
               \/ \E d \in Calls : /\ Pending(d)' /\ Target[d] = a
                                   /\ request'[d].vals[k] = lastEdit[a][k]
    <3>1. CASE a = Target[c]
      BY <1>1, <1>2, <1>13, <2>1, <2>2, <2>3, <3>1 DEF Takes
    <3>2. CASE a # Target[c]
      <4>1. CASE Safe(a, k, lastEdit[a][k])
        BY <1>1, <1>2, <2>1, <4>1
      <4>2. CASE Taken(a, k, lastEdit[a][k])
        BY <1>9, <1>12, <1>13, <3>2, <4>2 DEF Taken, Takes
      <4> QED
        BY <1>12, <1>13, <2>3, <3>2, <4>1, <4>2 DEF SavedInv, Takes
    <3> QED
      BY <3>1, <3>2
  <2>4. ASSUME NEW d \in Calls, NEW k \in Keys,
               result'[d] = "ok", Ours(Target[d])'
        PROVE  StillSafe(Target[d], k, wanted'[d][k])
    <3>1. d # c /\ result[d] = "ok" /\ Ours(Target[d])
      BY <1>13, <2>1, <2>4 DEF Takes, Begins, CallInv
    <3> QED
      BY <1>1, <1>2, <1>9, <1>13, <2>1, <3>1 DEF SavedInv, Takes
  <2>5. ASSUME NEW d \in Calls, NEW k \in Keys, Pending(d)', Ours(Target[d])
        PROVE  \/ StillSafe(Target[d], k, wanted'[d][k])
               \/ request'[d].vals[k] = wanted'[d][k]
    <3>1. CASE d = c
      BY <1>1, <1>2, <1>9, <1>13, <2>1, <2>2, <2>5, <3>1 DEF Takes
    <3>2. CASE d # c
      BY <1>1, <1>2, <1>9, <1>12, <1>13, <2>1, <2>5, <3>2 DEF SavedInv, Takes
    <3> QED
      BY <3>1, <3>2
  <2>6. UNCHANGED lastEdit
    BY <1>9, <1>13 DEF Takes
  <2> QED
    BY <2>1, <2>3, <2>4, <2>5, <2>6
       DEF SavedInv, Safe, Lost, StillSafe, Taken
<1>14. ASSUME NEW c \in Calls, StoresAtOnce(c)
       PROVE  SavedInv'
  <2> DEFINE q == NewRequest(Target[c])
  <2>1. /\ \A d \in Calls : Pending(d)' => Pending(d) /\ Target[d] # Target[c]
        /\ \A d \in Calls : Pending(d) /\ Target[d] # Target[c] => Pending(d)'
    BY <1>14 DEF StoresAtOnce, Begins, Alone, Pending
  <2>2. /\ q \in Requests /\ q = request'[c] /\ q.row = id[Target[c]]
        /\ q.vals = changes[Target[c]].vals
        /\ \A a \in Accounts \ {Target[c]} : changes'[a] = changes[a]
        /\ \A d \in Calls \ {c} : request'[d] = request[d]
    BY <1>12, <1>14 DEF StoresAtOnce
  <2>3. /\ UNCHANGED lastEdit
        /\ wanted'[c] = lastEdit[Target[c]]
        /\ \A d \in Calls \ {c} : wanted'[d] = wanted[d]
    BY <1>9, <1>14 DEF StoresAtOnce
  <2>4. Alone(c) /\ ~gone[Target[c]] /\ Held(Target[c])
    BY <1>14 DEF StoresAtOnce, Held
  <2>5. Ours(Target[c]) => \A k \in Keys :
          \/ Safe(Target[c], k, lastEdit[Target[c]][k])
          \/ q.vals[k] = lastEdit[Target[c]][k]
    BY <1>8, <2>2, <2>4
  <2>6. Later(q.vals, KeptIn(Target[c]))
    BY <2>2, <2>4 DEF OrderInv
  <2>7. Ours(Target[c]) => \A k \in Keys :
          \/ Safe(Target[c], k, wanted'[c][k])
          \/ q.vals[k] = wanted'[c][k]
    BY <2>3, <2>5
  <2>8. \E res \in {"ok", "db"} : Transaction(c, q, res) /\ Answer(c, res)
    BY <1>14 DEF StoresAtOnce
  <2> QED
    BY <2>1, <2>2, <2>3, <2>4, <2>5, <2>6, <2>7, <2>8, SavedStore
<1>15. ASSUME NEW c \in Calls, StoresLate(c)
       PROVE  SavedInv'
  <2> DEFINE q == request[c]
  <2>1. /\ \A d \in Calls \ {c} : Pending(d)' <=> Pending(d)
        /\ Pending(c) /\ ~Pending(c)'
        /\ UNCHANGED <<lastEdit, changes, request, wanted>>
    BY <1>15 DEF StoresLate, Ends, Pending
  <2>2. /\ \A d \in Calls : Pending(d)' => Pending(d) /\ Target[d] # Target[c]
        /\ \A d \in Calls : Pending(d) /\ Target[d] # Target[c] => Pending(d)'
    BY <2>1 DEF RowInv
  <2>3. /\ q \in Requests /\ q = request'[c]
        /\ q.row = id[Target[c]] /\ Held(Target[c])
        /\ gone[Target[c]] => id[Target[c]] \in foreign
        /\ Later(q.vals, KeptIn(Target[c]))
    BY <2>1 DEF RowInv, OrderInv, TypeOK, Held
  <2>4. Ours(Target[c]) => \A k \in Keys :
          \/ Safe(Target[c], k, wanted'[c][k])
          \/ q.vals[k] = wanted'[c][k]
    BY <2>1 DEF SavedInv
  <2>5. Ours(Target[c]) => \A k \in Keys :
          \/ Safe(Target[c], k, lastEdit[Target[c]][k])
          \/ q.vals[k] = lastEdit[Target[c]][k]
          \/ changes'[Target[c]].vals[k] = lastEdit[Target[c]][k]
    <3> HAVE Ours(Target[c])
    <3> TAKE k \in Keys
    <3>1. Taken(Target[c], k, lastEdit[Target[c]][k])
            => q.vals[k] = lastEdit[Target[c]][k]
      BY <2>1 DEF Taken, RowInv
    <3> QED
      BY <2>1, <2>3, <3>1 DEF SavedInv
  <2>6. \E res \in {"ok", "db"} : Transaction(c, q, res) /\ Answer(c, res)
    BY <1>15 DEF StoresLate
  <2> QED
    BY <2>1, <2>2, <2>3, <2>4, <2>5, <2>6, SavedStore
\* The steps of another process: an account that is still the manager's own
\* has its row as it was.
<1>16. ASSUME UNCHANGED <<lastEdit, changes, request, result, wanted, id>>,
              \A d \in Calls : Pending(d)' <=> Pending(d),
              \A a \in Accounts : Ours(a)'
                => Ours(a) /\ KeptIn(a)' = KeptIn(a)
       PROVE  SavedInv'
  <2>1. \A a \in Accounts, k \in Keys, w \in Nat :
          Ours(a)' /\ Safe(a, k, w) => StillSafe(a, k, w)
    BY <1>1, <1>16, SafeStays
  <2>2. ASSUME NEW a \in Accounts, NEW k \in Keys, Ours(a)'
        PROVE  \/ StillSafe(a, k, lastEdit[a][k])
               \/ changes[a].vals[k] = lastEdit[a][k]
               \/ \E c \in Calls : /\ Pending(c)' /\ Target[c] = a
                                   /\ request[c].vals[k] = lastEdit[a][k]
    BY <1>1, <1>16, <2>1, <2>2 DEF SavedInv, Taken
  <2>3. ASSUME NEW d \in Calls, NEW k \in Keys, Ours(Target[d])'
        PROVE  /\ result[d] = "ok" => StillSafe(Target[d], k, wanted[d][k])
               /\ Pending(d)' => \/ StillSafe(Target[d], k, wanted[d][k])
                                 \/ request[d].vals[k] = wanted[d][k]
    BY <1>1, <1>16, <2>1, <2>3 DEF SavedInv
  <2> QED
    BY <1>16, <2>2, <2>3 DEF SavedInv, Safe, Lost, StillSafe, Taken
<1>17. ASSUME NEW r \in RowIds \ {0}, OtherDeletes(r)
       PROVE  SavedInv'
  <2>1. /\ \A i \in RowIds \ {r} : rows'[i] = rows[i]
        /\ foreign' = foreign \cup {r}
        /\ UNCHANGED <<lastEdit, changes, request, result, wanted, id, gone>>
        /\ \A d \in Calls : Pending(d)' <=> Pending(d)
        /\ \A a \in Accounts : id[a] \in RowIds
    BY <1>17, OtherDeletesEffect DEF TypeOK
  <2>2. \A a \in Accounts : Ours(a)' => Ours(a) /\ KeptIn(a)' = KeptIn(a)
    BY <2>1 DEF Ours, KeptIn
  <2> QED
    BY <1>16, <2>1, <2>2
<1>18. ASSUME NEW a \in Accounts, DeletionArrives(a)
       PROVE  SavedInv'
  <2>1. /\ \A b \in Accounts : ~gone'[b] => ~gone[b]
        /\ UNCHANGED <<lastEdit, changes, request, result, wanted, id, rows,
                       foreign>>
        /\ \A d \in Calls : Pending(d)' <=> Pending(d)
    BY <1>18, DeletionArrivesEffect
  <2>2. \A b \in Accounts : Ours(b)' => Ours(b) /\ KeptIn(b)' = KeptIn(b)
    BY <2>1 DEF Ours, KeptIn
  <2> QED
    BY <1>16, <2>1, <2>2
<1> QED
  BY <1>5, <1>6, <1>7, <1>10, <1>11, <1>13, <1>14, <1>15, <1>17, <1>18, Steps

\* BornInv over one transaction.
LEMMA BornStore ==
  ASSUME TypeOK, CallInv, ForeignInv, RowInv, BornInv, [Next]_vars,
         NEW c \in Calls, NEW q \in Requests,
         \E res \in {"ok", "db"} : Transaction(c, q, res) /\ Answer(c, res),
         q.row = id[Target[c]], Held(Target[c]),
         gone[Target[c]] => id[Target[c]] \in foreign, q = request'[c],
         \/ q.created
         \/ id[Target[c]] # 0
              /\ (Target[c] \in Stored \/ id[Target[c]] \in created)
         \/ Unborn(Target[c]),
         \A a \in Accounts \ {Target[c]} : changes'[a] = changes[a],
         ~changes'[Target[c]].created,
         \A d \in Calls \ {c} : request'[d] = request[d],
         \A d \in Calls : Pending(d)' => Pending(d) /\ Target[d] # Target[c],
         \A d \in Calls : Pending(d) /\ Target[d] # Target[c] => Pending(d)'
  PROVE  BornInv'
<1> DEFINE a == Target[c]
           Placed(b) == id[b] # 0 /\ (b \in Stored \/ id[b] \in created)
<1>0. a \in Accounts /\ \A d \in Calls : Target[d] \in Accounts
  BY ConstantsAssumption
<1>1. /\ \A d \in Calls \ {c} : result'[d] = result[d]
      /\ \/ result'[c] = "ok" /\ Commit(a, q)
         \/ result'[c] = "db" /\ UNCHANGED accountVars
  BY StoreEffect
<1>2. q.deleted \in BOOLEAN /\ q.created \in BOOLEAN
  BY DEF Requests
<1>3. \A b \in Accounts : Unborn(b) => Unborn(b)'
  BY LostStays
\* The other accounts keep what they had, and this one is placed or lost.
<1>4. /\ \A b \in Accounts \ {a} : id'[b] = id[b] /\ gone'[b] = gone[b]
      /\ \A b \in Accounts : id[b] # 0 => id'[b] = id[b]
      /\ created \subseteq created'
      /\ gone[a] => gone'[a]
  <2>1. CASE UNCHANGED accountVars
    BY <2>1 DEF accountVars
  <2>2. CASE Commit(a, q)
    BY <1>0, <2>2, CommitEffect, OrderlyCommit
  <2> QED
    BY <1>1, <2>1, <2>2
<1>5. q.created => \/ gone'[a] /\ id'[a] = 0
                   \/ id'[a] # 0 /\ id'[a] \in created'
                   \/ Unborn(a)'
  <2>1. CASE result'[c] = "db" /\ UNCHANGED accountVars
    BY <2>1 DEF Unborn, Failed
  <2>2. CASE Commit(a, q)
    <3>1. /\ id'[a] = IdAfter(a, q)
          /\ gone'[a] <=> gone[a] \/ q.deleted
          /\ created' = IF q.created THEN created \cup {IdAfter(a, q)}
                        ELSE created
      BY <1>0, <2>2, CommitEffect
    <3>2. ~q.deleted => id'[a] # 0
      BY <1>0, <2>2, OrderlyCommit
    <3> QED
      BY <1>2, <3>1, <3>2
  <2> QED
    BY <1>1, <2>1, <2>2
<1>6. ASSUME NEW b \in Accounts
      PROVE  \/ gone'[b] /\ id'[b] = 0
             \/ changes'[b].created
             \/ \E d \in Calls :
                  Pending(d)' /\ Target[d] = b /\ request'[d].created
             \/ id'[b] # 0 /\ (b \in Stored \/ id'[b] \in created')
             \/ Unborn(b)'
  <2>1. Placed(b) => id'[b] # 0 /\ (b \in Stored \/ id'[b] \in created')
    BY <1>4
  <2>2. CASE b = a
    BY <1>3, <1>5, <2>1, <2>2
  <2>3. CASE b # a
    <3>1. id'[b] = id[b] /\ gone'[b] = gone[b] /\ changes'[b] = changes[b]
      BY <1>4, <2>3
    <3>2. ASSUME NEW d \in Calls,
                 Pending(d), Target[d] = b, request[d].created
          PROVE  Pending(d)' /\ Target[d] = b /\ request'[d].created
      BY <2>3, <3>2
    <3> QED
      BY <1>3, <2>1, <3>1, <3>2 DEF BornInv
  <2> QED
    BY <2>2, <2>3
<1>7. /\ \A b \in Accounts : changes'[b].created => id'[b] = 0
      /\ \A d \in Calls : Pending(d)' =>
           /\ ~changes'[Target[d]].created
           /\ request'[d].created => id'[Target[d]] = 0
  <2>1. ASSUME NEW b \in Accounts, changes'[b].created
        PROVE  id'[b] = 0
    BY <1>4, <2>1 DEF BornInv
  <2>2. ASSUME NEW d \in Calls, Pending(d)'
        PROVE  /\ ~changes'[Target[d]].created
               /\ request'[d].created => id'[Target[d]] = 0
    <3>1. Pending(d) /\ Target[d] \in Accounts \ {a} /\ d # c
      BY <1>0, <2>2
    <3> QED
      BY <1>4, <3>1 DEF BornInv
  <2> QED
    BY <2>1, <2>2
<1>8. ASSUME NEW d \in Calls, result'[d] = "ok", ~gone'[Target[d]]
      PROVE  id'[Target[d]] # 0 \/ Unborn(Target[d])'
  <2>1. CASE d = c
    <3>1. Commit(a, q)
      BY <1>1, <1>8, <2>1
    <3>2. ~q.deleted
      BY <1>0, <1>8, <2>1, <3>1, CommitEffect
    <3> QED
      BY <1>0, <2>1, <3>1, <3>2, OrderlyCommit
  <2>2. CASE d # c
    <3>1. result[d] = "ok" /\ ~gone[Target[d]]
      BY <1>0, <1>1, <1>4, <1>8, <2>2
    <3> QED
      BY <1>0, <1>3, <1>4, <3>1 DEF BornInv
  <2> QED
    BY <2>1, <2>2
<1> QED
  BY <1>6, <1>7, <1>8 DEF BornInv, Unborn

LEMMA BornNext ==
  ASSUME TypeOK, Orderly, CallInv, ForeignInv, RowInv, BornInv, [Next]_vars
  PROVE  BornInv'
<1> USE ConstantsAssumption
<1>1. \A a \in Accounts : Unborn(a) => Unborn(a)'
  BY LostStays
\* Steps that write nothing and leave the flag of the changes alone.
<1>2. ASSUME UNCHANGED <<request, dataVars>>,
             \A a \in Accounts : changes'[a].created = changes[a].created,
             \A d \in Calls : Pending(d)' => Pending(d),
             \A d \in Calls : Pending(d) /\ request[d].created
               => Pending(d)' \/ Unborn(Target[d])',
             \A d \in Calls : result'[d] = "ok" /\ ~gone[Target[d]]
               => id[Target[d]] # 0 \/ Unborn(Target[d])
      PROVE  BornInv'
  <2>1. UNCHANGED <<id, gone, created>>
    BY <1>2 DEF dataVars, accountVars
  <2>2. ASSUME NEW a \in Accounts
        PROVE  \/ gone[a] /\ id[a] = 0
               \/ changes'[a].created
               \/ \E d \in Calls :
                    Pending(d)' /\ Target[d] = a /\ request[d].created
               \/ id[a] # 0 /\ (a \in Stored \/ id[a] \in created)
               \/ Unborn(a)'
    BY <1>1, <1>2 DEF BornInv
  <2>3. /\ \A a \in Accounts : changes'[a].created => id[a] = 0
        /\ \A d \in Calls : Pending(d)' =>
             /\ ~changes'[Target[d]].created
             /\ request[d].created => id[Target[d]] = 0
    BY <1>2 DEF BornInv
  <2> QED
    BY <1>1, <1>2, <2>1, <2>2, <2>3 DEF BornInv, Unborn
<1>3. CASE Idle
  BY <1>2, <1>3 DEF Idle, Orderly, BornInv
<1>4. ASSUME NEW a \in Accounts, Delete(a)
      PROVE  BornInv'
  <2>1. \A b \in Accounts : changes'[b].created = changes[b].created
    BY <1>4, DeleteEffect
  <2> QED
    BY <1>2, <1>4, <2>1, DeleteEffect DEF Pending, BornInv
<1>5. ASSUME NEW a \in Accounts, NEW k \in Keys, Edit(a, k)
      PROVE  BornInv'
  <2>1. \A b \in Accounts : changes'[b].created = changes[b].created
    BY <1>5, EditEffect
  <2> QED
    BY <1>2, <1>5, <2>1, EditEffect DEF Pending, BornInv
<1>6. ASSUME NEW c \in Calls, Begins(c)
      PROVE  /\ \A d \in Calls \ {c} : Pending(d)' <=> Pending(d)
             /\ ~Pending(c)
  BY <1>6 DEF Begins, Pending
\* What is known of the account of a call that starts alone.
<1>7. ASSUME NEW c \in Calls, Alone(c), ~gone[Target[c]]
      PROVE  \/ id[Target[c]] = 0 /\ changes[Target[c]].created
             \/ id[Target[c]] # 0
                  /\ (Target[c] \in Stored \/ id[Target[c]] \in created)
             \/ Unborn(Target[c])
  BY <1>7 DEF BornInv, Alone
<1>8. ASSUME NEW c \in Calls, AnswersAtOnce(c)
      PROVE  BornInv'
  <2>1. ASSUME NEW d \in Calls, result'[d] = "ok", ~gone[Target[d]]
        PROVE  id[Target[d]] # 0 \/ Unborn(Target[d])
    <3>1. CASE d = c
      <4>1. changes[Target[c]] = NoChanges /\ Alone(c)
        BY <1>8, <2>1, <3>1 DEF AnswersAtOnce, Answer, TypeOK
      <4>2. ~changes[Target[c]].created
        BY <4>1 DEF NoChanges
      <4> QED
        BY <1>7, <2>1, <3>1, <4>1, <4>2
    <3>2. CASE d # c
      <4>1. result[d] = "ok"
        BY <1>8, <2>1, <3>2 DEF AnswersAtOnce, Answer, TypeOK
      <4> QED
        BY <2>1, <4>1 DEF BornInv
    <3> QED
      BY <3>1, <3>2
  <2> QED
    BY <1>2, <1>6, <1>8, <2>1 DEF AnswersAtOnce
<1>9. ASSUME NEW c \in Calls, GivesUp(c)
      PROVE  BornInv'
  <2>1. /\ \A d \in Calls : result'[d] = "ok" => result[d] = "ok"
        /\ \A d \in Calls \ {c} : Pending(d)' <=> Pending(d)
        /\ ~Pending(c)' /\ UNCHANGED <<changes, request>>
    BY <1>9 DEF GivesUp, Ends, Answer, Pending, TypeOK
  <2>2. request[c].created => Unborn(Target[c])'
    BY <1>9, GivenUpIsLost
  <2> QED
    BY <1>2, <1>9, <2>1, <2>2 DEF GivesUp, BornInv
<1>10. ASSUME NEW c \in Calls, Steal(c)
       PROVE  /\ \A a \in Accounts \ {Target[c]} : changes'[a] = changes[a]
              /\ ~changes'[Target[c]].created
              /\ \A d \in Calls \ {c} : request'[d] = request[d]
              /\ request'[c] = NewRequest(Target[c])
              /\ NewRequest(Target[c]) \in Requests
              /\ request'[c].created = changes[Target[c]].created
              /\ request'[c].row = id[Target[c]]
  BY <1>10, StealEffect, NewRequestType, NewRequestFields DEF NoChanges
<1>11. ASSUME NEW c \in Calls, Takes(c)
       PROVE  BornInv'
  <2>1. UNCHANGED <<id, gone, created, result>>
    BY <1>11 DEF Takes, dataVars, accountVars
  <2>2. Alone(c) /\ ~gone[Target[c]] /\ Steal(c) /\ Begins(c) /\ Pending(c)'
    BY <1>11 DEF Takes
  <2>3. ASSUME NEW a \in Accounts
        PROVE  \/ gone[a] /\ id[a] = 0
               \/ changes'[a].created
               \/ \E d \in Calls :
                    Pending(d)' /\ Target[d] = a /\ request'[d].created
               \/ id[a] # 0 /\ (a \in Stored \/ id[a] \in created)
               \/ Unborn(a)'
    <3>1. CASE a = Target[c]
      BY <1>1, <1>7, <1>10, <2>2, <3>1
    <3>2. CASE a # Target[c]
      <4>1. ASSUME NEW d \in Calls,
                   Pending(d), Target[d] = a, request[d].created
            PROVE  Pending(d)' /\ Target[d] = a /\ request'[d].created
        BY <1>6, <1>10, <2>2, <3>2, <4>1
      <4> QED
        BY <1>1, <1>10, <2>2, <3>2, <4>1 DEF BornInv
    <3> QED
      BY <3>1, <3>2
  <2>4. ASSUME NEW d \in Calls, Pending(d)'
        PROVE  /\ ~changes'[Target[d]].created
               /\ request'[d].created => id[Target[d]] = 0
    <3>1. CASE d = c
      BY <1>10, <2>2, <3>1 DEF BornInv
    <3>2. CASE d # c
      <4>1. Pending(d) /\ Target[d] # Target[c]
        BY <1>6, <2>2, <2>4, <3>2 DEF Alone
      <4> QED
        BY <1>10, <2>2, <3>2, <4>1 DEF BornInv
    <3> QED
      BY <3>1, <3>2
  <2>6. \A a \in Accounts : changes'[a].created => id[a] = 0
    BY <1>10, <2>2 DEF BornInv
  <2>5. \A d \in Calls : result'[d] = "ok" /\ ~gone'[Target[d]]
          => id'[Target[d]] # 0 \/ Unborn(Target[d])'
    BY <1>1, <2>1 DEF BornInv
  <2> QED
    BY <2>1, <2>3, <2>4, <2>5, <2>6 DEF BornInv, Unborn
<1>12. ASSUME NEW c \in Calls, StoresAtOnce(c)
       PROVE  BornInv'
  <2> DEFINE q == NewRequest(Target[c])
  <2>1. Alone(c) /\ ~gone[Target[c]] /\ Steal(c) /\ Begins(c) /\ ~Pending(c)'
    BY <1>12 DEF StoresAtOnce
  <2>2. /\ \A d \in Calls : Pending(d)' => Pending(d) /\ Target[d] # Target[c]
        /\ \A d \in Calls : Pending(d) /\ Target[d] # Target[c] => Pending(d)'
    BY <1>6, <2>1 DEF Alone
  <2>3. /\ \E res \in {"ok", "db"} : Transaction(c, q, res) /\ Answer(c, res)
        /\ Held(Target[c])
    BY <1>12 DEF StoresAtOnce, Held
  <2> QED
    BY <1>7, <1>10, <2>1, <2>2, <2>3, BornStore
<1>13. ASSUME NEW c \in Calls, StoresLate(c)
       PROVE  BornInv'
  <2> DEFINE q == request[c]
  <2>1. /\ \A d \in Calls \ {c} : Pending(d)' <=> Pending(d)
        /\ Pending(c) /\ ~Pending(c)'
        /\ UNCHANGED <<changes, request>>
    BY <1>13 DEF StoresLate, Ends, Pending
  <2>2. /\ \A d \in Calls : Pending(d)' => Pending(d) /\ Target[d] # Target[c]
        /\ \A d \in Calls : Pending(d) /\ Target[d] # Target[c] => Pending(d)'
    BY <2>1 DEF RowInv
  <2>3. /\ q \in Requests /\ q = request'[c]
        /\ q.row = id[Target[c]] /\ Held(Target[c])
        /\ gone[Target[c]]
             => id[Target[c]] \in foreign /\ id[Target[c]] # 0
    BY <2>1 DEF RowInv, TypeOK, Held
  <2>4. \/ q.created
        \/ id[Target[c]] # 0
             /\ (Target[c] \in Stored \/ id[Target[c]] \in created)
        \/ Unborn(Target[c])
    <3>1. \A d \in Calls : Pending(d) /\ Target[d] = Target[c] => d = c
      BY <2>1 DEF RowInv
    <3>2. ~changes[Target[c]].created
      BY <2>1 DEF BornInv
    <3> QED
      BY <2>3, <3>1, <3>2 DEF BornInv
  <2>5. \E res \in {"ok", "db"} : Transaction(c, q, res) /\ Answer(c, res)
    BY <1>13 DEF StoresLate
  <2>6. ~changes'[Target[c]].created
    BY <2>1 DEF BornInv
  <2> QED
    BY <2>1, <2>2, <2>3, <2>4, <2>5, <2>6, BornStore
\* The steps of another process.
<1>14. ASSUME UNCHANGED <<changes, request, result, id, created>>,
              \A d \in Calls : Pending(d)' <=> Pending(d),
              \A a \in Accounts : gone[a] => gone'[a]
       PROVE  BornInv'
  BY <1>1, <1>14 DEF BornInv, Unborn, Failed
<1>15. ASSUME \/ \E r \in RowIds \ {0} : OtherDeletes(r)
              \/ \E a \in Accounts : DeletionArrives(a)
       PROVE  BornInv'
  BY <1>14, <1>15, OtherDeletesEffect, DeletionArrivesEffect
<1> QED
  BY <1>3, <1>4, <1>5, <1>8, <1>9, <1>11, <1>12, <1>13, <1>15, Steps

AnswerInv == EditsOrderInv /\ SavedInv /\ BornInv

LEMMA AnswerHolds ==
  ASSUME "reuse" \notin Env, "overtake" \notin Env
  PROVE  Spec => []AnswerInv
<1>1. Init => SavedInv /\ BornInv
  BY SavedInit
<1>2. ASSUME TypeOK, TypeOK', EditsOrderInv, EditsOrderInv',
             SavedInv /\ BornInv, [Next]_vars
      PROVE  (SavedInv /\ BornInv)'
  <2>1. Orderly /\ CallInv /\ ForeignInv /\ RowInv /\ OrderInv
    BY <1>2 DEF Orderly, OrderlyInv, EditsOrderInv
  <2> QED
    BY <1>2, <2>1, SavedNext, BornNext
<1> QED
  BY TypeCorrect, EditsOrderHolds, <1>1, <1>2, PTL DEF Spec, AnswerInv

(* If clients keep to one store of an account at a time, a store that is   *)
(* reported as successful has written the account and every edit made      *)
(* before the call, or something newer; what is missing was in a store     *)
(* that reported a failure.                                                *)
THEOREM SuccessIsTrue ==
  ASSUME "reuse" \notin Env, "overtake" \notin Env
  PROVE  Spec => []OkMeansSavedOrLost
<1>1. TypeOK /\ AnswerInv => OkMeansSavedOrLost
  <2> SUFFICES ASSUME TypeOK, AnswerInv, NEW c \in Calls,
                      Reported(c) = "ok", Ours(Target[c])
               PROVE  LET a == Target[c] IN
                      /\ \/ id[a] # 0 /\ rows[id[a]].live
                         \/ \E d \in Failed(a) : request[d].created
                      /\ \A k \in Keys :
                           \/ rows[id[a]].vals[k] >= wanted[c][k]
                           \/ \E d \in Failed(a) :
                                request[d].vals[k] = wanted[c][k]
    BY DEF OkMeansSavedOrLost
  <2> DEFINE a == Target[c]
  <2>1. a \in Accounts /\ result[c] = "ok"
    BY ConstantsAssumption DEF Reported
  <2>2. /\ id[a] # 0 \/ Unborn(a)
        /\ \A k \in Keys : Safe(a, k, wanted[c][k])
    BY <2>1 DEF AnswerInv, SavedInv, BornInv, Ours
  <2>3. id[a] # 0 => rows[id[a]].live
    BY <2>1 DEF AnswerInv, EditsOrderInv, OrderlyInv, RowInv
  <2>4. \A k \in Keys : /\ rows[id[a]].vals[k] \in Nat
                        /\ wanted[c][k] \in Nat
                        /\ id[a] = 0 => KeptIn(a)[k] = 0
                        /\ id[a] # 0 => KeptIn(a)[k] = rows[id[a]].vals[k]
    <3>1. rows[id[a]].vals \in Values /\ wanted[c] \in Values
      BY <2>1 DEF TypeOK, Row
    <3> QED
      BY <3>1, ValuesTyped DEF KeptIn, NoValues
  <2>5. ASSUME NEW k \in Keys
        PROVE  \/ rows[id[a]].vals[k] >= wanted[c][k]
               \/ \E d \in Failed(a) : request[d].vals[k] = wanted[c][k]
    BY <2>2, <2>4 DEF Safe, Lost
  <2> QED
    BY <2>2, <2>3, <2>5 DEF Unborn
<1> QED
  BY TypeCorrect, AnswerHolds, <1>1, PTL

-----------------------------------------------------------------------------
(***************************************************************************)
(* A new account is announced, also by clients that start a store before   *)
(* the callback of the previous one has returned.  The guard against two   *)
(* stores is then lost, but not before a store has taken the account as    *)
(* new: until then no call that was accepted exists that could reset       *)
(* store_task.                                                             *)
(***************************************************************************)
Fresh(a)       == id[a] = 0 /\ ~gone[a]
Untouched(c)   == status[c] = "unused" \/ ~Accepted(c)
TakenNew(c, a) == Pending(c) /\ Target[c] = a /\ request[c].created

\* store_task points to a call on its own account, and only an accepted call
\* is retried.
TaskAt(a) ==
  /\ storeTask[a] = NoCall \/ Target[storeTask[a]] = a
  /\ \A c \in Calls :
       Target[c] = a /\ status[c] = "idle_callback" => Accepted(c)

\* The account is in no database before a call has taken it as new, and that
\* call is the first that was accepted and the one store_task points to.
FirstAt(a) ==
  /\ changes[a].created =>
       Fresh(a) /\ \A c \in Calls : Target[c] = a => Untouched(c)
  /\ \A c \in Calls : TakenNew(c, a) =>
       /\ Fresh(a) /\ request[c].row = 0 /\ ~changes[a].created
       /\ \A d \in Calls \ {c} : Target[d] = a => Untouched(d)
       /\ status[c] = "waiting" => storeTask[a] = c

\* After it the account is announced or the store has failed.
Announced(a) ==
  /\ id[a] \in created
  /\ \/ id[a] # 0
     \/ gone[a] /\ \A c \in Calls : Target[c] = a => ~Pending(c)

BirthAt(a) ==
  \/ a \in Stored \/ changes[a].created \/ Unborn(a) \/ Announced(a)
  \/ \E c \in Calls : TakenNew(c, a)

FirstInv == \A a \in Accounts : TaskAt(a) /\ FirstAt(a) /\ BirthAt(a)

LEMMA FirstInit == Init => FirstInv
<1> SUFFICES ASSUME Init, NEW a \in Accounts
             PROVE  TaskAt(a) /\ FirstAt(a) /\ BirthAt(a)
  BY DEF FirstInv
<1>1. \A c \in Calls : status[c] = "unused"
  BY DEF Init
<1>2. /\ changes[a].created <=> a \notin Stored
      /\ a \notin Stored => id[a] = 0
      /\ ~gone[a] /\ storeTask[a] = NoCall
  BY DEF Init, NewChanges, NoChanges, StoredIds
<1> QED
  BY <1>1, <1>2 DEF TaskAt, FirstAt, BirthAt, TakenNew, Fresh, Untouched,
     Pending

\* An account keeps what is said of it while no call is made on it or ends.
LEMMA FirstApart ==
  ASSUME TypeOK, FirstInv, NEW a \in Accounts,
         id'[a] = id[a], gone[a] => gone'[a],
         gone'[a] => gone[a] \/ id[a] # 0, storeTask'[a] = storeTask[a],
         changes'[a].created = changes[a].created, created \subseteq created',
         \A c \in Calls : Target[c] = a =>
           /\ status'[c] = status[c] /\ result'[c] = result[c]
           /\ request'[c] = request[c]
  PROVE  TaskAt(a)' /\ FirstAt(a)' /\ BirthAt(a)'
<1>1. TaskAt(a) /\ FirstAt(a) /\ BirthAt(a)
  BY DEF FirstInv
<1>2. \A c \in Calls : Target[c] = a =>
        /\ TakenNew(c, a)' <=> TakenNew(c, a)
        /\ Untouched(c)' <=> Untouched(c)
        /\ Pending(c)' <=> Pending(c)
  BY DEF TakenNew, Untouched, Pending, Accepted
<1>3. TaskAt(a)'
  BY <1>1 DEF TaskAt, Accepted
<1>4. Fresh(a)' <=> Fresh(a)
  BY DEF Fresh
<1>5. FirstAt(a)'
  BY <1>1, <1>2, <1>4 DEF FirstAt, TakenNew
<1>6. Unborn(a) => Unborn(a)'
  BY DEF Unborn, Failed
<1>7. Announced(a) => Announced(a)'
  BY <1>2 DEF Announced
<1>8. BirthAt(a)'
  BY <1>1, <1>2, <1>6, <1>7 DEF BirthAt, TakenNew
<1> QED
  BY <1>3, <1>5, <1>8

\* No client starts a store past a call that has taken the account as new.
LEMMA FirstIsAlone ==
  ASSUME TypeOK, FirstInv, NEW c \in Calls, ThreadFree,
         storeTask[Target[c]] = NoCall \/ Waiting(Target[c]) = {}
  PROVE  \A d \in Calls : ~TakenNew(d, Target[c])
<1> SUFFICES ASSUME NEW d \in Calls, TakenNew(d, Target[c])
             PROVE  FALSE
  OBVIOUS
<1>1. Target[c] \in Accounts
  BY ConstantsAssumption
<1>2. status[d] = "waiting" /\ Target[d] = Target[c]
  BY DEF TakenNew, Pending, ThreadFree
<1>3. storeTask[Target[c]] = d
  BY <1>1, <1>2 DEF FirstInv, FirstAt
<1> QED
  BY <1>2, <1>3, ConstantsAssumption DEF Waiting

\* The transaction of a request tells of its account what it should.
LEMMA BirthStore ==
  ASSUME TypeOK, NEW c \in Calls, NEW q \in Requests, [Next]_vars, CallInv,
         \E res \in {"ok", "db"} : Transaction(c, q, res) /\ Answer(c, res),
         request'[c] = q,
         \/ /\ q.created /\ q.row = 0 /\ id[Target[c]] = 0
            /\ \A d \in Calls : Target[d] = Target[c] => ~Pending(d)'
         \/ /\ ~q.created
            /\ \/ Target[c] \in Stored \/ Unborn(Target[c])
               \/ Announced(Target[c]) /\ id[Target[c]] # 0
  PROVE  /\ BirthAt(Target[c])'
         /\ \A a \in Accounts \ {Target[c]} :
              id'[a] = id[a] /\ gone'[a] = gone[a]
         /\ created \subseteq created'
<1> DEFINE a == Target[c]
<1>0. a \in Accounts
  BY ConstantsAssumption
<1>1. \/ result'[c] = "ok" /\ Commit(a, q)
      \/ result'[c] = "db" /\ UNCHANGED accountVars
  BY StoreEffect
<1>2. q.created \in BOOLEAN /\ q.deleted \in BOOLEAN
  BY DEF Requests
<1>3. CASE result'[c] = "db" /\ UNCHANGED accountVars
  <2>1. UNCHANGED <<id, gone, created>>
    BY <1>3 DEF accountVars
  <2>2. q.created => Unborn(a)'
    BY <1>3 DEF Unborn, Failed
  <2>3. Unborn(a) => Unborn(a)'
    BY <1>0, LostStays
  <2>4. Announced(a) /\ id[a] # 0 => Announced(a)'
    BY <2>1 DEF Announced
  <2> QED
    BY <1>2, <2>1, <2>2, <2>3, <2>4 DEF BirthAt
<1>4. CASE Commit(a, q)
  <2>1. /\ id'[a] = IdAfter(a, q)
        /\ \A b \in Accounts \ {a} : id'[b] = id[b] /\ gone'[b] = gone[b]
        /\ gone'[a] <=> gone[a] \/ q.deleted
        /\ created' = IF q.created THEN created \cup {IdAfter(a, q)}
                      ELSE created
        /\ created \subseteq created'
    BY <1>0, <1>4, CommitEffect
  <2>2. q.created => Announced(a)'
    <3>1. nextRow # 0
      BY DEF TypeOK
    <3>2. q.created /\ ~q.deleted => id'[a] # 0
      BY <2>1, <3>1 DEF IdAfter, LastIdAfter, IsInsert
    <3> QED
      BY <1>2, <2>1, <3>2 DEF Announced
  <2>3. Unborn(a) => Unborn(a)'
    BY <1>0, LostStays
  <2>4. Announced(a) /\ id[a] # 0 => Announced(a)'
    BY <2>1 DEF Announced, IdAfter
  <2> QED
    BY <1>2, <2>1, <2>2, <2>3, <2>4 DEF BirthAt
<1> QED
  BY <1>1, <1>3, <1>4

\* The steps of a call leave the other accounts alone.
LEMMA FirstElsewhere ==
  ASSUME TypeOK, FirstInv, NEW c \in Calls,
         \A a \in Accounts \ {Target[c]} :
           /\ id'[a] = id[a] /\ gone'[a] = gone[a]
           /\ storeTask'[a] = storeTask[a] /\ changes'[a] = changes[a],
         created \subseteq created',
         \A d \in Calls : Target[d] # Target[c] =>
           /\ status'[d] = status[d] /\ result'[d] = result[d]
           /\ request'[d] = request[d],
         TaskAt(Target[c])' /\ FirstAt(Target[c])' /\ BirthAt(Target[c])'
  PROVE  FirstInv'
<1>1. ASSUME NEW a \in Accounts \ {Target[c]}
      PROVE  TaskAt(a)' /\ FirstAt(a)' /\ BirthAt(a)'
  BY FirstApart
<1> QED
  BY <1>1 DEF FirstInv

\* What a step that starts a store does to store_task and to the account.
LEMMA StartEffect ==
  ASSUME TypeOK, CallInv, FirstInv, "overtake" \notin Env, NEW c \in Calls,
         StoreAsync(c) \/ StoreBlocking(c)
  PROVE  /\ \A a \in Accounts \ {Target[c]} : storeTask'[a] = storeTask[a]
         /\ storeTask'[Target[c]] \in {storeTask[Target[c]], c}
         /\ status'[c] = "waiting" => storeTask'[Target[c]] = c
         /\ status'[c] # "idle_callback"
         /\ \/ /\ result'[c] = "in_progress" /\ ~Pending(c)'
               /\ UNCHANGED <<storeTask, changes, request, dataVars>>
            \/ /\ \A d \in Calls : ~TakenNew(d, Target[c])
               /\ result'[c] = "deleted" => gone[Target[c]]
<1> USE ConstantsAssumption
<1> DEFINE a == Target[c]
           Clear == \A d \in Calls : ~TakenNew(d, a)
<1>0. a \in Accounts
  OBVIOUS
<1>1. /\ BeginAsync(c) /\ storeTask[a] = NoCall => Clear
      /\ BeginBlocking(c) => Clear
  BY FirstIsAlone DEF BeginAsync, BeginBlocking, Allowed
<1>2. BeginAsync(c) \/ BeginBlocking(c)
        => status[c] = "unused" /\ result[c] = "none"
  BY DEF BeginAsync, BeginBlocking, CallInv
<1>3. CASE StoreRejected(c)
  BY <1>2, <1>3 DEF StoreRejected, Move, Answer, Pending, TypeOK
<1>4. CASE StoreNothing(c) \/ StoreDeleted(c)
  BY <1>0, <1>1, <1>2, <1>4 DEF StoreNothing, StoreDeleted, StoreStarts, Move,
     Answer, TypeOK
<1>5. CASE StoreBusy(c)
  BY <1>0, <1>1, <1>2, <1>5 DEF StoreBusy, StoreStarts, Move, TypeOK
<1>6. CASE StoreNow(c)
  <2>1. PICK res \in {"ok", "db"} : Answer(c, res)
    BY <1>6 DEF StoreNow
  <2>2. BeginAsync(c) /\ storeTask[a] = NoCall /\ UNCHANGED storeTask
        /\ Move(c, "returned")
    BY <1>6 DEF StoreNow, StoreStarts
  <2> QED
    BY <1>0, <1>1, <1>2, <2>1, <2>2 DEF Move, Answer, TypeOK
<1>7. CASE StoreBlocking(c)
  <2>1. /\ BeginBlocking(c)
        /\ \E s \in {"done", "sleeping"} : Move(c, s)
        /\ \/ UNCHANGED result \/ Answer(c, "ok") \/ Answer(c, "db")
           \/ gone[a] /\ Answer(c, "deleted")
    BY <1>7 DEF StoreBlocking, BlockingNothing, BlockingDeleted, BlockingBusy,
       BlockingNow
  <2> QED
    BY <1>0, <1>1, <1>2, <2>1 DEF BeginBlocking, Move, Answer, TypeOK
<1> QED
  BY <1>3, <1>4, <1>5, <1>6, <1>7 DEF StoreAsync

LEMMA FirstStart ==
  ASSUME TypeOK, CallInv, FirstInv, [Next]_vars, "overtake" \notin Env,
         NEW c \in Calls, StoreAsync(c) \/ StoreBlocking(c)
  PROVE  FirstInv'
<1> USE ConstantsAssumption
<1> DEFINE a == Target[c]
<1>1. AnswersAtOnce(c) \/ Takes(c) \/ StoresAtOnce(c)
  BY AsyncSteps, BlockingSteps
<1>2. /\ status[c] = "unused" /\ result[c] = "none"
      /\ status'[c] # "unused" /\ status'[c] # "idle_callback"
      /\ \A d \in Calls \ {c} : status'[d] = status[d]
      /\ \A b \in Accounts \ {a} : storeTask'[b] = storeTask[b]
      /\ storeTask'[a] \in {storeTask[a], c}
      /\ status'[c] = "waiting" => storeTask'[a] = c
  BY <1>1, StartEffect DEF AnswersAtOnce, Takes, StoresAtOnce, Begins, CallInv
<1>3. /\ \A d \in Calls \ {c} : result'[d] = result[d]
      /\ \A d \in Calls \ {c} : request'[d] = request[d]
      /\ \A b \in Accounts \ {a} : changes'[b] = changes[b]
  <2>1. CASE AnswersAtOnce(c)
    BY <2>1 DEF AnswersAtOnce, Answer, TypeOK
  <2>2. CASE Takes(c)
    BY <2>2, StealEffect DEF Takes
  <2>3. CASE StoresAtOnce(c)
    <3>1. Steal(c) /\ NewRequest(a) \in Requests
      BY <2>3, NewRequestType DEF StoresAtOnce
    <3> QED
      BY <2>3, <3>1, StealEffect, StoreEffect DEF StoresAtOnce
  <2> QED
    BY <1>1, <2>1, <2>2, <2>3
<1>4. TaskAt(a) /\ FirstAt(a) /\ BirthAt(a)
  BY DEF FirstInv
<1>5. TaskAt(a)'
  BY <1>2, <1>3, <1>4 DEF TaskAt, Accepted
<1>6. Unborn(a) => Unborn(a)'
  BY LostStays
\* Rejected: nothing is said of the call that is not true of no call at all.
<1>7. CASE /\ result'[c] = "in_progress" /\ ~Pending(c)'
           /\ UNCHANGED <<storeTask, changes, request, dataVars>>
  <2>1. UNCHANGED <<id, gone, created>>
    BY <1>7 DEF dataVars, accountVars
  <2>2. /\ \A d \in Calls : TakenNew(d, a)' <=> TakenNew(d, a)
        /\ \A d \in Calls : Untouched(d) => Untouched(d)'
        /\ \A d \in Calls : Pending(d)' => Pending(d)
    BY <1>2, <1>3, <1>7 DEF TakenNew, Untouched, Pending, Accepted
  <2>3. FirstAt(a)'
    BY <1>2, <1>4, <1>7, <2>1, <2>2 DEF FirstAt, TakenNew, Fresh, Pending
  <2>4. BirthAt(a)'
    BY <1>4, <1>6, <1>7, <2>1, <2>2 DEF BirthAt, Announced
  <2> QED
    BY <1>2, <1>3, <1>5, <1>7, <2>1, <2>3, <2>4, FirstElsewhere
<1>8. CASE /\ \A d \in Calls : ~TakenNew(d, a)
           /\ result'[c] = "deleted" => gone[a]
  <2>1. CASE AnswersAtOnce(c)
    <3>1. /\ UNCHANGED <<changes, request, id, gone, created>>
          /\ ~Pending(c)'
          /\ changes[a].created => result'[c] = "in_progress"
      BY <1>4, <1>8, <2>1 DEF AnswersAtOnce, FirstAt, Fresh, NoChanges, Answer,
         TypeOK, dataVars, accountVars
    <3>2. /\ \A d \in Calls : ~TakenNew(d, a)'
          /\ \A d \in Calls : Pending(d)' => Pending(d)
          /\ changes[a].created
               => \A d \in Calls : Untouched(d) => Untouched(d)'
      BY <1>2, <1>3, <1>8, <3>1 DEF TakenNew, Untouched, Pending, Accepted
    <3>3. FirstAt(a)'
      BY <1>4, <3>1, <3>2 DEF FirstAt, Fresh
    <3>4. BirthAt(a)'
      BY <1>4, <1>6, <1>8, <3>1, <3>2 DEF BirthAt, Announced
    <3> QED
      BY <1>2, <1>3, <1>5, <3>1, <3>3, <3>4, FirstElsewhere
  <2>2. CASE Takes(c) \/ StoresAtOnce(c)
    <3>1. Steal(c) /\ ~gone[a]
      BY <2>2 DEF Takes, StoresAtOnce
    <3>2. /\ ~changes'[a].created
          /\ NewRequest(a) \in Requests /\ request'[c] = NewRequest(a)
          /\ request'[c].created = changes[a].created
          /\ request'[c].row = id[a]
      BY <3>1, StealEffect, NewRequestType, NewRequestFields DEF NoChanges
    \* Taken as new, the other calls were not accepted and are not pending.
    <3>3. changes[a].created =>
            /\ Fresh(a)
            /\ \A d \in Calls \ {c} : Target[d] = a =>
                 Untouched(d)' /\ ~Pending(d)'
      <4>1. \A d \in Calls : Pending(d) => Accepted(d)
        BY DEF CallInv, Accepted
      <4> QED
        BY <1>2, <1>3, <1>4, <4>1 DEF FirstAt, Untouched, Accepted, Pending
    <3>4. \A d \in Calls \ {c} : ~TakenNew(d, a)'
      BY <1>2, <1>3, <1>8 DEF TakenNew, Pending
    <3>5. CASE Takes(c)
      <4>1. UNCHANGED <<id, gone, created>> /\ Pending(c)'
        BY <3>5 DEF Takes, dataVars, accountVars
      <4>2. changes[a].created => TakenNew(c, a)'
        BY <3>2, <4>1 DEF TakenNew
      <4>3. Announced(a) => Announced(a)'
        BY <3>1, <4>1 DEF Announced
      <4>4. BirthAt(a)'
        BY <1>4, <1>6, <1>8, <4>2, <4>3 DEF BirthAt
      <4>5. FirstAt(a)'
        BY <1>2, <3>2, <3>3, <3>4, <4>1 DEF FirstAt, Fresh, TakenNew
      <4> QED
        BY <1>2, <1>3, <1>5, <4>1, <4>4, <4>5, FirstElsewhere
    <3>6. CASE StoresAtOnce(c)
      <4> DEFINE q == NewRequest(a)
      <4>1. /\ ~Pending(c)'
            /\ \E res \in {"ok", "db"} :
                 Transaction(c, q, res) /\ Answer(c, res)
        BY <3>6 DEF StoresAtOnce
      <4>2. \/ /\ q.created /\ q.row = 0 /\ id[a] = 0
               /\ \A d \in Calls : Target[d] = a => ~Pending(d)'
            \/ /\ ~q.created
               /\ \/ a \in Stored \/ Unborn(a)
                  \/ Announced(a) /\ id[a] # 0
        BY <1>4, <1>8, <3>1, <3>2, <3>3, <4>1 DEF BirthAt, Announced, Fresh
      <4>3. /\ BirthAt(a)'
            /\ \A b \in Accounts \ {a} :
                 id'[b] = id[b] /\ gone'[b] = gone[b]
            /\ created \subseteq created'
        BY <3>1, <3>2, <4>1, <4>2, BirthStore
      <4>4. FirstAt(a)'
        BY <3>2, <3>4, <4>1 DEF FirstAt, TakenNew
      <4> QED
        BY <1>2, <1>3, <1>5, <4>3, <4>4, FirstElsewhere
    <3> QED
      BY <2>2, <3>5, <3>6
  <2> QED
    BY <1>1, <2>1, <2>2
<1>9. \/ /\ result'[c] = "in_progress" /\ ~Pending(c)'
         /\ UNCHANGED <<storeTask, changes, request, dataVars>>
      \/ /\ \A d \in Calls : ~TakenNew(d, Target[c])
         /\ result'[c] = "deleted" => gone[Target[c]]
  BY StartEffect
<1> QED
  BY <1>7, <1>8, <1>9

LEMMA FirstThread ==
  ASSUME TypeOK, CallInv, FirstInv, [Next]_vars, NEW c \in Calls, Thread(c)
  PROVE  FirstInv'
<1> USE ConstantsAssumption
<1> DEFINE a == Target[c]
<1>0. a \in Accounts /\ \A d \in Calls : Target[d] \in Accounts
  OBVIOUS
<1>1. TaskAt(a) /\ FirstAt(a) /\ BirthAt(a)
  BY DEF FirstInv
<1>2. Unborn(a) => Unborn(a)'
  BY LostStays
<1>3. \A d \in Calls : Pending(d) => Accepted(d)
  BY DEF CallInv, Accepted
\* The callbacks: the changes, the requests and the data stay.
<1>4. ASSUME UNCHANGED <<changes, request, result, dataVars>>,
             \A b \in Accounts \ {a} : storeTask'[b] = storeTask[b],
             storeTask'[a] \in {storeTask[a], NoCall},
             storeTask'[a] = storeTask[a]
               \/ \A d \in Calls : ~TakenNew(d, a),
             \A d \in Calls : Target[d] # a => status'[d] = status[d],
             \A d \in Calls : /\ Pending(d)' => status'[d] = status[d]
                              /\ TakenNew(d, a) => status'[d] = status[d],
             \A d \in Calls : status'[d] = "idle_callback"
                                => status[d] = "idle_callback",
             changes[a].created \/ (\E d \in Calls : TakenNew(d, a))
               => \A d \in Calls : Untouched(d) => Untouched(d)'
      PROVE  FirstInv'
  <2>1. UNCHANGED <<id, gone, created>>
    BY <1>4 DEF dataVars, accountVars
  <2>2. \A d \in Calls : TakenNew(d, a)' <=> TakenNew(d, a)
    BY <1>4 DEF TakenNew, Pending
  <2>3. TaskAt(a)'
    BY <1>1, <1>4 DEF TaskAt, Accepted
  <2>4. FirstAt(a)'
    BY <1>1, <1>4, <2>1, <2>2 DEF FirstAt, Fresh
  <2>5. BirthAt(a)'
    <3>1. Announced(a) => Announced(a)'
      BY <1>4, <2>1 DEF Announced, Pending
    <3> QED
      BY <1>1, <1>2, <1>4, <2>2, <3>1 DEF BirthAt
  <2> QED
    BY <1>4, <2>1, <2>3, <2>4, <2>5, FirstElsewhere
<1>5. CASE RunCallback(c)
  <2>1. /\ UNCHANGED <<changes, request, result, dataVars, storeTask>>
        /\ status[c] = "returned"
        /\ status' = [status EXCEPT ![c] = "callback"]
    BY <1>5 DEF RunCallback, Move, clientVars
  <2> QED
    BY <1>4, <2>1 DEF TakenNew, Untouched, Accepted, Pending, TypeOK
<1>6. CASE EndCallback(c)
  <2>1. /\ UNCHANGED <<changes, request, result, dataVars>>
        /\ status[c] = "callback" /\ status' = [status EXCEPT ![c] = "done"]
        /\ storeTask' = IF Accepted(c)
                        THEN [storeTask EXCEPT ![a] = NoCall] ELSE storeTask
    BY <1>6 DEF EndCallback, Move, clientVars
  <2>2. Accepted(c) => \A d \in Calls : ~TakenNew(d, a)
    BY <1>1, <2>1 DEF FirstAt, Untouched, TakenNew, Pending
  <2> QED
    BY <1>0, <1>4, <2>1, <2>2
       DEF TakenNew, Untouched, Accepted, Pending, TypeOK
<1>7. CASE EndIdleCallback(c)
  <2> DEFINE held == storeTask[a]
  <2>1. /\ UNCHANGED <<changes, request, result, dataVars>>
        /\ status[c] = "idle_callback"
        /\ status' = [d \in Calls |-> IF d = c THEN "done"
                                      ELSE IF d = held THEN "freed"
                                      ELSE status[d]]
        /\ storeTask' = [storeTask EXCEPT ![a] = NoCall]
    BY <1>7 DEF EndIdleCallback, clientVars
  <2>2. Accepted(c) /\ (held \in Calls => Target[held] = a)
    BY <1>1, <2>1 DEF TaskAt
  <2>3. /\ \A d \in Calls : ~TakenNew(d, a)
        /\ ~changes[a].created
    BY <1>1, <2>1, <2>2 DEF FirstAt, Untouched, TakenNew, Pending
  <2> QED
    BY <1>0, <1>4, <2>1, <2>2, <2>3 DEF Pending, TypeOK
\* The end of a wait.
<1>8. ASSUME Ends(c), UNCHANGED storeTask,
             \A d \in Calls \ {c} : result'[d] = result[d],
             \A b \in Accounts \ {a} : id'[b] = id[b] /\ gone'[b] = gone[b],
             created \subseteq created',
             result'[c] # "in_progress", BirthAt(a)'
      PROVE  FirstInv'
  <2>1. /\ Pending(c) /\ ~Pending(c)' /\ ~Untouched(c)
        /\ \A d \in Calls \ {c} : status'[d] = status[d]
        /\ UNCHANGED <<changes, request>>
    BY <1>3, <1>8 DEF Ends, Untouched, Pending
  <2>2. TaskAt(a)'
    BY <1>1, <1>8, <2>1 DEF TaskAt, Accepted
  <2>3. FirstAt(a)'
    <3>1. ~changes'[a].created
      BY <1>1, <2>1 DEF FirstAt
    <3>2. \A d \in Calls : ~TakenNew(d, a)'
      BY <1>1, <2>1 DEF FirstAt, TakenNew, Pending
    <3> QED
      BY <3>1, <3>2 DEF FirstAt
  <2> QED
    BY <1>8, <2>1, <2>2, <2>3, FirstElsewhere
\* The request of a call that waits, as BirthStore needs it.
<1>9. ASSUME Ends(c)
      PROVE  \/ /\ request[c].created /\ request[c].row = 0
                /\ id[a] = 0
                /\ \A d \in Calls : Target[d] = a => ~Pending(d)'
             \/ /\ ~request[c].created
                /\ \/ a \in Stored \/ Unborn(a)
                   \/ Announced(a) /\ id[a] # 0
  <2>1. /\ Pending(c) /\ ~Pending(c)' /\ ~Untouched(c)
        /\ \A d \in Calls \ {c} : status'[d] = status[d]
    BY <1>3, <1>9 DEF Ends, Untouched, Pending
  <2>2. CASE request[c].created
    <3>1. TakenNew(c, a)
      BY <2>1, <2>2 DEF TakenNew
    <3>2. \A d \in Calls \ {c} : Target[d] = a => ~Pending(d)
      BY <1>1, <1>3, <3>1 DEF FirstAt, Untouched, Pending
    <3> QED
      BY <1>1, <2>1, <2>2, <3>1, <3>2 DEF FirstAt, Fresh, Pending
  <2>3. CASE ~request[c].created
    <3>1. ~changes[a].created
      BY <1>1, <2>1 DEF FirstAt
    <3>2. \A d \in Calls : ~TakenNew(d, a)
      BY <1>1, <2>1, <2>3 DEF FirstAt, TakenNew
    <3> QED
      BY <1>1, <2>1, <2>3, <3>1, <3>2 DEF BirthAt, Announced
  <2> QED
    BY <2>2, <2>3
<1>10. CASE Retry(c) \/ WakeNow(c)
  <2>1. StoresLate(c) /\ Ends(c)
    <3>1. StoresLate(c)
      BY <1>10 DEF Retry, RetryReady, WakeNow, StoresLate, Ends, Move, Pending,
         clientVars, TypeOK
    <3> QED
      BY <3>1 DEF StoresLate
  <2>2. UNCHANGED storeTask
    BY <1>10 DEF Retry, RetryReady, WakeNow
  <2>3. /\ \E res \in {"ok", "db"} :
              Transaction(c, request[c], res) /\ Answer(c, res)
        /\ request'[c] = request[c] /\ request[c] \in Requests
    BY <2>1 DEF StoresLate, Ends, TypeOK
  <2>4. /\ \A d \in Calls \ {c} : result'[d] = result[d]
        /\ result'[c] # "in_progress"
    BY <2>3, StoreEffect
  <2>5. /\ BirthAt(a)'
        /\ \A b \in Accounts \ {a} : id'[b] = id[b] /\ gone'[b] = gone[b]
        /\ created \subseteq created'
    BY <1>9, <2>1, <2>3, BirthStore
  <2> QED
    BY <1>8, <2>1, <2>2, <2>4, <2>5
<1>11. ASSUME GivesUp(c), UNCHANGED storeTask
       PROVE  FirstInv'
  <2>1. /\ Ends(c) /\ UNCHANGED <<request, id, gone, created>>
        /\ \E x \in {"db", "cancelled"} : Answer(c, x)
    BY <1>11 DEF GivesUp, Ends, dataVars, accountVars
  <2>2. /\ \A d \in Calls \ {c} : result'[d] = result[d]
        /\ result'[c] \in {"db", "cancelled"}
    BY <2>1 DEF Answer, TypeOK
  <2>3. request[c].created => Unborn(a)'
    BY <2>1, <2>2 DEF Unborn, Failed
  <2>4. Announced(a) /\ id[a] # 0 => Announced(a)'
    BY <2>1 DEF Announced
  <2>5. BirthAt(a)'
    BY <1>2, <1>9, <2>1, <2>3, <2>4 DEF BirthAt
  <2> QED
    BY <1>8, <1>11, <2>1, <2>2, <2>5
<1>12. CASE RetryCancelled(c)
  <2>1. GivesUp(c)
    BY <1>12 DEF RetryCancelled, RetryReady, GivesUp, Ends, Move, Pending,
       clientVars, TypeOK
  <2> QED
    BY <1>11, <1>12, <2>1 DEF RetryCancelled, RetryReady
<1>13. CASE WakeBusy(c)
  <2>1. CASE UNCHANGED <<status, result>>
    <3>1. UNCHANGED <<changes, request, result, dataVars, storeTask, status>>
      BY <1>13, <2>1 DEF WakeBusy, clientVars
    <3> QED
      BY <1>4, <3>1 DEF Untouched, Accepted
  <2>2. CASE Move(c, "done") /\ Answer(c, "db")
    <3>1. GivesUp(c)
      BY <1>13, <2>2 DEF WakeBusy, GivesUp, Ends, Move, Pending, clientVars,
         TypeOK
    <3> QED
      BY <1>11, <1>13, <3>1 DEF WakeBusy
  <2> QED
    BY <1>13, <2>1, <2>2 DEF WakeBusy
<1> QED
  BY <1>5, <1>6, <1>7, <1>10, <1>12, <1>13 DEF Thread

LEMMA FirstNext ==
  ASSUME TypeOK, CallInv, FirstInv, [Next]_vars, "overtake" \notin Env
  PROVE  FirstInv'
<1>1. ASSUME UNCHANGED <<storeTask, status, request, result>>,
             UNCHANGED <<id, created>>,
             \A a \in Accounts :
               /\ gone[a] => gone'[a]
               /\ gone'[a] => gone[a] \/ id[a] # 0
               /\ changes'[a].created = changes[a].created
      PROVE  FirstInv'
  <2>1. ASSUME NEW a \in Accounts
        PROVE  TaskAt(a)' /\ FirstAt(a)' /\ BirthAt(a)'
    BY <1>1, FirstApart
  <2> QED
    BY <2>1 DEF FirstInv
<1>2. CASE \E a \in Accounts : Delete(a) \/ \E k \in Keys : Edit(a, k)
  <2>1. \A a \in Accounts : changes'[a].created = changes[a].created
    BY <1>2, DeleteEffect, EditEffect
  <2>2. UNCHANGED <<storeTask, status, request, result, id, gone, created>>
    BY <1>2 DEF Delete, Edit, callVars, dataVars, accountVars
  <2> QED
    BY <1>1, <2>1, <2>2
<1>3. CASE \/ \E c \in Calls : Cancel(c)
           \/ OtherLocks \/ OtherUnlocks \/ UNCHANGED vars
           \/ \E r \in RowIds \ {0} : OtherDeletes(r)
  BY <1>1, <1>3 DEF Cancel, OtherLocks, OtherUnlocks, OtherDeletes, vars,
     clientVars, callVars, dataVars, accountVars
<1>4. CASE \E c \in Calls : StoreAsync(c) \/ StoreBlocking(c)
  BY <1>4, FirstStart
<1>5. CASE \E c \in Calls : Thread(c)
  BY <1>5, FirstThread
<1>6. ASSUME NEW a \in Accounts, DeletionArrives(a)
      PROVE  FirstInv'
  <2>1. id[a] # 0
    BY <1>6, DeletionArrivesEffect DEF TypeOK
  <2>2. UNCHANGED <<storeTask, status, request, result, id, created, changes>>
    BY <1>6 DEF DeletionArrives, clientVars, callVars
  <2>3. gone'[a] /\ \A b \in Accounts \ {a} : gone'[b] = gone[b]
    BY <1>6, DeletionArrivesEffect
  <2> QED
    BY <1>1, <2>1, <2>2, <2>3
<1> QED
  BY <1>2, <1>3, <1>4, <1>5, <1>6 DEF Next, Client, Others

(* For clients that do not overtake a pending store with a blocking one,   *)
(* every account that got an id was announced with "account-created",      *)
(* unless the store that took it as new failed.                            *)
THEOREM CreationsAreTold ==
  ASSUME "overtake" \notin Env
  PROVE  Spec => []CreatedIsAnnounced
<1>1. FirstInv => CreatedIsAnnounced
  BY DEF FirstInv, FirstAt, BirthAt, Announced, Fresh, TakenNew, Unborn,
     CreatedIsAnnounced
<1>2. TypeOK /\ CallInv /\ FirstInv /\ [Next]_vars => FirstInv'
  BY FirstNext
<1>3. TypeOK /\ CallInv /\ [Next]_vars => CallInv'
  BY CallNext
<1> QED
  BY TypeCorrect, CallInit, FirstInit, <1>1, <1>2, <1>3, PTL DEF Spec

-----------------------------------------------------------------------------
(***************************************************************************)
(* AccountStore implements StoreContract: each of its steps is a step of   *)
(* the contract or leaves what the contract speaks of as it is.            *)
(***************************************************************************)
\* The mapped variables, call by call and account by account.
ToldOf(c) == IF status[c] \in Told THEN AsTold(Reported(c)) ELSE "nothing"

\* Only a store that can be answered later is cancelled, and the result of
\* a call is there when its callback runs.
ToldInv ==
  \A c \in Calls :
    /\ c \in cancelled => status[c] \notin {"unused", "sleeping"}
    /\ status[c] # "unused" /\ ~Pending(c) => result[c] # "none"

LEMMA ToldInit == Init => ToldInv
BY DEF Init, ToldInv

\* What a step does to the answers: it tells no one anything, or tells one
\* caller the result it has just made, or one it had made before.
AnswersOne ==
  \/ \A d \in Calls : ToldOf(d)' = ToldOf(d)
  \/ \E c \in Calls :
       /\ \A d \in Calls \ {c} : ToldOf(d)' = ToldOf(d)
       /\ ToldOf(c) = "nothing"
       /\ \/ result'[c] # result[c] /\ ToldOf(c)' = AsTold(result'[c])
          \/ /\ UNCHANGED result
             /\ result[c] # "none"
             /\ ToldOf(c)' \in {AsTold(result[c]), "cancelled"}

\* A step of one call that moves it from one status to another.
LEMMA MoveStep ==
  ASSUME TypeOK, ToldInv, NEW c \in Calls, UNCHANGED cancelled,
         \A d \in Calls \ {c} : status'[d] = status[d]
                                /\ result'[d] = result[d],
         \/ status'[c] = "sleeping" /\ c \notin cancelled
         \/ status'[c] = "waiting"
         \/ status'[c] \notin {"unused", "waiting", "sleeping"}
              /\ result'[c] # "none"
  PROVE  /\ ToldInv'
         /\ \A d \in Calls \ {c} : ToldOf(d)' = ToldOf(d)
BY DEF ToldInv, ToldOf, Reported, Pending

LEMMA ToldAsync ==
  ASSUME TypeOK, ToldInv, NEW c \in Calls, StoreAsync(c)
  PROVE  ToldInv' /\ AnswersOne
<1>1. /\ status[c] = "unused" /\ UNCHANGED cancelled
      /\ \E s \in {"returned", "waiting"} : Move(c, s)
      /\ \/ \E x \in {"in_progress", "ok", "deleted", "db"} : Answer(c, x)
         \/ UNCHANGED result /\ Move(c, "waiting")
  BY DEF StoreAsync, StoreRejected, StoreNothing, StoreDeleted, StoreBusy,
         StoreNow, StoreStarts, BeginAsync
<1>2. /\ status'[c] \in {"returned", "waiting"}
      /\ status'[c] = "returned" => result'[c] # "none"
      /\ \A d \in Calls \ {c} : status'[d] = status[d]
                                /\ result'[d] = result[d]
  BY <1>1 DEF Move, Answer, TypeOK
<1>3. ToldInv' /\ \A d \in Calls \ {c} : ToldOf(d)' = ToldOf(d)
  BY <1>1, <1>2, MoveStep
<1>4. ToldOf(c)' = ToldOf(c)
  BY <1>1, <1>2 DEF ToldOf, Told
<1> QED
  BY <1>3, <1>4 DEF AnswersOne

LEMMA ToldBlocking ==
  ASSUME TypeOK, CallInv, ToldInv, NEW c \in Calls, StoreBlocking(c)
  PROVE  ToldInv' /\ AnswersOne
<1>1. /\ status[c] = "unused" /\ UNCHANGED cancelled
      /\ \/ \E x \in {"ok", "deleted", "db"} : Answer(c, x) /\ Move(c, "done")
         \/ UNCHANGED result /\ Move(c, "sleeping")
  BY DEF StoreBlocking, BlockingNothing, BlockingDeleted, BlockingBusy,
         BlockingNow, BeginBlocking
<1>2. /\ c \notin cancelled /\ result[c] = "none" /\ ToldOf(c) = "nothing"
  BY <1>1 DEF ToldInv, CallInv, ToldOf, Told
<1>3. CASE UNCHANGED result /\ Move(c, "sleeping")
  <2>1. /\ status'[c] = "sleeping"
        /\ \A d \in Calls \ {c} : status'[d] = status[d]
                                  /\ result'[d] = result[d]
    BY <1>3 DEF Move, TypeOK
  <2>2. ToldInv' /\ \A d \in Calls \ {c} : ToldOf(d)' = ToldOf(d)
    BY <1>1, <1>2, <2>1, MoveStep
  <2>3. ToldOf(c)' = ToldOf(c)
    BY <1>1, <1>2, <2>1 DEF ToldOf, Told
  <2> QED
    BY <2>2, <2>3 DEF AnswersOne
<1>4. ASSUME NEW x \in {"ok", "deleted", "db"}, Answer(c, x), Move(c, "done")
      PROVE  ToldInv' /\ AnswersOne
  <2>1. /\ status'[c] = "done" /\ result'[c] = x
        /\ \A d \in Calls \ {c} : status'[d] = status[d]
                                  /\ result'[d] = result[d]
    BY <1>4 DEF Move, Answer, TypeOK
  <2>2. ToldInv' /\ \A d \in Calls \ {c} : ToldOf(d)' = ToldOf(d)
    BY <1>1, <2>1, MoveStep
  <2>3. ToldOf(c)' = AsTold(result'[c])
    BY <1>1, <1>2, <2>1 DEF ToldOf, Told, Reported
  <2> QED
    BY <1>2, <2>1, <2>2, <2>3 DEF AnswersOne
<1> QED
  BY <1>1, <1>3, <1>4

LEMMA ToldThread ==
  ASSUME TypeOK, GuardInv, CallInv, ToldInv, NEW c \in Calls, Thread(c)
  PROVE  ToldInv' /\ AnswersOne
\* The end of a wait: the caller is told in the same step.
<1>1. ASSUME Pending(c), UNCHANGED cancelled,
             NEW s \in {"idle_callback", "done"}, Move(c, s),
             NEW x \in {"ok", "db", "cancelled"}, Answer(c, x),
             c \in cancelled => x = "cancelled"
      PROVE  ToldInv' /\ AnswersOne
  <2>1. /\ status'[c] \in {"idle_callback", "done"} /\ result'[c] = x
        /\ \A d \in Calls \ {c} : status'[d] = status[d]
                                  /\ result'[d] = result[d]
    BY <1>1 DEF Move, Answer, TypeOK
  <2>2. ToldInv' /\ \A d \in Calls \ {c} : ToldOf(d)' = ToldOf(d)
    BY <1>1, <2>1, MoveStep
  <2>3. result[c] = "none" /\ ToldOf(c) = "nothing"
    BY <1>1 DEF CallInv, ToldOf, Told, Pending
  <2>4. ToldOf(c)' = AsTold(result'[c])
    BY <1>1, <2>1 DEF ToldOf, Told, Reported
  <2> QED
    BY <2>1, <2>2, <2>3, <2>4 DEF AnswersOne
<1>2. CASE Retry(c)
  BY <1>1, <1>2 DEF Retry, RetryReady, Pending, clientVars
<1>3. CASE RetryCancelled(c)
  BY <1>1, <1>3 DEF RetryCancelled, RetryReady, Pending, clientVars
<1>4. CASE RunCallback(c)
  <2>1. /\ status[c] = "returned" /\ status'[c] = "callback"
        /\ \A d \in Calls \ {c} : status'[d] = status[d]
        /\ UNCHANGED <<cancelled, result>>
    BY <1>4 DEF RunCallback, Move, clientVars, TypeOK
  <2>2. result[c] # "none"
    BY <2>1 DEF ToldInv, Pending
  <2>3. ToldInv' /\ \A d \in Calls \ {c} : ToldOf(d)' = ToldOf(d)
    BY <2>1, <2>2, MoveStep
  <2>4. /\ ToldOf(c) = "nothing"
        /\ ToldOf(c)' = AsTold(Reported(c))
    BY <2>1 DEF ToldOf, Told, Reported
  <2>5. AsTold(Reported(c)) \in {AsTold(result[c]), "cancelled"}
    BY DEF AsTold, Reported
  <2> QED
    BY <2>1, <2>2, <2>3, <2>4, <2>5 DEF AnswersOne
<1>5. ASSUME UNCHANGED <<cancelled, result>>,
             status[c] \in {"callback", "idle_callback"},
             status'[c] = "done",
             \A d \in Calls \ {c} : status'[d] = status[d]
      PROVE  ToldInv' /\ AnswersOne
  <2>1. result[c] # "none"
    BY <1>5 DEF ToldInv, Pending
  <2>2. ToldInv' /\ \A d \in Calls \ {c} : ToldOf(d)' = ToldOf(d)
    BY <1>5, <2>1, MoveStep
  <2>3. ToldOf(c)' = ToldOf(c)
    BY <1>5 DEF ToldOf, Told, Reported
  <2> QED
    BY <2>2, <2>3 DEF AnswersOne
<1>6. CASE EndCallback(c)
  BY <1>5, <1>6 DEF EndCallback, Move, clientVars, TypeOK
<1>7. CASE EndIdleCallback(c)
  <2>1. storeTask[Target[c]] = c
    BY <1>7 DEF EndIdleCallback, GuardInv
  <2> QED
    BY <1>5, <1>7, <2>1 DEF EndIdleCallback, clientVars, TypeOK
<1>8. CASE WakeBusy(c)
  <2>1. status[c] = "sleeping" /\ UNCHANGED cancelled /\ c \notin cancelled
    BY <1>8 DEF WakeBusy, clientVars, ToldInv
  <2>2. CASE UNCHANGED <<status, result>>
    BY <2>1, <2>2 DEF ToldInv, AnswersOne, ToldOf, Reported, Pending
  <2>3. CASE Move(c, "done") /\ Answer(c, "db")
    BY <1>1, <2>1, <2>3 DEF Pending
  <2> QED
    BY <1>8, <2>2, <2>3 DEF WakeBusy
<1>9. CASE WakeNow(c)
  <2>1. status[c] = "sleeping" /\ UNCHANGED cancelled /\ c \notin cancelled
    BY <1>9 DEF WakeNow, clientVars, ToldInv
  <2> QED
    BY <1>1, <1>9, <2>1 DEF WakeNow, Pending
<1> QED
  BY <1>2, <1>3, <1>4, <1>6, <1>7, <1>8, <1>9 DEF Thread

LEMMA ToldNext ==
  ASSUME TypeOK, GuardInv, CallInv, ToldInv, [Next]_vars
  PROVE  ToldInv' /\ AnswersOne
<1>1. ASSUME UNCHANGED <<cancelled, status, result>>
      PROVE  ToldInv' /\ AnswersOne
  BY <1>1 DEF ToldInv, AnswersOne, ToldOf, Reported, Pending
<1>2. ASSUME NEW c \in Calls, Cancel(c)
      PROVE  ToldInv' /\ AnswersOne
  <2>1. /\ status[c] \in {"waiting", "returned"}
        /\ cancelled' = cancelled \cup {c}
        /\ UNCHANGED <<status, result>>
    BY <1>2 DEF Cancel, callVars
  <2>2. \A d \in Calls : ToldOf(d)' = ToldOf(d)
    BY <2>1 DEF ToldOf, Told, Reported
  <2> QED
    BY <2>1, <2>2 DEF ToldInv, AnswersOne, Pending
<1>3. CASE Client
  BY <1>1, <1>2, <1>3, ToldAsync, ToldBlocking
     DEF Client, Delete, Edit, callVars
<1>4. CASE \E c \in Calls : Thread(c)
  BY <1>4, ToldThread
<1>5. CASE Others \/ UNCHANGED vars
  BY <1>1, <1>5 DEF Others, OtherLocks, OtherUnlocks, OtherDeletes,
     DeletionArrives, vars, clientVars, callVars
<1> QED
  BY <1>3, <1>4, <1>5 DEF Next

-----------------------------------------------------------------------------
(***************************************************************************)
(* What the contract needs beyond the invariants above: a call that was    *)
(* not made has taken nothing, and an account deleted through the manager  *)
(* has a row and that row is dead.                                         *)
(***************************************************************************)
UnmadeInv == \A c \in Calls : status[c] = "unused" => request[c] = NoRequest

GoneInv == \A a \in Accounts : gone[a] => id[a] # 0 /\ ~rows[id[a]].live

LEMMA UnmadeInit == Init => UnmadeInv /\ GoneInv
BY DEF Init, UnmadeInv, GoneInv

LEMMA UnmadeNext ==
  ASSUME TypeOK, UnmadeInv, [Next]_vars
  PROVE  UnmadeInv'
<1>1. ASSUME UNCHANGED request,
             \A d \in Calls : status'[d] = "unused" => status[d] = "unused"
      PROVE  UnmadeInv'
  BY <1>1 DEF UnmadeInv, NoRequest, Request, NoChanges, NoValues
<1>2. ASSUME NEW c \in Calls, Takes(c) \/ StoresAtOnce(c)
      PROVE  UnmadeInv'
  <2>1. /\ \A d \in Calls \ {c} : status'[d] = status[d]
                                  /\ request'[d] = request[d]
        /\ status'[c] # "unused"
    BY <1>2, StealEffect DEF Takes, StoresAtOnce, Begins
  <2> QED
    BY <2>1 DEF UnmadeInv, NoRequest, Request, NoChanges, NoValues
<1> QED
  BY <1>1, <1>2, OtherDeletesEffect, DeletionArrivesEffect, Steps
     DEF Idle, Delete, Edit, AnswersAtOnce, StoresLate, GivesUp, Begins, Ends,
         callVars

LEMMA GoneCommit ==
  ASSUME TypeOK, ForeignInv, IdInv, GoneInv, NEW a \in Accounts,
         NEW q \in Requests, IdRequest(a, q), Commit(a, q),
         gone[a] => q.row = id[a]
  PROVE  GoneInv'
<1>1. /\ IsInsert(q) => nextRow \in RowIds
      /\ rows' = RowsAfter(q) /\ id'[a] = IdAfter(a, q)
      /\ \A b \in Accounts \ {a} : id'[b] = id[b] /\ gone'[b] = gone[b]
      /\ gone'[a] <=> gone[a] \/ q.deleted
  BY CommitEffect
<1>2. q.row \in RowIds /\ q.deleted \in BOOLEAN
  BY DEF Requests
<1>3. \A b \in Accounts : id[b] \in RowIds /\ id[b] # nextRow
  BY ConstantsAssumption DEF IdInv, TypeOK, RowIds
<1>4. ASSUME gone'[a]
      PROVE  id'[a] # 0 /\ ~rows'[id'[a]].live
  <2>1. q.row # 0 /\ q.row = id[a] /\ id'[a] = id[a]
    BY <1>1, <1>4 DEF IdRequest, GoneInv, IdAfter
  <2>2. CASE q.deleted
    <3>1. rows'[id[a]] = EmptyRow
      BY <1>1, <1>2, <2>1, <2>2, RowAfter
    <3> QED
      BY <2>1, <3>1 DEF EmptyRow
  <2>3. CASE ~q.deleted
    <3>1. rows'[id[a]].live = rows[id[a]].live
      BY <1>1, <1>2, <2>1, <2>3, RowAfter
    <3> QED
      BY <1>1, <1>4, <2>1, <2>3, <3>1 DEF GoneInv
  <2> QED
    BY <1>2, <2>2, <2>3
<1>5. ASSUME NEW b \in Accounts \ {a}, gone'[b]
      PROVE  id'[b] # 0 /\ ~rows'[id'[b]].live
  <2>1. id'[b] = id[b] /\ id[b] # 0 /\ ~rows[id[b]].live
    BY <1>1, <1>5 DEF GoneInv
  <2>2. id[b] # q.row
    BY <1>2, <2>1 DEF IdRequest, IdInv
  <2>3. rows'[id[b]] = rows[id[b]]
    BY <1>1, <1>3, <2>2, RowAfter
  <2> QED
    BY <2>1, <2>3
<1> QED
  BY <1>4, <1>5 DEF GoneInv

LEMMA GoneNext ==
  ASSUME TypeOK, ForeignInv, RowInv, IdInv, GoneInv, [Next]_vars
  PROVE  GoneInv'
<1>1. ASSUME UNCHANGED accountVars
      PROVE  GoneInv'
  BY <1>1 DEF GoneInv, accountVars
<1>2. ASSUME NEW c \in Calls, NEW q \in Requests,
             \E res \in {"ok", "db"} :
               Transaction(c, q, res) /\ Answer(c, res),
             IdRequest(Target[c], q), gone[Target[c]] => q.row = id[Target[c]]
      PROVE  GoneInv'
  BY <1>1, <1>2, StoreEffect, GoneCommit, ConstantsAssumption
<1>3. ASSUME NEW c \in Calls, StoresAtOnce(c)
      PROVE  GoneInv'
  BY <1>2, <1>3, NewRequestType, NewRequestFields, IdNewRequest,
     ConstantsAssumption DEF StoresAtOnce
<1>4. ASSUME NEW c \in Calls, StoresLate(c)
      PROVE  GoneInv'
  <2>1. /\ request[c] \in Requests /\ IdRequest(Target[c], request[c])
        /\ request[c].row = id[Target[c]]
    BY <1>4 DEF StoresLate, Ends, IdInv, RowInv, TypeOK
  <2> QED
    BY <1>2, <1>4, <2>1 DEF StoresLate
<1>5. ASSUME NEW r \in RowIds \ {0}, OtherDeletes(r)
      PROVE  GoneInv'
  BY <1>5, OtherDeletesEffect DEF GoneInv, TypeOK
<1>6. ASSUME NEW a \in Accounts, DeletionArrives(a)
      PROVE  GoneInv'
  <2>1. id[a] \in foreign /\ id[a] # 0 /\ ~rows[id[a]].live
    BY <1>6, DeletionArrivesEffect DEF ForeignInv, TypeOK
  <2> QED
    BY <1>6, <2>1, DeletionArrivesEffect DEF GoneInv
<1> QED
  BY <1>1, <1>3, <1>4, <1>5, <1>6, Steps
     DEF Idle, Delete, Edit, AnswersAtOnce, Takes, GivesUp, dataVars

-----------------------------------------------------------------------------
(* The steps of the contract, from what a step does to one call.           *)

LEMMA InitRefines == Init => Contract!Init
<1> SUFFICES ASSUME Init PROVE Contract!Init
  OBVIOUS
<1>1. ASSUME NEW a \in Accounts
      PROVE  KeptIn(a) = NoValues /\ AsEdits(changes[a]) = AsEdits(NoChanges)
  <2>1. id[a] \in RowIds
    BY InitType DEF TypeOK
  <2>2. rows[id[a]].vals = NoValues
    BY <2>1 DEF Init
  <2> QED
    BY <2>2 DEF KeptIn, Init, AsEdits, NewChanges, NoChanges
<1>2. \A c \in Calls : AsOutcome(c) = "open" /\ request[c] = NoRequest
  BY DEF Init, AsOutcome
<1>3. \A c \in Calls : status[c] \notin Told
  BY DEF Init, Told
<1>4. \A a \in Accounts : ~gone[a] /\ id[a] \notin foreign
  BY DEF Init
<1>5. AsEdits(NoChanges) = Contract!NoEdits
  BY DEF AsEdits, NoChanges, NoValues, Contract!NoEdits, Contract!NoValues
<1>6. AsEdits(NoRequest) = Contract!NoEdits
  BY DEF AsEdits, NoRequest, Request, NoChanges, NoValues, Contract!NoEdits,
     Contract!NoValues
<1> QED
  BY <1>1, <1>2, <1>3, <1>4, <1>5, <1>6
     DEF Contract!Init, NoValues, Contract!NoValues

\* The call gets its result: it is decided, and its caller may be told.
LEMMA DecideStep ==
  ASSUME AnswersOne, NEW c \in Calls, result[c] = "none", result'[c] # "none",
         \A d \in Calls \ {c} : status'[d] = status[d] /\ result'[d] = result[d]
  PROVE  Contract!Decide(c, IF result'[c] = "ok" THEN "ok" ELSE "error",
                         {AsTold(result'[c])})
<1>1. /\ AsOutcome(c)' = IF result'[c] = "ok" THEN "ok" ELSE "error"
      /\ \A d \in Calls \ {c} : AsOutcome(d)' = AsOutcome(d)
  <2>1. CASE result'[c] = "ok"
    BY <2>1 DEF AsOutcome
  <2>2. CASE result'[c] # "ok"
    BY <2>2 DEF AsOutcome
  <2>3. \A d \in Calls \ {c} : AsOutcome(d)' = AsOutcome(d)
    BY DEF AsOutcome
  <2> QED
    BY <2>1, <2>2, <2>3
<1>2. \/ \A d \in Calls : ToldOf(d)' = ToldOf(d)
      \/ /\ \A d \in Calls \ {c} : ToldOf(d)' = ToldOf(d)
         /\ ToldOf(c)' = AsTold(result'[c])
  BY DEF AnswersOne
<1>3. [d \in Calls |-> AsOutcome(d)]'
        = [[d \in Calls |-> AsOutcome(d)]
             EXCEPT ![c] = IF result'[c] = "ok" THEN "ok" ELSE "error"]
  BY <1>1
<1>4. \/ [d \in Calls |-> ToldOf(d)]' = [d \in Calls |-> ToldOf(d)]
      \/ [d \in Calls |-> ToldOf(d)]'
           = [[d \in Calls |-> ToldOf(d)] EXCEPT ![c] = AsTold(result'[c])]
  BY <1>2
<1> QED
  BY <1>3, <1>4 DEF Contract!Decide, ToldOf

\* The call has its edits: it takes those of its account now, or it waited.
LEMMA HoldsStep ==
  ASSUME TypeOK, NEW c \in Calls,
         \/ /\ AsOutcome(c) = "open"
            /\ AsEdits(request'[c]) = AsEdits(changes[Target[c]])
            /\ AsEdits(changes'[Target[c]]) = AsEdits(NoChanges)
            /\ \A d \in Calls \ {c} : request'[d] = request[d]
            /\ \A a \in Accounts \ {Target[c]} : changes'[a] = changes[a]
         \/ AsOutcome(c) = "taken" /\ UNCHANGED <<changes, request>>
  PROVE  Contract!HoldsEdits(c)
<1>1. AsEdits(NoChanges) = Contract!NoEdits
  BY DEF AsEdits, NoChanges, NoValues, Contract!NoEdits, Contract!NoValues
<1>2. Target[c] \in Accounts
  BY ConstantsAssumption
<1>3. CASE /\ AsOutcome(c) = "open"
           /\ AsEdits(request'[c]) = AsEdits(changes[Target[c]])
           /\ AsEdits(changes'[Target[c]]) = AsEdits(NoChanges)
           /\ \A d \in Calls \ {c} : request'[d] = request[d]
           /\ \A a \in Accounts \ {Target[c]} : changes'[a] = changes[a]
  <2>1. [d \in Calls |-> AsEdits(request[d])]'
          = [[d \in Calls |-> AsEdits(request[d])]
               EXCEPT ![c] = AsEdits(changes[Target[c]])]
    BY <1>3
  <2>2. [a \in Accounts |-> AsEdits(changes[a])]'
          = [[a \in Accounts |-> AsEdits(changes[a])]
               EXCEPT ![Target[c]] = Contract!NoEdits]
    BY <1>1, <1>3
  <2> QED
    BY <1>2, <1>3, <2>1, <2>2 DEF Contract!HoldsEdits, Contract!TakesEdits
<1>4. CASE AsOutcome(c) = "taken" /\ UNCHANGED <<changes, request>>
  BY <1>4 DEF Contract!HoldsEdits
<1> QED
  BY <1>3, <1>4

\* What the contract keeps, has deleted and has seen vanish.
DataAsBefore ==
  /\ \A a \in Accounts : KeptIn(a)' = KeptIn(a)
  /\ \A a \in Accounts : (gone'[a] /\ id'[a] \notin foreign')
                           <=> (gone[a] /\ id[a] \notin foreign)
  /\ \A a \in Accounts : id'[a] \in foreign' <=> id[a] \in foreign

LEMMA DataStays ==
  ASSUME DataAsBefore
  PROVE  /\ [a \in Accounts |-> KeptIn(a)]' = [a \in Accounts |-> KeptIn(a)]
         /\ {a \in Accounts : gone[a] /\ id[a] \notin foreign}'
              = {a \in Accounts : gone[a] /\ id[a] \notin foreign}
         /\ {a \in Accounts : id[a] \in foreign}'
              = {a \in Accounts : id[a] \in foreign}
BY DEF DataAsBefore

LEMMA SameData == ASSUME UNCHANGED accountVars PROVE DataAsBefore
BY DEF DataAsBefore, accountVars, KeptIn

\* A step that decides nothing, takes nothing and leaves the data alone.
LEMMA QuietStep ==
  ASSUME AnswersOne, DataAsBefore, UNCHANGED <<result, request>>,
         \A a \in Accounts : AsEdits(changes'[a]) = AsEdits(changes[a]),
         \A d \in Calls : AsOutcome(d)' = AsOutcome(d)
  PROVE  [Contract!Next]_(Contract!vars)
<1>1. /\ [a \in Accounts |-> AsEdits(changes[a])]'
           = [a \in Accounts |-> AsEdits(changes[a])]
      /\ [d \in Calls |-> AsEdits(request[d])]'
           = [d \in Calls |-> AsEdits(request[d])]
      /\ [d \in Calls |-> AsOutcome(d)]' = [d \in Calls |-> AsOutcome(d)]
  OBVIOUS
<1>2. CASE \A d \in Calls : ToldOf(d)' = ToldOf(d)
  <2>1. [d \in Calls |-> ToldOf(d)]' = [d \in Calls |-> ToldOf(d)]
    BY <1>2
  <2> QED
    BY <1>1, <2>1, DataStays DEF Contract!vars, ToldOf
<1>3. ASSUME NEW c \in Calls,
             \A d \in Calls \ {c} : ToldOf(d)' = ToldOf(d),
             ToldOf(c) = "nothing", result[c] # "none",
             ToldOf(c)' \in {AsTold(result[c]), "cancelled"}
      PROVE  Contract!Tell(c)
  <2>1. /\ AsOutcome(c) \in {"ok", "error"}
        /\ ToldOf(c)' \in {AsOutcome(c), "cancelled"}
    <3>1. CASE result[c] = "ok"
      BY <1>3, <3>1 DEF AsOutcome, AsTold
    <3>2. CASE result[c] # "ok"
      BY <1>3, <3>2 DEF AsOutcome, AsTold
    <3> QED
      BY <3>1, <3>2
  <2>2. [d \in Calls |-> ToldOf(d)]'
          = [[d \in Calls |-> ToldOf(d)] EXCEPT ![c] = ToldOf(c)']
    BY <1>3
  <2> QED
    BY <1>1, <1>3, <2>1, <2>2, DataStays DEF Contract!Tell, ToldOf
<1> QED
  BY <1>2, <1>3 DEF AnswersOne, Contract!Next

\* What one commit does to the accounts, as the contract sees them.
LEMMA CommitKeeps ==
  ASSUME TypeOK, TypeOK', ForeignInv, RowInv, IdInv, NEW a \in Accounts,
         NEW q \in Requests, Commit(a, q), q.row = id[a], Held(a),
         gone[a] => id[a] \in foreign, IdRequest(a, q)
  PROVE  /\ KeptIn(a)' = IF q.deleted THEN NoValues
                         ELSE Overlay(KeptIn(a), q.vals)
         /\ \A b \in Accounts \ {a} : KeptIn(b)' = KeptIn(b)
         /\ \A b \in Accounts : id'[b] \in foreign' <=> id[b] \in foreign
         /\ \A b \in Accounts \ {a} : gone'[b] <=> gone[b]
         /\ gone'[a] <=> gone[a] \/ q.deleted
<1>1. /\ q.row \in RowIds /\ q.deleted \in BOOLEAN /\ q.vals \in Values
      /\ \A b \in Accounts : id[b] \in RowIds /\ id[b] \in Nat
      /\ nextRow \in Nat
  BY ConstantsAssumption DEF Requests, TypeOK, RowIds
<1>2. /\ IsInsert(q) => nextRow \in RowIds
      /\ rows' = RowsAfter(q)
      /\ id'[a] = IdAfter(a, q)
      /\ \A b \in Accounts \ {a} : id'[b] = id[b]
      /\ \A b \in Accounts \ {a} : gone'[b] = gone[b]
      /\ gone'[a] <=> gone[a] \/ q.deleted
      /\ foreign' = foreign
  BY CommitEffect
<1>3. ASSUME q.deleted
      PROVE  KeptIn(a)' = NoValues
  <2>1. q.row # 0 /\ id'[a] = id[a]
    BY <1>3, OrderlyCommit DEF IdRequest
  <2>2. rows'[id[a]] = EmptyRow
    BY <1>1, <1>2, <1>3, <2>1, RowAfter
  <2>3. rows'[id'[a]].vals = NoValues
    BY <2>1, <2>2 DEF EmptyRow
  <2> QED
    BY <2>3 DEF KeptIn
<1>4. ~q.deleted => KeptIn(a)' = Overlay(KeptIn(a), q.vals)
  BY OrderlyCommit
<1>5. ASSUME NEW b \in Accounts \ {a}
      PROVE  KeptIn(b)' = KeptIn(b)
  <2>1. CASE id[b] = 0
    BY <1>2, <2>1 DEF KeptIn
  <2>2. CASE id[b] # 0
    <3>1. id[b] # q.row /\ id[b] # nextRow
      BY <1>1, <2>2 DEF IdInv
    <3>2. rows'[id[b]] = rows[id[b]]
      BY <1>1, <1>2, <3>1, RowAfter
    <3> QED
      BY <1>2, <3>2 DEF KeptIn
  <2> QED
    BY <2>1, <2>2
<1>6. id'[a] \in foreign' <=> id[a] \in foreign
  <2>1. CASE q.row # 0
    BY <1>2, <2>1 DEF IdAfter
  <2>2. CASE q.row = 0
    <3>1. id[a] = 0 /\ id'[a] = nextRow
      BY <1>1, <1>2, <2>2 DEF IdRequest, IdAfter, LastIdAfter, IsInsert
    <3>2. nextRow \notin foreign /\ 0 \notin foreign
      BY <1>1 DEF ForeignInv, TypeOK
    <3> QED
      BY <1>2, <3>1, <3>2
  <2> QED
    BY <2>1, <2>2
<1> QED
  BY <1>1, <1>2, <1>3, <1>4, <1>5, <1>6

\* The commit of a call is a Save of the contract.
LEMMA CommitStep ==
  ASSUME TypeOK, TypeOK', ForeignInv, RowInv, IdInv, AnswersOne,
         NEW c \in Calls, NEW q \in Requests, Commit(Target[c], q),
         request'[c] = q, result[c] = "none", result'[c] = "ok",
         \A d \in Calls \ {c} : status'[d] = status[d] /\ result'[d] = result[d],
         q.row = id[Target[c]], Held(Target[c]),
         gone[Target[c]] => id[Target[c]] \in foreign, IdRequest(Target[c], q),
         Contract!HoldsEdits(c)
  PROVE  Contract!Save(c)
<1> DEFINE a    == Target[c]
           mine == [d \in Calls |-> AsEdits(request[d])]'[c]
           keeps == [b \in Accounts |-> KeptIn(b)]
           lost  == {b \in Accounts : gone[b] /\ id[b] \notin foreign}
           away  == {b \in Accounts : id[b] \in foreign}
<1>1. a \in Accounts /\ q.deleted \in BOOLEAN
  BY ConstantsAssumption DEF Requests
<1>2. Contract!Decide(c, "ok", {"ok"})
  <2>1. Contract!Decide(c, "ok", {AsTold(result'[c])})
    BY DecideStep
  <2>2. AsTold(result'[c]) = "ok"
    BY DEF AsTold
  <2> QED
    BY <2>1, <2>2 DEF Contract!Decide
<1>3. mine.vals = q.vals /\ mine.delete = q.deleted
  BY DEF AsEdits
<1>4. /\ KeptIn(a)' = IF q.deleted THEN NoValues
                      ELSE Overlay(KeptIn(a), q.vals)
      /\ \A b \in Accounts \ {a} : KeptIn(b)' = KeptIn(b)
      /\ \A b \in Accounts : id'[b] \in foreign' <=> id[b] \in foreign
      /\ \A b \in Accounts \ {a} : gone'[b] <=> gone[b]
      /\ gone'[a] <=> gone[a] \/ q.deleted
  BY <1>1, CommitKeeps
<1>5. keeps' = [keeps EXCEPT ![a] = IF mine.delete THEN Contract!NoValues
                                    ELSE Contract!Overlay(@, mine.vals)]
  <2>1. keeps[a] = KeptIn(a)
    BY <1>1
  <2>2. keeps' = [keeps EXCEPT ![a] = KeptIn(a)']
    BY <1>1, <1>4
  <2>3. KeptIn(a)' = IF mine.delete THEN Contract!NoValues
                     ELSE Contract!Overlay(keeps[a], mine.vals)
    <3>1. Contract!Overlay(keeps[a], mine.vals) = Overlay(KeptIn(a), q.vals)
      BY <1>3, <2>1 DEF Overlay, Contract!Overlay
    <3>2. Contract!NoValues = NoValues
      BY DEF NoValues, Contract!NoValues
    <3> HIDE DEF mine, keeps
    <3> QED
      BY <1>3, <1>4, <3>1, <3>2
  <2> QED
    BY <2>2, <2>3
<1>6. away' = away /\ a \notin lost
  BY <1>1, <1>4
<1>7. lost' = IF mine.delete /\ a \notin away THEN lost \cup {a} ELSE lost
  BY <1>1, <1>3, <1>4
<1> QED
  BY <1>2, <1>5, <1>6, <1>7 DEF Contract!Save

\* A call fails without writing anything; Lose and Refuse differ in whether
\* it had edits.
LEMMA FailStep ==
  ASSUME AnswersOne, DataAsBefore, NEW c \in Calls,
         result[c] = "none", result'[c] \notin {"none", "ok"},
         \A d \in Calls \ {c} : status'[d] = status[d] /\ result'[d] = result[d]
  PROVE  /\ Contract!HoldsEdits(c) => Contract!Lose(c)
         /\ /\ AsOutcome(c) = "open" /\ AsTold(result'[c]) = "error"
            /\ UNCHANGED <<changes, request>>
            => Contract!Refuse(c)
<1>1. Contract!Decide(c, "error", {AsTold(result'[c])})
  BY DecideStep DEF Contract!Decide
<1>2. AsTold(result'[c]) \in {"error", "cancelled"}
  BY DEF AsTold
<1>3. Contract!Decide(c, "error", {"error", "cancelled"})
  BY <1>1, <1>2 DEF Contract!Decide
<1>4. AsTold(result'[c]) = "error" => Contract!Decide(c, "error", {"error"})
  BY <1>1 DEF Contract!Decide
<1> QED
  BY <1>3, <1>4, DataStays DEF Contract!Lose, Contract!Refuse

\* A transaction, whatever comes of it.
LEMMA StoreRefines ==
  ASSUME TypeOK, TypeOK', ForeignInv, RowInv, IdInv, AnswersOne,
         NEW c \in Calls, NEW q \in Requests, result[c] = "none",
         \E res \in {"ok", "db"} : Transaction(c, q, res) /\ Answer(c, res),
         \A d \in Calls \ {c} : status'[d] = status[d],
         request'[c] = q, q.row = id[Target[c]], Held(Target[c]),
         gone[Target[c]] => id[Target[c]] \in foreign, IdRequest(Target[c], q),
         Contract!HoldsEdits(c)
  PROVE  Contract!Next
<1>1. /\ \A d \in Calls \ {c} : result'[d] = result[d]
      /\ \/ result'[c] = "ok" /\ Commit(Target[c], q)
         \/ result'[c] = "db" /\ UNCHANGED accountVars
  BY StoreEffect
<1>2. CASE result'[c] = "ok" /\ Commit(Target[c], q)
  BY <1>1, <1>2, CommitStep DEF Contract!Next
<1>3. CASE result'[c] = "db" /\ UNCHANGED accountVars
  BY <1>1, <1>3, SameData, FailStep DEF Contract!Next
<1> QED
  BY <1>1, <1>2, <1>3

\* A call that is answered at once is refused, or has nothing to write.
LEMMA AnswerRefines ==
  ASSUME TypeOK, CallInv, UnmadeInv, AnswersOne, NEW c \in Calls,
         AnswersAtOnce(c)
  PROVE  Contract!Next
<1>1. PICK x \in {"in_progress", "deleted", "ok"} :
        Answer(c, x) /\ (x = "ok" => changes[Target[c]] = NoChanges)
  BY DEF AnswersAtOnce
<1>2. /\ status[c] = "unused" /\ result[c] = "none" /\ result'[c] = x
      /\ \A d \in Calls \ {c} : status'[d] = status[d] /\ result'[d] = result[d]
      /\ UNCHANGED <<changes, request>> /\ DataAsBefore
      /\ Target[c] \in Accounts
  BY <1>1, SameData, ConstantsAssumption
     DEF AnswersAtOnce, Begins, CallInv, Answer, TypeOK, dataVars
<1>3. AsOutcome(c) = "open"
  BY <1>2 DEF AsOutcome
<1>4. CASE x # "ok"
  <2>1. AsTold(result'[c]) = "error"
    BY <1>2, <1>4 DEF AsTold
  <2> QED
    BY <1>2, <1>3, <1>4, <2>1, FailStep DEF Contract!Next
<1>5. CASE x = "ok"
  <2> DEFINE keeps == [b \in Accounts |-> KeptIn(b)]
             mine  == [d \in Calls |-> AsEdits(request[d])]'[c]
  <2>1. Contract!Decide(c, "ok", {"ok"})
    <3>1. AsTold(result'[c]) = "ok"
      BY <1>2, <1>5 DEF AsTold
    <3>2. Contract!Decide(c, IF result'[c] = "ok" THEN "ok" ELSE "error",
                          {AsTold(result'[c])})
      BY <1>2, <1>5, DecideStep
    <3> QED
      BY <1>2, <1>5, <3>1, <3>2 DEF Contract!Decide
  <2>2. AsEdits(NoRequest) = AsEdits(NoChanges)
    BY DEF AsEdits, NoRequest, Request, NoChanges
  <2>3. request[c] = NoRequest /\ changes[Target[c]] = NoChanges
    BY <1>1, <1>2, <1>5 DEF UnmadeInv
  <2>4. Contract!HoldsEdits(c)
    BY <1>2, <1>3, <2>2, <2>3, HoldsStep
  <2>5. mine = Contract!NoEdits
    <3>1. AsEdits(NoChanges) = Contract!NoEdits
      BY DEF AsEdits, NoChanges, NoValues, Contract!NoEdits,
         Contract!NoValues
    <3> QED
      BY <1>2, <2>2, <2>3, <3>1
  <2>6. Contract!NoEdits.delete = FALSE
        /\ Contract!NoEdits.vals = Contract!NoValues
    BY DEF Contract!NoEdits
  <2>7. Contract!Overlay(keeps[Target[c]], Contract!NoValues)
          = keeps[Target[c]]
    BY <1>2, KeptType DEF Contract!Overlay, Contract!NoValues, Values
  <2>8. [keeps EXCEPT ![Target[c]] = keeps[Target[c]]] = keeps
    BY <1>2
  <2>9. keeps' = keeps
    BY <1>2, DataStays
  <2> HIDE DEF mine, keeps
  <2>10. keeps' = [keeps EXCEPT ![Target[c]] =
                     IF mine.delete THEN Contract!NoValues
                     ELSE Contract!Overlay(keeps[Target[c]], mine.vals)]
    BY <2>5, <2>6, <2>7, <2>8, <2>9
  <2>11. mine = Contract!NoEdits /\ ~mine.delete
    BY <2>5, <2>6
  <2>12. Contract!Save(c)
    BY <1>2, <2>1, <2>4, <2>10, <2>11, DataStays
       DEF Contract!Save, mine, keeps
  <2> QED
    BY <2>12 DEF Contract!Next
<1> QED
  BY <1>4, <1>5

\* Another process deletes an account, if there is an object for it.
LEMMA VanishRefines ==
  ASSUME TypeOK, ForeignInv, IdInv, GoneInv, AnswersOne,
         NEW r \in RowIds \ {0}, OtherDeletes(r)
  PROVE  [Contract!Next]_(Contract!vars)
<1>1. /\ rows[r].live
      /\ rows'[r].vals = NoValues
      /\ \A i \in RowIds \ {r} : rows'[i] = rows[i]
      /\ foreign' = foreign \cup {r}
      /\ \A d \in Calls : Pending(d)' <=> Pending(d)
      /\ UNCHANGED <<changes, status, request, result, cancelled, id, gone>>
      /\ \A a \in Accounts : id[a] \in RowIds
  BY OtherDeletesEffect DEF TypeOK, clientVars
<1>2. /\ \A d \in Calls : AsOutcome(d)' = AsOutcome(d)
      /\ \A d \in Calls : ToldOf(d)' = ToldOf(d)
      /\ \A a \in Accounts : AsEdits(changes'[a]) = AsEdits(changes[a])
  BY <1>1 DEF AsOutcome, ToldOf, Reported
<1>3. \A a \in Accounts : id[a] # r =>
        /\ KeptIn(a)' = KeptIn(a)
        /\ id'[a] \in foreign' <=> id[a] \in foreign
  BY <1>1 DEF KeptIn
<1>4. CASE \A a \in Accounts : id[a] # r
  <2>1. DataAsBefore
    BY <1>1, <1>3, <1>4 DEF DataAsBefore
  <2> QED
    BY <1>1, <1>2, <2>1, QuietStep
<1>5. ASSUME NEW a \in Accounts, id[a] = r
      PROVE  Contract!Vanish(a)
  <2> DEFINE keeps == [b \in Accounts |-> KeptIn(b)]
             lost  == {b \in Accounts : gone[b] /\ id[b] \notin foreign}
             away  == {b \in Accounts : id[b] \in foreign}
  <2>1. id[a] \notin foreign /\ ~gone[a]
    BY <1>1, <1>5 DEF ForeignInv, GoneInv
  <2>2. \A b \in Accounts \ {a} : id[b] # r
    BY <1>5 DEF IdInv
  <2>3. KeptIn(a)' = NoValues
    BY <1>1, <1>5 DEF KeptIn
  <2>4. keeps' = [keeps EXCEPT ![a] = NoValues]
    BY <1>3, <2>2, <2>3
  <2>5. away' = away \cup {a} /\ lost' = lost
    BY <1>1, <1>5, <2>1, <2>2
  <2>6. a \notin lost \cup away
    BY <2>1
  <2>7. NoValues = Contract!NoValues
    BY DEF NoValues, Contract!NoValues
  <2>8. /\ [d \in Calls |-> AsOutcome(d)]' = [d \in Calls |-> AsOutcome(d)]
        /\ [d \in Calls |-> ToldOf(d)]' = [d \in Calls |-> ToldOf(d)]
    BY <1>2
  <2> QED
    BY <1>1, <2>4, <2>5, <2>6, <2>7, <2>8 DEF Contract!Vanish, ToldOf
<1> QED
  BY <1>4, <1>5 DEF Contract!Next

\* Every step of AccountStore is a step of the contract or a stutter.
LEMMA StepRefines ==
  ASSUME TypeOK, TypeOK', EditsOrderInv, IdInv, ToldInv, UnmadeInv, GoneInv,
         [Next]_vars, "overtake" \notin Env
  PROVE  [Contract!Next]_(Contract!vars)
<1> USE ConstantsAssumption
<1>1. Orderly /\ GuardInv /\ CallInv /\ ForeignInv /\ RowInv
  BY DEF EditsOrderInv, OrderlyInv, Orderly
<1>2. AnswersOne
  BY <1>1, ToldNext
<1>3. \A d \in Calls :
        /\ AsOutcome(d) = "open" => result[d] = "none" /\ ~Pending(d)
        /\ result[d] = "none" /\ ~Pending(d) => AsOutcome(d) = "open"
        /\ result[d] = "none" /\ Pending(d) => AsOutcome(d) = "taken"
  BY DEF AsOutcome, Pending
<1>4. ASSUME NEW d \in Calls, result'[d] = result[d],
             result[d] = "none" => (Pending(d)' <=> Pending(d))
      PROVE  AsOutcome(d)' = AsOutcome(d)
  BY <1>4 DEF AsOutcome, Pending
<1>5. CASE Idle
  <2>1. \A d \in Calls : AsOutcome(d)' = AsOutcome(d)
    BY <1>1, <1>4, <1>5 DEF Idle
  <2>2. UNCHANGED <<changes, request, result>> /\ DataAsBefore
    BY <1>5, SameData DEF Idle, dataVars
  <2> QED
    BY <1>2, <2>1, <2>2, QuietStep
<1>6. ASSUME NEW a \in Accounts, DeletionArrives(a)
      PROVE  [Contract!Next]_(Contract!vars)
  <2>1. /\ id[a] \in foreign
        /\ gone'[a] /\ \A b \in Accounts \ {a} : gone'[b] = gone[b]
        /\ UNCHANGED <<changes, status, request, result, id, rows, foreign>>
    BY <1>6, DeletionArrivesEffect
  <2>2. DataAsBefore
    BY <2>1 DEF DataAsBefore, KeptIn
  <2>3. \A d \in Calls : AsOutcome(d)' = AsOutcome(d)
    BY <2>1 DEF AsOutcome
  <2> QED
    BY <1>2, <2>1, <2>2, <2>3, QuietStep
\* The client's edits, while nothing else changes.
<1>7. ASSUME UNCHANGED <<status, request, result, dataVars, cancelled>>
      PROVE  /\ [d \in Calls |-> AsEdits(request[d])]'
                  = [d \in Calls |-> AsEdits(request[d])]
             /\ [d \in Calls |-> AsOutcome(d)]' = [d \in Calls |-> AsOutcome(d)]
             /\ [d \in Calls |-> ToldOf(d)]' = [d \in Calls |-> ToldOf(d)]
             /\ DataAsBefore
  BY <1>7, SameData DEF AsOutcome, ToldOf, Reported, dataVars
<1>8. ASSUME NEW a \in Accounts, Delete(a)
      PROVE  Contract!Mark(a)
  <2>1. AsEdits(changes'[a]) = [vals |-> AsEdits(changes[a]).vals,
                                delete |-> TRUE]
    <3>1. changes[a] \in Changes
      BY DEF TypeOK
    <3>2. changes'[a] = [changes[a] EXCEPT !.deleted = TRUE]
      BY <1>8 DEF Delete, TypeOK
    <3>3. changes'[a].vals = changes[a].vals /\ changes'[a].deleted = TRUE
      BY <3>1, <3>2, Zenon DEF Changes
    <3>4. AsEdits(changes'[a]) = [vals |-> changes[a].vals, delete |-> TRUE]
      BY <3>3 DEF AsEdits
    <3> QED
      BY <3>4 DEF AsEdits
  <2>2. \A b \in Accounts \ {a} : changes'[b] = changes[b]
    BY <1>8, DeleteEffect
  <2>3. [b \in Accounts |-> AsEdits(changes[b])]'
          = [[b \in Accounts |-> AsEdits(changes[b])] EXCEPT
               ![a] = [vals |-> AsEdits(changes[a]).vals, delete |-> TRUE]]
    BY <2>1, <2>2
  <2>4. UNCHANGED <<status, request, result, dataVars, cancelled>>
    BY <1>8 DEF Delete, callVars
  <2> QED
    BY <1>7, <2>3, <2>4, DataStays DEF Contract!Mark, ToldOf
<1>9. ASSUME NEW a \in Accounts, NEW k \in Keys, Edit(a, k)
      PROVE  Contract!Edit(a)
  <2>1. /\ \A j \in Keys \ {k} : changes'[a].vals[j] = changes[a].vals[j]
        /\ changes'[a].vals[k] = edits + 1
        /\ changes'[a].deleted = changes[a].deleted
        /\ \A b \in Accounts \ {a} : changes'[b] = changes[b]
        /\ changes[a].vals \in Values /\ changes'[a].vals \in Values
    BY <1>9, EditEffect DEF TypeOK, Changes
  <2>2. changes'[a].vals = [changes[a].vals EXCEPT ![k] = edits + 1]
    BY <2>1 DEF Values
  <2>3. AsEdits(changes'[a]) = [AsEdits(changes[a]) EXCEPT !.vals[k] = edits + 1]
    BY <2>1, <2>2 DEF AsEdits
  <2>4. [b \in Accounts |-> AsEdits(changes[b])]'
          = [[b \in Accounts |-> AsEdits(changes[b])]
               EXCEPT ![a].vals[k] = edits + 1]
    BY <2>1, <2>3
  <2>5. edits + 1 \in 1..MaxEdits
    BY <1>9 DEF Edit, TypeOK
  <2>6. UNCHANGED <<status, request, result, dataVars, cancelled>>
    BY <1>9 DEF Edit, callVars
  <2>7. \E j \in Keys, v \in 1..MaxEdits :
          [b \in Accounts |-> AsEdits(changes[b])]'
            = [[b \in Accounts |-> AsEdits(changes[b])]
                 EXCEPT ![a].vals[j] = v]
    BY <2>4, <2>5
  <2> QED
    BY <1>7, <2>6, <2>7, DataStays DEF Contract!Edit, ToldOf
\* A call that starts has taken nothing and takes the changes now.
<1>10. ASSUME NEW c \in Calls, Begins(c), Steal(c)
       PROVE  /\ AsOutcome(c) = "open" /\ result[c] = "none"
              /\ Contract!HoldsEdits(c) /\ Contract!TakesEdits(c)
              /\ NewRequest(Target[c]) \in Requests
              /\ request'[c] = NewRequest(Target[c])
              /\ NewRequest(Target[c]).row = id[Target[c]]
              /\ IdRequest(Target[c], NewRequest(Target[c]))
              /\ \A d \in Calls \ {c} : status'[d] = status[d]
  <2>1. AsOutcome(c) = "open" /\ result[c] = "none"
    BY <1>1, <1>3, <1>10 DEF Begins, CallInv, Pending
  <2>2. AsEdits(NewRequest(Target[c])) = AsEdits(changes[Target[c]])
    BY NewRequestFields DEF AsEdits
  <2>3. Contract!HoldsEdits(c)
    BY <1>10, <2>1, <2>2, StealEffect, HoldsStep
  <2>4. Contract!TakesEdits(c)
    BY <2>1, <2>3 DEF Contract!HoldsEdits
  <2> QED
    BY <1>10, <2>1, <2>3, <2>4, StealEffect, NewRequestType,
       NewRequestFields, IdNewRequest DEF Begins
<1>11. ASSUME NEW c \in Calls, Takes(c)
       PROVE  Contract!Take(c)
  <2>1. /\ Contract!TakesEdits(c) /\ result[c] = "none" /\ Pending(c)'
        /\ \A d \in Calls \ {c} : status'[d] = status[d]
        /\ UNCHANGED result /\ DataAsBefore /\ ~gone[Target[c]]
        /\ status[c] = "unused"
    BY <1>10, <1>11, SameData DEF Takes, Begins, dataVars
  <2>2. /\ AsOutcome(c)' = "taken"
        /\ \A d \in Calls \ {c} : AsOutcome(d)' = AsOutcome(d)
    BY <2>1 DEF AsOutcome, Pending
  <2>3. [d \in Calls |-> AsOutcome(d)]'
          = [[d \in Calls |-> AsOutcome(d)] EXCEPT ![c] = "taken"]
    BY <2>2
  <2>4. \A d \in Calls : ToldOf(d)' = ToldOf(d)
    <3>1. ASSUME NEW d \in Calls, ToldOf(d) = "nothing"
          PROVE  ToldOf(d)' = "nothing"
      BY <2>1, <3>1 DEF ToldOf, Told, AsTold, Pending
    <3>2. \A x : AsTold(x) # "nothing"
      BY DEF AsTold
    <3> QED
      BY <1>2, <2>1, <3>1, <3>2 DEF AnswersOne
  <2>5. [d \in Calls |-> ToldOf(d)]' = [d \in Calls |-> ToldOf(d)]
    BY <2>4
  <2>6. Target[c] \notin {a \in Accounts : gone[a] /\ id[a] \notin foreign}
    BY <2>1
  <2> QED
    BY <2>1, <2>3, <2>5, <2>6, DataStays DEF Contract!Take, ToldOf
<1>12. ASSUME NEW c \in Calls, StoresAtOnce(c)
       PROVE  Contract!Next
  <2>1. /\ Begins(c) /\ Steal(c) /\ ~gone[Target[c]] /\ Held(Target[c])
        /\ \E res \in {"ok", "db"} :
             Transaction(c, NewRequest(Target[c]), res) /\ Answer(c, res)
    BY <1>12 DEF StoresAtOnce, Held
  <2> QED
    BY <1>1, <1>2, <1>10, <2>1, StoreRefines
<1>13. ASSUME NEW c \in Calls, Ends(c)
       PROVE  /\ result[c] = "none" /\ Contract!HoldsEdits(c)
              /\ request'[c] = request[c] /\ request[c] \in Requests
              /\ request[c].row = id[Target[c]]
              /\ Held(Target[c]) /\ IdRequest(Target[c], request[c])
              /\ gone[Target[c]] => id[Target[c]] \in foreign
              /\ \A d \in Calls \ {c} : status'[d] = status[d]
  <2>1. /\ Pending(c) /\ result[c] = "none"
        /\ UNCHANGED <<changes, request>>
        /\ \A d \in Calls \ {c} : status'[d] = status[d]
    BY <1>1, <1>13 DEF Ends, CallInv
  <2>2. Contract!HoldsEdits(c)
    BY <1>3, <2>1, HoldsStep
  <2> QED
    BY <1>1, <2>1, <2>2 DEF RowInv, IdInv, TypeOK, Held
<1>14. ASSUME NEW c \in Calls, StoresLate(c)
       PROVE  Contract!Next
  <2>1. /\ Ends(c)
        /\ \E res \in {"ok", "db"} :
             Transaction(c, request[c], res) /\ Answer(c, res)
    BY <1>14 DEF StoresLate
  <2> QED
    BY <1>1, <1>2, <1>13, <2>1, StoreRefines
<1>15. ASSUME NEW c \in Calls, GivesUp(c)
       PROVE  Contract!Next
  <2>1. /\ Ends(c) /\ DataAsBefore
        /\ result'[c] \in {"db", "cancelled"}
        /\ \A d \in Calls \ {c} : result'[d] = result[d]
    BY <1>15, SameData DEF GivesUp, Answer, TypeOK, dataVars
  <2> QED
    BY <1>2, <1>13, <2>1, FailStep DEF Contract!Next
<1> QED
  BY <1>1, <1>2, <1>5, <1>6, <1>8, <1>9, <1>11, <1>12, <1>14, <1>15,
     AnswerRefines, VanishRefines, Steps DEF Contract!Next

(* For clients that keep to one store of an account at a time and do not   *)
(* delete an account they never stored, the store functions keep the       *)
(* contract, whatever fails, is cancelled, has to wait or is deleted by    *)
(* another process: each call has one outcome, which writes every edit it  *)
(* has taken to its own account in one step, over what was there, or       *)
(* writes nothing, and its caller is told that outcome once.               *)
THEOREM StoreKeepsContract ==
  ASSUME "reuse" \notin Env, "overtake" \notin Env, "delete_new" \notin Env
  PROVE  Spec => KeepsContract
<1> DEFINE Inv == ToldInv /\ UnmadeInv /\ GoneInv /\ IdInv
<1>1. Init => Inv
  BY ToldInit, UnmadeInit, IdInit
<1>2. TypeOK /\ EditsOrderInv /\ Inv /\ [Next]_vars => Inv'
  BY ToldNext, UnmadeNext, GoneNext, IdNext DEF EditsOrderInv, OrderlyInv
<1>3. TypeOK /\ TypeOK' /\ EditsOrderInv /\ Inv /\ [Next]_vars
        => [Contract!Next]_(Contract!vars)
  BY StepRefines
<1> QED
  BY TypeCorrect, EditsOrderHolds, InitRefines, <1>1, <1>2, <1>3, PTL
     DEF Spec, KeepsContract, Contract!Spec

=============================================================================
