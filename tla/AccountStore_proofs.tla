------------------------- MODULE AccountStore_proofs -------------------------
(***************************************************************************)
(* Proofs about AccountStore, for every value of its constants.            *)
(***************************************************************************)
EXTENDS AccountStore, FiniteSetTheorems, TLAPS

LEMMA OverlayType ==
  ASSUME NEW old \in Values, NEW new \in Values
  PROVE  Overlay(old, new) \in Values
BY DEF Overlay, Values

LEMMA NoValuesType == NoValues \in Values
BY ConstantsAssumption DEF NoValues, Values

LEMMA NewRequestType ==
  ASSUME TypeOK, NEW a \in Accounts
  PROVE  NewRequest(a) \in Requests
BY DEF TypeOK, NewRequest, Request, Requests, Changes

(* The effect of a committed transaction stays within the types.           *)
LEMMA CommitType ==
  ASSUME TypeOK, NEW a \in Accounts, NEW r \in Requests, Commit(a, r)
  PROVE  /\ rows' \in [RowIds -> Row]
         /\ nextRow' \in 1..(MaxRows + 1)
         /\ lastId' \in RowIds
         /\ id' \in [Accounts -> RowIds]
         /\ cache' \in [RowIds -> Accounts \cup {NoAccount}]
         /\ mem' \in [Accounts -> Values]
         /\ gone' \in [Accounts -> BOOLEAN]
         /\ created' \subseteq RowIds
         /\ removed' \subseteq RowIds
         /\ foreign' \subseteq RowIds \ {0}
<1> USE ConstantsAssumption
<1>1. /\ r.row \in RowIds /\ r.vals \in Values
      /\ r.created \in BOOLEAN /\ r.deleted \in BOOLEAN
  BY DEF Requests
<1>2. LastIdAfter(r) \in RowIds
  BY DEF Commit, LastIdAfter, RowIds, TypeOK
<1>3. IdAfter(a, r) \in RowIds
  BY <1>2 DEF IdAfter, TypeOK
<1>4. RowsAfter(r) \in [RowIds -> Row]
  <2>1. IsInsert(r) => nextRow \in RowIds
    BY DEF Commit, TypeOK, RowIds
  <2>2. \A i \in RowIds : Overlay(rows[i].vals, r.vals) \in Values
    BY <1>1, OverlayType DEF TypeOK, Row
  <2>3. EmptyRow \in Row
    BY NoValuesType DEF EmptyRow, Row
  <2>4. [live |-> TRUE, vals |-> r.vals] \in Row
    BY <1>1 DEF Row
  <2>5. CASE r.deleted
    BY <2>3, <2>5, <1>1 DEF RowsAfter, TypeOK, IsInsert
  <2>6. CASE ~r.deleted /\ IsInsert(r)
    BY <2>1, <2>4, <2>6 DEF RowsAfter, TypeOK, IsInsert
  <2>7. CASE ~r.deleted /\ ~IsInsert(r)
    <3>1. RowsAfter(r) = [rows EXCEPT ![r.row].vals = Overlay(@, r.vals)]
      BY <2>7 DEF RowsAfter, IsInsert
    <3> QED
      BY <3>1, <2>2, <1>1 DEF TypeOK, Row
  <2> QED
    BY <2>5, <2>6, <2>7, <1>1
<1>5. Overlay(mem[a], r.vals) \in Values
  BY <1>1, OverlayType DEF TypeOK
<1>6. nextRow' \in 1..(MaxRows + 1)
  BY DEF Commit, TypeOK
<1>7. cache' \in [RowIds -> Accounts \cup {NoAccount}]
  BY <1>3 DEF Commit, TypeOK
<1> QED
  BY <1>1, <1>2, <1>3, <1>4, <1>5, <1>6, <1>7 DEF Commit, TypeOK

LEMMA TransactionType ==
  ASSUME TypeOK, NEW c \in Calls, NEW r \in Requests, NEW res,
         Transaction(c, r, res)
  PROVE  /\ rows' \in [RowIds -> Row]
         /\ nextRow' \in 1..(MaxRows + 1)
         /\ lastId' \in RowIds
         /\ id' \in [Accounts -> RowIds]
         /\ cache' \in [RowIds -> Accounts \cup {NoAccount}]
         /\ mem' \in [Accounts -> Values]
         /\ gone' \in [Accounts -> BOOLEAN]
         /\ created' \subseteq RowIds
         /\ removed' \subseteq RowIds
         /\ foreign' \subseteq RowIds \ {0}
         /\ dbLock' \in {"free", "other", "self"}
         /\ locks' \in 0..MaxLocks
         /\ res \in {"ok", "db"}
<1>1. CASE res = "ok" /\ Commit(Target[c], r)
  <2>1. Target[c] \in Accounts
    BY ConstantsAssumption
  <2>2. UNCHANGED lockVars
    BY <1>1 DEF Commit
  <2> QED
    BY <1>1, <2>1, <2>2, CommitType DEF lockVars, TypeOK
<1>2. CASE res = "db" /\ (ExecFails(r) \/ CommitFails(r) \/ BeginFails)
  <2>1. CommitFails(r) => LastIdAfter(r) \in RowIds
    BY ConstantsAssumption
       DEF CommitFails, LastIdAfter, RowIds, TypeOK
  <2> QED
    BY <1>2, <2>1 DEF ExecFails, CommitFails, BeginFails, dataVars,
       accountVars, lockVars, TypeOK
<1> QED
  BY <1>1, <1>2 DEF Transaction

LEMMA InitType == Init => TypeOK
<1> SUFFICES ASSUME Init PROVE TypeOK
  OBVIOUS
<1> USE ConstantsAssumption
<1>1. Cardinality(Stored) \in Nat /\ Cardinality(Stored) <= MaxRows
  BY FS_CardinalityType DEF Init
<1>2. id \in [Accounts -> RowIds]
  BY <1>1 DEF Init, StoredIds, RowIds
<1>3. \A r \in RowIds : (\E a \in Stored : id[a] = r)
        => (CHOOSE a \in Stored : id[a] = r) \in Accounts
  OBVIOUS
<1>4. cache \in [RowIds -> Accounts \cup {NoAccount}]
  BY <1>3 DEF Init
<1>5. NoChanges \in Changes /\ NewChanges \in Changes
  BY NoValuesType DEF NoChanges, NewChanges, Changes
<1>6. NoRequest \in Requests
  BY NoValuesType DEF NoRequest, Request, NoChanges, Requests, RowIds
<1>7. rows \in [RowIds -> Row]
  BY NoValuesType DEF Init, EmptyRow, Row
<1>8. nextRow \in 1..(MaxRows + 1)
  BY <1>1 DEF Init
<1> QED
  BY <1>2, <1>4, <1>5, <1>6, <1>7, <1>8, NoValuesType
     DEF Init, TypeOK, Statuses, Results, RowIds

-----------------------------------------------------------------------------
(* Preservation of the types, one lemma per group of actions.              *)

LEMMA ClientType ==
  ASSUME TypeOK, NEW a \in Accounts,
         Delete(a) \/ (\E k \in Keys : Edit(a, k)) \/ (\E c \in Calls : Cancel(c))
  PROVE  TypeOK'
<1> USE ConstantsAssumption
<1>1. CASE Delete(a)
  BY <1>1 DEF Delete, callVars, dataVars, accountVars, lockVars, TypeOK, Changes
<1>2. ASSUME NEW k \in Keys, Edit(a, k) PROVE TypeOK'
  <2>1. edits + 1 \in 0..MaxEdits
    BY <1>2 DEF Edit, TypeOK
  <2>2. lastEdit' \in [Accounts -> Values]
    BY <1>2, <2>1 DEF Edit, TypeOK, Values
  <2>3. changes' \in [Accounts -> Changes]
    <3>1. changes[a] \in Changes /\ changes[a].vals \in Values
      BY DEF TypeOK, Changes
    <3>2. [changes[a].vals EXCEPT ![k] = edits + 1] \in Values
      BY <2>1, <3>1 DEF Values
    <3>3. [changes[a] EXCEPT !.vals = [changes[a].vals EXCEPT ![k] = edits + 1]]
            \in Changes
      BY <3>1, <3>2 DEF Changes
    <3> QED
      BY <1>2, <3>3 DEF Edit, TypeOK
  <2> QED
    BY <1>2, <2>1, <2>2, <2>3
       DEF Edit, callVars, dataVars, accountVars, lockVars, TypeOK
<1>3. ASSUME NEW c \in Calls, Cancel(c) PROVE TypeOK'
  BY <1>3 DEF Cancel, callVars, dataVars, accountVars, lockVars, TypeOK
<1> QED
  BY <1>1, <1>2, <1>3

LEMMA StealType ==
  ASSUME TypeOK, NEW c \in Calls, Steal(c)
  PROVE  changes' \in [Accounts -> Changes] /\ request' \in [Calls -> Requests]
<1>1. Target[c] \in Accounts
  BY ConstantsAssumption
<1>2. NoChanges \in Changes
  BY NoValuesType DEF NoChanges, Changes
<1> QED
  BY <1>1, <1>2, NewRequestType DEF Steal, TypeOK

LEMMA StoreAsyncType ==
  ASSUME TypeOK, NEW c \in Calls, StoreAsync(c)
  PROVE  TypeOK'
<1> USE ConstantsAssumption
<1>0. Target[c] \in Accounts
  OBVIOUS
<1>1. ASSUME BeginAsync(c)
      PROVE  /\ wanted' \in [Calls -> Values]
             /\ edits' \in 0..MaxEdits
             /\ lastEdit' \in [Accounts -> Values]
             /\ cancelled' \subseteq Calls
             /\ sleeps' \in 0..MaxSleeps
  BY <1>0, <1>1 DEF BeginAsync, TypeOK
<1>2. CASE StoreRejected(c)
  BY <1>1, <1>2 DEF StoreRejected, Move, Answer, dataVars, accountVars,
     lockVars, TypeOK, Statuses, Results
<1>3. CASE StoreNothing(c)
  BY <1>1, <1>3 DEF StoreNothing, Move, Answer, dataVars, accountVars,
     lockVars, TypeOK, Statuses, Results
<1>4. CASE StoreDeleted(c)
  BY <1>0, <1>1, <1>4 DEF StoreDeleted, StoreStarts, Move, Answer, dataVars,
     accountVars, lockVars, TypeOK, Statuses, Results
<1>5. CASE StoreBusy(c)
  BY <1>0, <1>1, <1>5, StealType DEF StoreBusy, StoreStarts, Move, dataVars,
     accountVars, lockVars, TypeOK, Statuses
<1>6. CASE StoreNow(c)
  <2>1. PICK res \in {"ok", "db"} :
          Transaction(c, NewRequest(Target[c]), res) /\ Answer(c, res)
    BY <1>6 DEF StoreNow
  <2>2. BeginAsync(c) /\ Steal(c) /\ Move(c, "returned") /\ UNCHANGED storeTask
    BY <1>6 DEF StoreNow, StoreStarts
  <2>3. NewRequest(Target[c]) \in Requests
    BY <1>0, NewRequestType
  <2>4. result' \in [Calls -> Results] /\ status' \in [Calls -> Statuses]
    BY <2>1, <2>2 DEF Answer, Move, TypeOK, Results, Statuses
  <2> QED
    BY <1>1, <2>1, <2>2, <2>3, <2>4, StealType, TransactionType DEF TypeOK
<1> QED
  BY <1>2, <1>3, <1>4, <1>5, <1>6 DEF StoreAsync

LEMMA StoreBlockingType ==
  ASSUME TypeOK, NEW c \in Calls, StoreBlocking(c)
  PROVE  TypeOK'
<1> USE ConstantsAssumption
<1>0. Target[c] \in Accounts
  OBVIOUS
<1>1. ASSUME BeginBlocking(c)
      PROVE  /\ wanted' \in [Calls -> Values]
             /\ edits' \in 0..MaxEdits
             /\ lastEdit' \in [Accounts -> Values]
             /\ cancelled' \subseteq Calls
             /\ storeTask' \in [Accounts -> Calls \cup {NoCall}]
  BY <1>0, <1>1 DEF BeginBlocking, TypeOK
<1>2. CASE BlockingNothing(c)
  BY <1>1, <1>2 DEF BlockingNothing, Move, Answer, dataVars, accountVars,
     lockVars, TypeOK, Statuses, Results
<1>3. CASE BlockingDeleted(c)
  BY <1>1, <1>3 DEF BlockingDeleted, Move, Answer, dataVars, accountVars,
     lockVars, TypeOK, Statuses, Results
<1>4. CASE BlockingBusy(c)
  BY <1>1, <1>4, StealType DEF BlockingBusy, Move, dataVars, accountVars,
     lockVars, TypeOK, Statuses
<1>5. CASE BlockingNow(c)
  <2>1. PICK res \in {"ok", "db"} :
          Transaction(c, NewRequest(Target[c]), res) /\ Answer(c, res)
    BY <1>5 DEF BlockingNow
  <2>2. BeginBlocking(c) /\ Steal(c) /\ Move(c, "done") /\ UNCHANGED sleeps
    BY <1>5 DEF BlockingNow
  <2>3. NewRequest(Target[c]) \in Requests
    BY <1>0, NewRequestType
  <2>4. result' \in [Calls -> Results] /\ status' \in [Calls -> Statuses]
    BY <2>1, <2>2 DEF Answer, Move, TypeOK, Results, Statuses
  <2> QED
    BY <1>1, <2>1, <2>2, <2>3, <2>4, StealType, TransactionType DEF TypeOK
<1> QED
  BY <1>2, <1>3, <1>4, <1>5 DEF StoreBlocking

LEMMA ThreadType ==
  ASSUME TypeOK, NEW c \in Calls, Thread(c)
  PROVE  TypeOK'
<1> USE ConstantsAssumption
<1>0. Target[c] \in Accounts /\ request[c] \in Requests
  BY DEF TypeOK
<1>1. ASSUME NEW res \in {"ok", "db"},
             Transaction(c, request[c], res), Answer(c, res)
      PROVE  /\ result' \in [Calls -> Results]
             /\ rows' \in [RowIds -> Row]
             /\ nextRow' \in 1..(MaxRows + 1)
             /\ lastId' \in RowIds
             /\ id' \in [Accounts -> RowIds]
             /\ cache' \in [RowIds -> Accounts \cup {NoAccount}]
             /\ mem' \in [Accounts -> Values]
             /\ gone' \in [Accounts -> BOOLEAN]
             /\ created' \subseteq RowIds
             /\ removed' \subseteq RowIds
             /\ foreign' \subseteq RowIds \ {0}
             /\ dbLock' \in {"free", "other", "self"}
             /\ locks' \in 0..MaxLocks
  <2>1. result' \in [Calls -> Results]
    BY <1>1 DEF Answer, TypeOK, Results
  <2> QED
    BY <1>0, <1>1, <2>1, TransactionType
<1>2. CASE Retry(c)
  <2>1. PICK res \in {"ok", "db"} :
          Transaction(c, request[c], res) /\ Answer(c, res)
    BY <1>2 DEF Retry
  <2> QED
    BY <1>1, <1>2, <2>1 DEF Retry, RetryReady, Move, clientVars, TypeOK, Statuses
<1>3. CASE RetryCancelled(c)
  BY <1>3 DEF RetryCancelled, RetryReady, Move, Answer, clientVars, dataVars,
     accountVars, lockVars, TypeOK, Statuses, Results
<1>4. CASE RunCallback(c)
  BY <1>4 DEF RunCallback, Move, clientVars, dataVars, accountVars, lockVars,
     TypeOK, Statuses
<1>5. CASE EndCallback(c)
  BY <1>0, <1>5 DEF EndCallback, Move, clientVars, dataVars, accountVars,
     lockVars, TypeOK, Statuses
<1>6. CASE EndIdleCallback(c)
  BY <1>0, <1>6 DEF EndIdleCallback, clientVars, dataVars, accountVars,
     lockVars, TypeOK, Statuses
<1>7. CASE WakeBusy(c)
  <2>1. sleeps' \in 0..MaxSleeps
    BY <1>7 DEF WakeBusy, TypeOK
  <2> QED
    BY <1>7, <2>1 DEF WakeBusy, Move, Answer, clientVars, dataVars,
       accountVars, lockVars, TypeOK, Statuses, Results
<1>8. CASE WakeNow(c)
  <2>1. PICK res \in {"ok", "db"} :
          Transaction(c, request[c], res) /\ Answer(c, res)
    BY <1>8 DEF WakeNow
  <2> QED
    BY <1>1, <1>8, <2>1 DEF WakeNow, Move, clientVars, TypeOK, Statuses
<1> QED
  BY <1>2, <1>3, <1>4, <1>5, <1>6, <1>7, <1>8 DEF Thread

LEMMA OthersType ==
  ASSUME TypeOK, Others
  PROVE  TypeOK'
<1> USE ConstantsAssumption
<1>1. CASE OtherLocks \/ OtherUnlocks
  BY <1>1 DEF OtherLocks, OtherUnlocks, clientVars, callVars, dataVars,
     accountVars, TypeOK
<1>2. ASSUME NEW r \in RowIds \ {0}, OtherDeletes(r)
      PROVE  TypeOK'
  <2>1. EmptyRow \in Row
    BY NoValuesType DEF EmptyRow, Row
  <2> QED
    BY <1>2, <2>1 DEF OtherDeletes, clientVars, callVars, TypeOK
<1>3. ASSUME NEW a \in Accounts, DeletionArrives(a)
      PROVE  TypeOK'
  BY <1>3 DEF DeletionArrives, clientVars, callVars, lockVars, TypeOK
<1> QED
  BY <1>1, <1>2, <1>3 DEF Others

(* Every reachable state is well typed.                                    *)
THEOREM TypeCorrect == Spec => []TypeOK
<1>1. TypeOK /\ [Next]_vars => TypeOK'
  <2> SUFFICES ASSUME TypeOK, [Next]_vars PROVE TypeOK'
    OBVIOUS
  <2>1. CASE Client
    BY <2>1, ClientType, StoreAsyncType, StoreBlockingType, ConstantsAssumption
       DEF Client
  <2>2. CASE \E c \in Calls : Thread(c)
    BY <2>2, ThreadType
  <2>3. CASE Others
    BY <2>3, OthersType
  <2>4. CASE UNCHANGED vars
    BY <2>4 DEF vars, clientVars, callVars, dataVars, accountVars, lockVars,
       TypeOK
  <2> QED
    BY <2>1, <2>2, <2>3, <2>4 DEF Next
<1> QED
  BY InitType, <1>1, PTL DEF Spec

-----------------------------------------------------------------------------
(***************************************************************************)
(* The STORE_IN_PROGRESS guard, for clients that start a store only when   *)
(* the callback of the previous one has returned.                          *)
(***************************************************************************)

(* OnePendingStore is not inductive: what keeps a second store out is that *)
(* store_task points to the pending call, and what keeps it there is that  *)
(* no other task of the account can still reset it.                        *)
GuardInv ==
  \A c \in Calls :
    /\ status[c] \in {"waiting", "idle_callback"} => storeTask[Target[c]] = c
    /\ status[c] \in {"returned", "callback"} /\ Accepted(c)
         => storeTask[Target[c]] \in {c, NoCall}
    /\ status[c] = "unused" => Accepted(c)
    /\ status[c] # "freed"

LEMMA GuardInit == Init => GuardInv
BY DEF Init, GuardInv, Accepted

LEMMA GuardStoreAsync ==
  ASSUME TypeOK, GuardInv, "reuse" \notin Env, NEW c \in Calls, StoreAsync(c)
  PROVE  GuardInv'
<1> USE ConstantsAssumption
<1> DEFINE a == Target[c]
<1>1. a \in Accounts
  OBVIOUS
<1>2. ASSUME BeginAsync(c)
      PROVE  /\ status[c] = "unused"
             /\ \A d \in Calls : Target[d] = a /\ Accepted(d)
                  => status[d] \notin {"returned", "callback"}
  BY <1>2 DEF BeginAsync, Allowed
<1>3. CASE StoreRejected(c)
  BY <1>2, <1>3 DEF StoreRejected, Move, Answer, GuardInv, Accepted, TypeOK
<1>4. CASE StoreNothing(c)
  BY <1>2, <1>4 DEF StoreNothing, Move, Answer, GuardInv, Accepted, TypeOK
<1>5. CASE StoreDeleted(c)
  BY <1>1, <1>2, <1>5 DEF StoreDeleted, StoreStarts, Move, Answer, GuardInv,
     Accepted, TypeOK
<1>6. CASE StoreBusy(c)
  BY <1>1, <1>2, <1>6 DEF StoreBusy, StoreStarts, Move, GuardInv, Accepted,
     TypeOK
<1>7. CASE StoreNow(c)
  <2>1. PICK res \in {"ok", "db"} : Answer(c, res)
    BY <1>7 DEF StoreNow
  <2>2. /\ BeginAsync(c) /\ storeTask[a] = NoCall
        /\ Move(c, "returned") /\ UNCHANGED storeTask
    BY <1>7 DEF StoreNow, StoreStarts
  <2> QED
    BY <1>2, <2>1, <2>2 DEF Move, Answer, GuardInv, Accepted, TypeOK
<1> QED
  BY <1>3, <1>4, <1>5, <1>6, <1>7 DEF StoreAsync

LEMMA GuardStoreBlocking ==
  ASSUME TypeOK, GuardInv, NEW c \in Calls, StoreBlocking(c)
  PROVE  GuardInv'
<1>1. /\ status[c] = "unused"
      /\ UNCHANGED storeTask
      /\ \E s \in {"done", "sleeping"} : Move(c, s)
      /\ UNCHANGED result \/ \E x \in {"ok", "db", "deleted"} : Answer(c, x)
  BY DEF StoreBlocking, BlockingNothing, BlockingDeleted, BlockingBusy,
         BlockingNow, BeginBlocking
<1> QED
  BY <1>1 DEF Move, Answer, GuardInv, Accepted, TypeOK

LEMMA GuardThread ==
  ASSUME TypeOK, GuardInv, NEW c \in Calls, Thread(c)
  PROVE  GuardInv'
<1> USE ConstantsAssumption
<1>1. CASE Retry(c) \/ RetryCancelled(c)
  <2>1. /\ status[c] = "waiting" /\ Move(c, "idle_callback")
        /\ UNCHANGED storeTask
        /\ \E x \in {"ok", "db", "cancelled"} : Answer(c, x)
    BY <1>1 DEF Retry, RetryCancelled, RetryReady
  <2> QED
    BY <2>1 DEF Move, Answer, GuardInv, Accepted, TypeOK
<1>2. CASE RunCallback(c)
  BY <1>2 DEF RunCallback, Move, GuardInv, Accepted, TypeOK
<1>3. CASE EndCallback(c)
  <2>1. /\ status[c] = "callback" /\ Move(c, "done") /\ UNCHANGED result
        /\ storeTask' = IF Accepted(c)
                        THEN [storeTask EXCEPT ![Target[c]] = NoCall]
                        ELSE storeTask
    BY <1>3 DEF EndCallback
  <2>2. CASE Accepted(c)
    <3>1. \A d \in Calls : Target[d] = Target[c]
            => status[d] \notin {"waiting", "idle_callback"}
      BY <2>1, <2>2 DEF GuardInv
    <3> QED
      BY <2>1, <2>2, <3>1 DEF Move, GuardInv, Accepted, TypeOK
  <2>3. CASE ~Accepted(c)
    BY <2>1, <2>3 DEF Move, GuardInv, Accepted, TypeOK
  <2> QED
    BY <2>2, <2>3
<1>4. CASE EndIdleCallback(c)
  <2>1. /\ status[c] = "idle_callback" /\ storeTask[Target[c]] = c
        /\ UNCHANGED result
        /\ status' = [d \in Calls |-> IF d = c THEN "done"
                                      ELSE IF d = storeTask[Target[c]]
                                      THEN "freed" ELSE status[d]]
        /\ storeTask' = [storeTask EXCEPT ![Target[c]] = NoCall]
    BY <1>4 DEF EndIdleCallback, GuardInv
  <2>2. \A d \in Calls : Target[d] = Target[c] /\ d # c
          => status[d] \notin {"waiting", "idle_callback"}
    BY <2>1 DEF GuardInv
  <2> QED
    BY <2>1, <2>2 DEF GuardInv, Accepted, TypeOK
<1>5. CASE WakeBusy(c) \/ WakeNow(c)
  <2>1. /\ status[c] = "sleeping" /\ UNCHANGED storeTask
        /\ \/ Move(c, "done") \/ UNCHANGED status
        /\ UNCHANGED result \/ \E x \in {"ok", "db"} : Answer(c, x)
    BY <1>5 DEF WakeBusy, WakeNow
  <2> QED
    BY <2>1 DEF Move, Answer, GuardInv, Accepted, TypeOK
<1> QED
  BY <1>1, <1>2, <1>3, <1>4, <1>5 DEF Thread

LEMMA GuardNext ==
  ASSUME TypeOK, GuardInv, "reuse" \notin Env, [Next]_vars
  PROVE  GuardInv'
<1>1. CASE UNCHANGED <<storeTask, status, result>>
  BY <1>1 DEF GuardInv, Accepted
<1>2. CASE Client
  BY <1>1, <1>2, GuardStoreAsync, GuardStoreBlocking
     DEF Client, Delete, Edit, Cancel, callVars
<1>3. CASE \E c \in Calls : Thread(c)
  BY <1>3, GuardThread
<1>4. CASE Others
  BY <1>1, <1>4 DEF Others, OtherLocks, OtherUnlocks, OtherDeletes,
     DeletionArrives, callVars
<1>5. CASE UNCHANGED vars
  BY <1>1, <1>5 DEF vars, callVars
<1> QED
  BY <1>2, <1>3, <1>4, <1>5 DEF Next

LEMMA GuardHolds ==
  ASSUME "reuse" \notin Env
  PROVE  Spec => []GuardInv
<1>1. TypeOK /\ GuardInv /\ [Next]_vars => GuardInv'
  BY GuardNext
<1> QED
  BY TypeCorrect, GuardInit, <1>1, PTL DEF Spec

(* As long as clients do not start a store before the callback of the      *)
(* previous one has returned, a call that waits for the database, or whose *)
(* callback runs from the retry, is the one store_task points to, so that  *)
(* any other store is refused.                                             *)
THEOREM StoreTaskIsPending ==
  ASSUME "reuse" \notin Env
  PROVE  Spec => []PendingIsGuarded
<1>1. GuardInv => PendingIsGuarded
  BY DEF GuardInv, PendingIsGuarded
<1> QED
  BY GuardHolds, <1>1, PTL

(* For the same clients at most one store of an account waits for the      *)
(* database.                                                               *)
THEOREM StoreIsGuarded ==
  ASSUME "reuse" \notin Env
  PROVE  Spec => []OnePendingStore
<1>1. PendingIsGuarded => OnePendingStore
  BY DEF PendingIsGuarded, OnePendingStore
<1> QED
  BY StoreTaskIsPending, <1>1, PTL

(* For the same clients no task is finalized while the main loop still has *)
(* a source for it.                                                        *)
THEOREM TasksOutliveSources ==
  ASSUME "reuse" \notin Env
  PROVE  Spec => []NoDanglingTask
<1>1. GuardInv => NoDanglingTask
  BY DEF GuardInv, NoDanglingTask
<1> QED
  BY GuardHolds, <1>1, PTL

=============================================================================
