---------------------- MODULE ChangeNotification_proofs ----------------------
(***************************************************************************)
(* Theorems about ChangeNotification, for any number of managers, service  *)
(* types and settings, and any lists of the paths they listen to.          *)
(*                                                                         *)
(* What every manager is told, and what it forgets, does not depend on the *)
(* scheduling.  That each signal is processed once, that deletions reach   *)
(* every hash and that the caches converge is proved for processes that    *)
(* are not overtaken between the commit and the last copy of the signal;   *)
(* when they are, TLC shows what goes wrong.                               *)
(***************************************************************************)
EXTENDS ChangeNotification, SequenceTheorems, FunctionTheorems,
        FiniteSetTheorems, TLAPS
-----------------------------------------------------------------------------
(* Sequences of timestamps.                                                *)

In(q, x)      == \E i \in 1..Len(q) : q[i] = x
Sorted(q)     == \A i, j \in 1..Len(q) : i <= j => q[i] <= q[j]
AtLeast(q, x) == \A i \in 1..Len(q) : x <= q[i]

\* A copy that arrives is behind all others.
LEMMA Appended ==
  ASSUME NEW q \in Seq(Stores), NEW y \in Stores
  PROVE  /\ Append(q, y) \in Seq(Stores)
         /\ \A x : In(Append(q, y), x) <=> In(q, x) \/ x = y
         /\ \A x : x <= y /\ AtLeast(q, x) => AtLeast(Append(q, y), x)
         /\ Sorted(q) /\ (\A x : In(q, x) => x <= y) => Sorted(Append(q, y))
<1>1. /\ Append(q, y) \in Seq(Stores) /\ Len(Append(q, y)) = Len(q) + 1
      /\ Len(q) \in Nat
      /\ \A i \in 1..Len(q) : Append(q, y)[i] = q[i]
      /\ Append(q, y)[Len(q) + 1] = y
  OBVIOUS
<1>2. \A x : In(Append(q, y), x) <=> In(q, x) \/ x = y
  <2> TAKE x
  <2>1. ASSUME In(q, x) PROVE In(Append(q, y), x)
    <3>1. PICK i \in 1..Len(q) : q[i] = x
      BY <2>1 DEF In
    <3>2. i \in 1..Len(Append(q, y)) /\ Append(q, y)[i] = x
      BY <1>1, <3>1
    <3> QED
      BY <3>2 DEF In
  <2>2. In(Append(q, y), y)
    <3>1. Len(q) + 1 \in 1..Len(Append(q, y))
      BY <1>1
    <3> QED
      BY <1>1, <3>1 DEF In
  <2>3. ASSUME In(Append(q, y), x), x # y PROVE In(q, x)
    <3>1. PICK i \in 1..Len(Append(q, y)) : Append(q, y)[i] = x
      BY <2>3 DEF In
    <3>2. i \in 1..Len(q)
      BY <1>1, <2>3, <3>1
    <3> QED
      BY <1>1, <3>1, <3>2 DEF In
  <2> QED
    BY <2>1, <2>2, <2>3
<1>3. \A x : x <= y /\ AtLeast(q, x) => AtLeast(Append(q, y), x)
  BY <1>1 DEF AtLeast
<1>4. ASSUME Sorted(q), \A x : In(q, x) => x <= y
      PROVE  Sorted(Append(q, y))
  <2>1. \A i \in 1..Len(q) : q[i] <= y
    BY <1>4 DEF In
  <2> SUFFICES ASSUME NEW i \in 1..Len(q) + 1, NEW j \in 1..Len(q) + 1,
                      i <= j
               PROVE  Append(q, y)[i] <= Append(q, y)[j]
    BY <1>1 DEF Sorted
  <2>2. CASE j \in 1..Len(q)
    <3>1. i \in 1..Len(q) /\ q[i] <= q[j]
      BY <2>2, <1>1, <1>4 DEF Sorted
    <3> QED
      BY <3>1, <2>2, <1>1
  <2>3. CASE j = Len(q) + 1
    <3>1. y <= y
      BY DEF Stores
    <3>2. i \in 1..Len(q) \/ i = Len(q) + 1
      BY <1>1
    <3> QED
      BY <2>1, <2>3, <3>1, <3>2, <1>1
  <2> QED
    BY <2>2, <2>3, <1>1
<1> QED
  BY <1>1, <1>2, <1>3, <1>4

\* A copy that is handled is the first.
LEMMA Handled ==
  ASSUME NEW q \in Seq(Stores), q # <<>>
  PROVE  /\ Tail(q) \in Seq(Stores) /\ Head(q) \in Stores
         /\ \A x : In(q, x) <=> In(Tail(q), x) \/ x = Head(q)
         /\ \A x : AtLeast(q, x) => AtLeast(Tail(q), x) /\ x <= Head(q)
         /\ Sorted(q) => Sorted(Tail(q)) /\ AtLeast(Tail(q), Head(q))
<1>1. /\ Tail(q) \in Seq(Stores) /\ Len(q) = Len(Tail(q)) + 1
      /\ Len(Tail(q)) \in Nat /\ Head(q) = q[1] /\ Head(q) \in Stores
      /\ \A i \in 1..Len(Tail(q)) : Tail(q)[i] = q[i + 1]
  OBVIOUS
<1>2. \A x : In(q, x) <=> In(Tail(q), x) \/ x = Head(q)
  <2> TAKE x
  <2>1. ASSUME In(Tail(q), x) PROVE In(q, x)
    <3>1. PICK i \in 1..Len(Tail(q)) : Tail(q)[i] = x
      BY <2>1 DEF In
    <3>2. i + 1 \in 1..Len(q) /\ q[i + 1] = x
      BY <1>1, <3>1
    <3> QED
      BY <3>2 DEF In
  <2>2. In(q, Head(q))
    <3>1. 1 \in 1..Len(q)
      BY <1>1
    <3> QED
      BY <1>1, <3>1 DEF In
  <2>3. ASSUME In(q, x), x # Head(q) PROVE In(Tail(q), x)
    <3>1. PICK i \in 1..Len(q) : q[i] = x
      BY <2>3 DEF In
    <3>2. i - 1 \in 1..Len(Tail(q)) /\ Tail(q)[i - 1] = x
      BY <1>1, <2>3, <3>1
    <3> QED
      BY <3>2 DEF In
  <2> QED
    BY <2>1, <2>2, <2>3
<1>3. ASSUME NEW x, AtLeast(q, x)
      PROVE  AtLeast(Tail(q), x) /\ x <= Head(q)
  <2>1. \A i \in 1..Len(Tail(q)) : i + 1 \in 1..Len(q)
    BY <1>1
  <2>2. 1 \in 1..Len(q)
    BY <1>1
  <2> QED
    BY <1>1, <1>3, <2>1, <2>2 DEF AtLeast
<1>4. ASSUME Sorted(q)
      PROVE  Sorted(Tail(q)) /\ AtLeast(Tail(q), Head(q))
  <2>1. \A i \in 1..Len(Tail(q)) : i + 1 \in 1..Len(q) /\ 1 <= i + 1
    BY <1>1
  <2>2. 1 \in 1..Len(q)
    BY <1>1
  <2>3. AtLeast(Tail(q), Head(q))
    BY <1>1, <1>4, <2>1, <2>2 DEF AtLeast, Sorted
  <2>4. Sorted(Tail(q))
    <3> SUFFICES ASSUME NEW i \in 1..Len(Tail(q)), NEW j \in 1..Len(Tail(q)),
                        i <= j
                 PROVE  Tail(q)[i] <= Tail(q)[j]
      BY DEF Sorted
    <3>1. i + 1 \in 1..Len(q) /\ j + 1 \in 1..Len(q) /\ i + 1 <= j + 1
      BY <2>1
    <3>2. q[i + 1] <= q[j + 1]
      BY <3>1, <1>4 DEF Sorted
    <3> QED
      BY <3>2, <1>1
  <2> QED
    BY <2>3, <2>4
<1> QED
  BY <1>1, <1>2, <1>3, <1>4

\* What has been processed last is in front, and nothing else is new.
LEMMA Remembered ==
  ASSUME NEW m \in Managers, NEW ts \in Stores,
         processedSignals \in [Managers -> Seq(Stores)], Remember(m, ts)
  PROVE  /\ processedSignals' \in [Managers -> Seq(Stores)]
         /\ Len(processedSignals'[m]) <= Window
         /\ processedSignals'[m] # <<>> /\ Head(processedSignals'[m]) = ts
         /\ Processed(m, ts)'
         /\ \A x : Processed(m, x)' => Processed(m, x) \/ x = ts
         /\ \A n \in Managers \ {m} :
              processedSignals'[n] = processedSignals[n]
<1> DEFINE p == processedSignals[m]
           q == <<ts>> \o p
           k == IF Len(p) < Window THEN Len(p) + 1 ELSE Window
           r == SubSeq(q, 1, k)
<1>1. p \in Seq(Stores) /\ Len(p) \in Nat /\ Window \in Nat \ {0}
  BY ConstantsAssumption
<1>2. /\ q \in Seq(Stores) /\ Len(q) = Len(p) + 1 /\ q[1] = ts
      /\ \A i \in 2..Len(p) + 1 : q[i] = p[i - 1]
  <2>1. <<ts>> \in Seq(Stores) /\ Len(<<ts>>) = 1 /\ <<ts>>[1] = ts
    OBVIOUS
  <2> HIDE DEF p
  <2>2. /\ q \in Seq(Stores) /\ Len(q) = 1 + Len(p)
        /\ \A i \in 1..Len(q) : q[i] = IF i <= 1 THEN <<ts>>[i]
                                       ELSE p[i - 1]
    BY <1>1, <2>1, ConcatProperties
  <2> HIDE DEF q
  <2> QED
    BY <1>1, <2>1, <2>2
<1>3. k \in 1..Len(q) /\ k <= Window
  BY <1>1, <1>2
<1>4. /\ r \in Seq(Stores) /\ Len(r) = k
      /\ \A i \in 1..k : r[i] = q[i]
  <2> HIDE DEF q, k, p
  <2>1. 1 \in 1..Len(q) + 1 /\ k \in 0..Len(q)
    BY <1>1, <1>2, <1>3
  <2> QED
    BY <1>2, <1>3, <2>1
<1>5. processedSignals' = [processedSignals EXCEPT ![m] = r]
  BY DEF Remember
<1> HIDE DEF r, k, q
<1>6. /\ processedSignals'[m] = r
      /\ processedSignals' \in [Managers -> Seq(Stores)]
      /\ \A n \in Managers \ {m} : processedSignals'[n] = processedSignals[n]
  BY <1>4, <1>5
<1>7. 1 \in 1..k /\ r[1] = ts /\ r # <<>> /\ Head(r) = ts
      /\ 1 \in DOMAIN r
  BY <1>2, <1>3, <1>4
<1>8. ASSUME NEW i \in DOMAIN r
      PROVE  r[i] = ts \/ \E j \in DOMAIN p : p[j] = r[i]
  <2>1. i \in 1..k /\ r[i] = q[i] /\ i \in 1..Len(p) + 1
    BY <1>2, <1>3, <1>4
  <2>2. CASE i = 1
    BY <2>1, <2>2, <1>2
  <2>3. CASE i # 1
    <3>1. i \in 2..Len(p) + 1 /\ i - 1 \in DOMAIN p
      BY <2>1, <2>3, <1>1
    <3> QED
      BY <2>1, <3>1, <1>2
  <2> QED
    BY <2>2, <2>3
<1>9. Processed(m, ts)'
  BY <1>6, <1>7 DEF Processed
<1>10. \A x : Processed(m, x)' => Processed(m, x) \/ x = ts
  BY <1>6, <1>8 DEF Processed
<1> QED
  BY <1>3, <1>4, <1>6, <1>7, <1>9, <1>10
-----------------------------------------------------------------------------
(* Types.                                                                  *)

LEMMA ChangeTypes ==
  /\ \A c, d \in BOOLEAN, keys \in SUBSET Keys : Change(c, d, keys) \in Changes
  /\ \A change \in Changes : Paths(change) \subseteq Types
  /\ \A change \in Changes : TypesOf(change.keys) \subseteq Types
BY ConstantsAssumption DEF Change, Changes, Paths, TypesOf

ObjectTypes ==
  /\ loaded \in [Managers -> BOOLEAN] /\ foreign \in [Managers -> BOOLEAN]
  /\ selected \in [Managers -> SUBSET Types] /\ mem \in [Managers -> Values]

\* The object of one manager is put, those of the others stay.
LEMMA PutEffect ==
  ASSUME ObjectTypes, NEW m \in Managers, NEW l \in BOOLEAN,
         NEW f \in BOOLEAN, NEW sel \in SUBSET Types, NEW vals \in Values,
         Put(m, l, f, sel, vals)
  PROVE  /\ ObjectTypes'
         /\ loaded'[m] = l /\ foreign'[m] = f
         /\ selected'[m] = sel /\ mem'[m] = vals
         /\ \A n \in Managers \ {m} :
              /\ loaded'[n] = loaded[n] /\ foreign'[n] = foreign[n]
              /\ selected'[n] = selected[n] /\ mem'[n] = mem[n]
<1>1. /\ loaded' \in [Managers -> BOOLEAN] /\ loaded'[m] = l
      /\ foreign' \in [Managers -> BOOLEAN] /\ foreign'[m] = f
      /\ \A n \in Managers \ {m} :
           loaded'[n] = loaded[n] /\ foreign'[n] = foreign[n]
  BY Zenon DEF Put, ObjectTypes
<1>2. /\ selected' \in [Managers -> SUBSET Types] /\ selected'[m] = sel
      /\ mem' \in [Managers -> Values] /\ mem'[m] = vals
      /\ \A n \in Managers \ {m} :
           selected'[n] = selected[n] /\ mem'[n] = mem[n]
  BY DEF Put, ObjectTypes
<1> QED
  BY <1>1, <1>2 DEF ObjectTypes

\* What the changes of a signal leave of the object.
LEMMA DoneEffect ==
  ASSUME ObjectTypes, sent \in Seq(Changes), NEW m \in Managers,
         NEW ts \in Stores, ts \in DOMAIN sent, NEW f \in BOOLEAN,
         NEW sel \in SUBSET Types, NEW vals \in Values,
         DoneChanges(m, ts, f, sel, vals)
  PROVE  /\ ObjectTypes'
         /\ loaded'[m] = ~sent[ts].deleted
         /\ ~sent[ts].deleted =>
              /\ foreign'[m] = f
              /\ selected'[m] = Known(sent[ts], f, sel)
              /\ mem'[m] = Overlay(vals, sent[ts], ts, selected'[m])
         /\ sent[ts].deleted => selected'[m] = {} /\ mem'[m] = NoValues
         /\ \A n \in Managers \ {m} :
              /\ loaded'[n] = loaded[n] /\ foreign'[n] = foreign[n]
              /\ selected'[n] = selected[n] /\ mem'[n] = mem[n]
<1> DEFINE known == Known(sent[ts], f, sel)
           over  == Overlay(vals, sent[ts], ts, known)
<1>1. sent[ts] \in Changes
  OBVIOUS
<1>2. known \in SUBSET Types
  BY <1>1, ChangeTypes DEF Known
<1>3. over \in Values /\ NoValues \in Values
  <2>1. ts \in 0..MaxStores /\ 0 \in 0..MaxStores
    BY ConstantsAssumption DEF Stores
  <2>2. \A k \in Keys : vals[k] \in 0..MaxStores
    BY DEF Values
  <2> QED
    BY <2>1, <2>2 DEF Overlay, Values, NoValues
<1>4. CASE sent[ts].deleted
  BY <1>3, <1>4, PutEffect DEF DoneChanges
<1>5. CASE ~sent[ts].deleted
  <2>1. Put(m, TRUE, f, known, over)
    BY <1>5 DEF DoneChanges
  <2>2. over = Overlay(vals, sent[ts], ts, known)
    OBVIOUS
  <2> HIDE DEF known, over
  <2>3. /\ ObjectTypes'
        /\ loaded'[m] = TRUE /\ foreign'[m] = f
        /\ selected'[m] = known /\ mem'[m] = over
        /\ \A n \in Managers \ {m} :
             /\ loaded'[n] = loaded[n] /\ foreign'[n] = foreign[n]
             /\ selected'[n] = selected[n] /\ mem'[n] = mem[n]
    BY <1>2, <1>3, <2>1, PutEffect
  <2> QED
    BY <1>5, <2>2, <2>3 DEF known
<1>6. sent[ts].deleted \in BOOLEAN
  BY <1>1 DEF Changes
<1> QED
  BY <1>4, <1>5, <1>6

LEMMA TypeFacts ==
  ASSUME TypeOK
  PROVE  /\ ObjectTypes
         /\ sent \in Seq(Changes) /\ Len(sent) \in Nat
         /\ Len(sent) <= MaxStores
         /\ DOMAIN sent = 1..Len(sent) /\ DOMAIN sent \subseteq Stores
         /\ \A s \in DOMAIN sent : sent[s] \in Changes
         /\ \A m \in Managers : /\ outbox[m].store \in 0..MaxStores
                                /\ outbox[m].paths \in SUBSET Types
                                /\ inbox[m] \in Seq(Stores)
                                /\ loaded[m] \in BOOLEAN
                                /\ foreign[m] \in BOOLEAN
                                /\ selected[m] \in SUBSET Types
                                /\ mem[m] \in Values
BY ConstantsAssumption DEF TypeOK, ObjectTypes, Stores

\* The signals of ours that are marked.
LEMMA Marked ==
  ASSUME TypeOK, NEW m \in Managers, NEW ts, MarkPending(m, ts)
  PROVE  /\ emittedSignals' \in [Managers -> SUBSET Emitted]
         /\ \A n \in Managers \ {m} : emittedSignals'[n] = emittedSignals[n]
         /\ \A d \in emittedSignals'[m] :
              /\ d.mustProcess = TRUE /\ d.ts # ts
              /\ \E e \in emittedSignals[m] : e.ts = d.ts
         /\ \A d, e \in emittedSignals'[m] : d.ts = e.ts => d = e
<1> DEFINE marks == {[ts |-> e.ts, mustProcess |-> TRUE] :
                       e \in {x \in emittedSignals[m] : x.ts # ts}}
<1>1. emittedSignals' = [emittedSignals EXCEPT ![m] = marks]
  BY DEF MarkPending
<1>2. \A d \in marks : /\ d \in Emitted
                       /\ d.mustProcess = TRUE /\ d.ts # ts
                       /\ d = [ts |-> d.ts, mustProcess |-> TRUE]
                       /\ \E e \in emittedSignals[m] : e.ts = d.ts
  <2> TAKE d \in marks
  <2>1. PICK e \in {x \in emittedSignals[m] : x.ts # ts} :
          d = [ts |-> e.ts, mustProcess |-> TRUE]
    OBVIOUS
  <2>2. e \in emittedSignals[m] /\ e \in Emitted /\ e.ts # ts
    BY DEF TypeOK
  <2>3. e.ts \in Stores
    BY <2>2 DEF Emitted
  <2>4. d.ts = e.ts /\ d.mustProcess = TRUE
    BY <2>1
  <2> QED
    BY <2>1, <2>2, <2>3, <2>4 DEF Emitted
<1> HIDE DEF marks
<1>3. \A d, e \in marks : d.ts = e.ts => d = e
  BY <1>2
<1>4. marks \in SUBSET Emitted /\ emittedSignals \in [Managers -> SUBSET Emitted]
  BY <1>2 DEF TypeOK
<1>5. /\ emittedSignals'[m] = marks
      /\ emittedSignals' \in [Managers -> SUBSET Emitted]
      /\ \A n \in Managers \ {m} : emittedSignals'[n] = emittedSignals[n]
  BY <1>1, <1>4
<1> QED
  BY <1>2, <1>3, <1>5

LEMMA InitTypes == Init => TypeOK
<1> SUFFICES ASSUME Init PROVE TypeOK
  OBVIOUS
<1>1. NoValues \in Values /\ Idle \in [store : 0..MaxStores, paths : SUBSET Types]
  BY ConstantsAssumption DEF NoValues, Values, Idle
<1>2. /\ loaded \in [Managers -> BOOLEAN] /\ foreign \in [Managers -> BOOLEAN]
  BY DEF Init
<1>3. /\ selected \in [Managers -> SUBSET Types]
      /\ mem \in [Managers -> Values]
      /\ outbox \in [Managers -> [store : 0..MaxStores, paths : SUBSET Types]]
      /\ inbox \in [Managers -> Seq(Stores)]
      /\ processedSignals \in [Managers -> Seq(Stores)]
      /\ \A m \in Managers : Len(processedSignals[m]) <= Window
      /\ emittedSignals \in [Managers -> SUBSET Emitted]
      /\ announced \in [Managers -> SUBSET {"created", "deleted"}]
      /\ applied \in [Managers -> [Stores -> Nat]]
  BY <1>1, ConstantsAssumption DEF Init
<1>4. sent \in Seq(Changes) /\ Len(sent) <= MaxStores /\ loads \in 0..MaxLoads
  BY ConstantsAssumption DEF Init
<1>5. \A m \in Managers : emittedSignals[m] = {}
  BY DEF Init
<1> QED
  BY <1>1, <1>2, <1>3, <1>4, <1>5 DEF Init, TypeOK

LEMMA NoValuesType == NoValues \in Values
BY ConstantsAssumption DEF Values, NoValues

LEMMA ReadTypes ==
  ASSUME TypeOK, NEW vals \in Values, NEW ts
  PROVE  Read(vals, ts) \in Values
BY DEF Read, Values, TypeOK

\* What the actions that handle an object leave alone, and their types.
LEMMA LoadTypes ==
  ASSUME TypeOK, NEW m \in Managers, Load(m) PROVE TypeOK'
<1>1. ObjectTypes'
  <2>1. Read(NoValues, {Global}) \in Values /\ {Global} \in SUBSET Types
    BY ReadTypes, NoValuesType, ConstantsAssumption
  <2> QED
    BY <2>1, TypeFacts, PutEffect DEF Load
<1>2. loads' \in 0..MaxLoads
  BY ConstantsAssumption DEF Load, TypeOK
<1> QED
  BY <1>1, <1>2 DEF TypeOK, ObjectTypes, Load, dbVars, busVars, signalVars,
     historyVars, Processed

LEMMA SelectTypes ==
  ASSUME TypeOK, NEW m \in Managers, NEW t \in Types, Select(m, t)
  PROVE  TypeOK'
<1>1. ObjectTypes'
  <2>1. Read(mem[m], {t}) \in Values /\ selected[m] \cup {t} \in SUBSET Types
        /\ foreign[m] \in BOOLEAN
    BY ReadTypes, TypeFacts
  <2> QED
    BY <2>1, TypeFacts, PutEffect DEF Select
<1> QED
  BY <1>1 DEF TypeOK, ObjectTypes, Select, dbVars, busVars, signalVars,
     historyVars, Processed

LEMMA ReleaseTypes ==
  ASSUME TypeOK, NEW m \in Managers, Release(m) PROVE TypeOK'
<1>1. ObjectTypes'
  BY NoValuesType, TypeFacts, PutEffect DEF Release
<1> QED
  BY <1>1 DEF TypeOK, ObjectTypes, Release, dbVars, busVars, signalVars,
     historyVars, Processed

\* A commit appends to sent and fills the outbox of its manager.
LEMMA CommitEffect ==
  ASSUME TypeOK, NEW m \in Managers, NEW change \in Changes,
         Commit(m, change)
  PROVE  /\ outbox[m] = Idle
         /\ Len(sent) + 1 \in Stores
         /\ sent' \in Seq(Changes) /\ Len(sent') = Len(sent) + 1
         /\ Len(sent') <= MaxStores
         /\ \A s \in DOMAIN sent : sent'[s] = sent[s]
         /\ sent'[Len(sent) + 1] = change
         /\ DOMAIN sent' = DOMAIN sent \cup {Len(sent) + 1}
         /\ outbox'[m].store = Len(sent) + 1
         /\ outbox'[m].paths = Paths(change)
         /\ outbox' \in [Managers ->
                           [store : 0..MaxStores, paths : SUBSET Types]]
         /\ \A n \in Managers \ {m} : outbox'[n] = outbox[n]
         /\ db' \in Values
         /\ UNCHANGED <<inbox, signalVars, loads, historyVars>>
<1>1. Len(sent) \in Nat /\ Len(sent) < MaxStores /\ MaxStores \in Nat
  BY TypeFacts, ConstantsAssumption DEF Commit
<1>2. Len(sent) + 1 \in Stores /\ Len(sent) + 1 \in 0..MaxStores
  BY <1>1 DEF Stores
<1>3. /\ sent' \in Seq(Changes) /\ Len(sent') = Len(sent) + 1
      /\ \A s \in DOMAIN sent : sent'[s] = sent[s]
      /\ sent'[Len(sent) + 1] = change
      /\ DOMAIN sent' = DOMAIN sent \cup {Len(sent) + 1}
  BY TypeFacts DEF Commit
<1>4. /\ outbox'[m] = [store |-> Len(sent) + 1, paths |-> Paths(change)]
      /\ outbox' \in [Managers ->
                        [store : 0..MaxStores, paths : SUBSET Types]]
      /\ \A n \in Managers \ {m} : outbox'[n] = outbox[n]
  BY <1>2, ChangeTypes DEF Commit, TypeOK
<1>5. db' \in Values
  <2>1. CASE change.deleted
    BY <2>1, NoValuesType DEF Commit
  <2>2. CASE ~change.deleted
    BY <1>2, <2>2 DEF Commit, Values, TypeOK
  <2> QED
    BY <2>1, <2>2
<1> QED
  BY <1>1, <1>2, <1>3, <1>4, <1>5 DEF Commit, Ready

LEMMA CommitTypes ==
  ASSUME TypeOK, NEW m \in Managers, NEW change \in Changes,
         Commit(m, change), ObjectTypes',
         state' \in {"absent", "live", "deleted"}
  PROVE  TypeOK'
BY CommitEffect DEF TypeOK, ObjectTypes, signalVars, historyVars

LEMMA CreateTypes ==
  ASSUME TypeOK, NEW m \in Managers, NEW keys \in SUBSET Keys,
         Create(m, keys)
  PROVE  TypeOK'
<1>1. {Global} \cup TypesOf(keys) \in SUBSET Types
  BY ConstantsAssumption DEF TypesOf
<1>2. ObjectTypes'
  BY <1>1, NoValuesType, TypeFacts, PutEffect DEF Create
<1> QED
  BY <1>2, ChangeTypes, CommitTypes DEF Create

LEMMA UpdateTypes ==
  ASSUME TypeOK, NEW m \in Managers, NEW keys \in SUBSET Keys,
         Update(m, keys)
  PROVE  TypeOK'
<1>1. ObjectTypes'
  BY TypeFacts DEF Update, ObjectTypes, objectVars
<1>2. state' \in {"absent", "live", "deleted"}
  BY DEF Update, TypeOK
<1> QED
  BY <1>1, <1>2, ChangeTypes, CommitTypes DEF Update

LEMMA DeleteTypes ==
  ASSUME TypeOK, NEW m \in Managers, Delete(m) PROVE TypeOK'
<1>1. ObjectTypes'
  BY TypeFacts DEF Delete, ObjectTypes, objectVars
<1> QED
  BY <1>1, ChangeTypes, CommitTypes DEF Delete

\* The client is told of what the changes say.
LEMMA AnnounceEffect ==
  ASSUME TypeOK, NEW m \in Managers, NEW change \in Changes,
         Announce(m, change)
  PROVE  /\ announced' \in [Managers -> SUBSET {"created", "deleted"}]
         /\ \A n \in Managers : announced[n] \subseteq announced'[n]
         /\ change.created => "created" \in announced'[m]
         /\ change.deleted => "deleted" \in announced'[m]
BY DEF Announce, TypeOK

\* A copy appears in the inboxes of those that listen to its path.
LEMMA DeliverEffect ==
  ASSUME TypeOK, NEW ts \in Stores, NEW path, Deliver(ts, path)
  PROVE  /\ inbox' \in [Managers -> Seq(Stores)]
         /\ \A n \in Managers : inbox'[n] = IF path \in Listens[n]
                                            THEN Append(inbox[n], ts)
                                            ELSE inbox[n]
<1>1. \A n \in Managers : Append(inbox[n], ts) \in Seq(Stores)
  BY TypeFacts
<1> QED
  BY <1>1, TypeFacts DEF Deliver

\* Every store under way has been committed, touches at least the paths it
\* still has to be sent on, and is signalled by one manager.
OutboxInv ==
  /\ \A m \in Managers : ~Ready(m) =>
       /\ outbox[m].store \in DOMAIN sent
       /\ outbox[m].paths # {}
       /\ outbox[m].paths \subseteq Paths(sent[outbox[m].store])
  /\ \A m, n \in Managers : ~Ready(m) /\ ~Ready(n) /\ m # n =>
                              outbox[m].store # outbox[n].store

\* A copy leaves the outbox, the last one with everything that follows it.
LEMMA EmitEffect ==
  ASSUME TypeOK, OutboxInv, NEW m \in Managers, NEW path \in Types,
         Emit(m, path)
  PROVE  /\ ~Ready(m) /\ path \in outbox[m].paths
         /\ outbox[m].store \in DOMAIN sent
         /\ outbox' \in [Managers ->
                           [store : 0..MaxStores, paths : SUBSET Types]]
         /\ \A n \in Managers \ {m} : outbox'[n] = outbox[n]
         /\ outbox[m].paths = {path} =>
              /\ outbox'[m] = Idle
              /\ emittedSignals' =
                   [emittedSignals EXCEPT ![m] =
                      @ \cup {[ts |-> outbox[m].store, mustProcess |-> FALSE]}]
              /\ DoneChanges(m, outbox[m].store, foreign[m], selected[m],
                             mem[m])
              /\ Announce(m, sent[outbox[m].store])
         /\ outbox[m].paths # {path} =>
              /\ outbox'[m].store = outbox[m].store
              /\ outbox'[m].paths = outbox[m].paths \ {path}
              /\ UNCHANGED <<emittedSignals, objectVars, announced>>
         /\ UNCHANGED <<dbVars, processedSignals, loads, applied>>
<1>1. ~Ready(m)
  BY DEF Emit, Ready, Idle
<1>2. outbox[m].store \in DOMAIN sent /\ path \in outbox[m].paths
  BY <1>1 DEF OutboxInv, Emit
<1>3. CASE outbox[m].paths = {path}
  <2>1. outbox' = [outbox EXCEPT ![m] = Idle]
    BY <1>3 DEF Emit
  <2>2. Idle \in [store : 0..MaxStores, paths : SUBSET Types]
    BY ConstantsAssumption DEF Idle
  <2> QED
    BY <1>1, <1>2, <1>3, <2>1, <2>2 DEF Emit, TypeOK
<1>4. CASE outbox[m].paths # {path}
  <2>1. outbox' = [outbox EXCEPT ![m] =
                     [store |-> outbox[m].store,
                      paths |-> outbox[m].paths \ {path}]]
    BY <1>2, <1>4 DEF Emit
  <2>2. [store |-> outbox[m].store, paths |-> outbox[m].paths \ {path}]
          \in [store : 0..MaxStores, paths : SUBSET Types]
    BY TypeFacts
  <2> QED
    BY <1>1, <1>2, <1>4, <2>1, <2>2 DEF Emit, TypeOK
<1> QED
  BY <1>3, <1>4

LEMMA EmitTypes ==
  ASSUME TypeOK, OutboxInv, NEW m \in Managers, NEW path \in Types,
         Emit(m, path),
         \A e \in emittedSignals[m] : e.ts # outbox[m].store
  PROVE  TypeOK'
<1>1. inbox' \in [Managers -> Seq(Stores)]
  BY EmitEffect, DeliverEffect, TypeFacts DEF Emit
<1>2. CASE outbox[m].paths = {path}
  <2>1. ObjectTypes' /\ announced' \in [Managers ->
                                           SUBSET {"created", "deleted"}]
    <3>1. /\ outbox[m].store \in DOMAIN sent /\ outbox[m].store \in Stores
          /\ sent[outbox[m].store] \in Changes
          /\ DoneChanges(m, outbox[m].store, foreign[m], selected[m],
                         mem[m])
          /\ Announce(m, sent[outbox[m].store])
      BY <1>2, EmitEffect, TypeFacts
    <3>2. ObjectTypes'
      BY <3>1, DoneEffect, TypeFacts
    <3> QED
      BY <3>1, <3>2, AnnounceEffect
  <2> DEFINE e == [ts |-> outbox[m].store, mustProcess |-> FALSE]
  <2>2. emittedSignals' = [emittedSignals EXCEPT ![m] = @ \cup {e}]
    BY <1>2, EmitEffect
  <2>3. e \in Emitted /\ e.ts = outbox[m].store
    BY EmitEffect, TypeFacts DEF Emitted
  <2> HIDE DEF e
  <2>4. /\ emittedSignals' \in [Managers -> SUBSET Emitted]
        /\ \A n \in Managers : \A d, f \in emittedSignals'[n] :
             d.ts = f.ts => d = f
    BY <2>2, <2>3 DEF TypeOK
  <2> QED
    BY <1>1, <2>1, <2>4, EmitEffect DEF TypeOK, ObjectTypes, dbVars
<1>3. CASE outbox[m].paths # {path}
  BY <1>1, <1>3, EmitEffect DEF TypeOK, dbVars, objectVars
<1> QED
  BY <1>2, <1>3

\* The first copy of the inbox is taken by a manager that is not storing.
LEMMA ArriveEffect ==
  ASSUME TypeOK, NEW m \in Managers, NEW ts, Arrives(m, ts)
  PROVE  /\ Ready(m) /\ ts \in Stores
         /\ inbox' \in [Managers -> Seq(Stores)]
         /\ \A x : In(inbox[m], x) <=> In(inbox'[m], x) \/ x = ts
         /\ \A x : AtLeast(inbox[m], x) => AtLeast(inbox'[m], x) /\ x <= ts
         /\ Sorted(inbox[m]) => Sorted(inbox'[m]) /\ AtLeast(inbox'[m], ts)
         /\ \A n \in Managers \ {m} : inbox'[n] = inbox[n]
         /\ UNCHANGED <<outbox, dbVars, loads>>
<1>1. inbox[m] \in Seq(Stores) /\ inbox[m] # <<>> /\ ts = Head(inbox[m])
  BY TypeFacts DEF Arrives
<1>2. /\ Tail(inbox[m]) \in Seq(Stores) /\ Head(inbox[m]) \in Stores
      /\ \A x : In(inbox[m], x) <=> In(Tail(inbox[m]), x) \/ x = Head(inbox[m])
      /\ \A x : AtLeast(inbox[m], x)
                  => AtLeast(Tail(inbox[m]), x) /\ x <= Head(inbox[m])
      /\ Sorted(inbox[m]) => /\ Sorted(Tail(inbox[m]))
                             /\ AtLeast(Tail(inbox[m]), Head(inbox[m]))
  BY <1>1, Handled
<1>3. /\ inbox'[m] = Tail(inbox[m]) /\ inbox' \in [Managers -> Seq(Stores)]
      /\ \A n \in Managers \ {m} : inbox'[n] = inbox[n]
  BY <1>2 DEF Arrives, TypeOK
<1> QED
  BY <1>1, <1>2, <1>3 DEF Arrives

\* A signal of ours is taken off the list when it is skipped.
LEMMA SkipEffect ==
  ASSUME TypeOK, NEW m \in Managers, NEW ts, SkipOwn(m, ts)
  PROVE  /\ emittedSignals' \in [Managers -> SUBSET Emitted]
         /\ emittedSignals'[m] = {e \in emittedSignals[m] : e.ts # ts}
         /\ \A n \in Managers \ {m} : emittedSignals'[n] = emittedSignals[n]
         /\ [ts |-> ts, mustProcess |-> FALSE] \in emittedSignals[m]
<1>1. {e \in emittedSignals[m] : e.ts # ts} \in SUBSET Emitted
  BY DEF TypeOK
<1>2. PICK e \in emittedSignals[m] : e.ts = ts
  BY DEF SkipOwn, Ours
<1>3. e = [ts |-> ts, mustProcess |-> FALSE]
  <2>1. e \in Emitted /\ e # [ts |-> ts, mustProcess |-> TRUE]
    BY <1>2 DEF SkipOwn, MustProcess, TypeOK
  <2>2. e = [ts |-> e.ts, mustProcess |-> e.mustProcess]
        /\ e.mustProcess \in BOOLEAN
    BY <2>1 DEF Emitted
  <2> QED
    BY <1>2, <2>1, <2>2
<1> QED
  BY <1>1, <1>2, <1>3 DEF SkipOwn, TypeOK

\* What a manager makes of a signal: the object of an account that it knows,
\* one for an account created elsewhere, or none.
LEMMA ProcessEffect ==
  ASSUME TypeOK, NEW m \in Managers, NEW ts \in DOMAIN sent, Process(m, ts)
  PROVE  /\ ObjectTypes'
         /\ \/ DoneChanges(m, ts, foreign[m], selected[m], mem[m])
               /\ loaded[m]
            \/ DoneChanges(m, ts, sent[ts].created, {}, NoValues)
               /\ ~loaded[m] /\ (sent[ts].created \/ sent[ts].deleted)
            \/ UNCHANGED objectVars /\ ~loaded[m]
         /\ \A n \in Managers \ {m} :
              /\ loaded'[n] = loaded[n] /\ foreign'[n] = foreign[n]
              /\ selected'[n] = selected[n] /\ mem'[n] = mem[n]
<1>1. /\ ts \in Stores /\ sent[ts] \in Changes /\ sent[ts].created \in BOOLEAN
      /\ {} \in SUBSET Types /\ NoValues \in Values
      /\ ObjectTypes /\ sent \in Seq(Changes)
      /\ foreign[m] \in BOOLEAN /\ selected[m] \in SUBSET Types
      /\ mem[m] \in Values
  BY TypeFacts, NoValuesType DEF Changes
<1>2. CASE loaded[m]
  <2>1. DoneChanges(m, ts, foreign[m], selected[m], mem[m])
    BY <1>2 DEF Process
  <2> QED
    BY <1>1, <1>2, <2>1, DoneEffect
<1>3. CASE /\ ~loaded[m]
           /\ (sent[ts].created \/ sent[ts].deleted) /\ ~Ours(m, ts)
  <2>1. DoneChanges(m, ts, sent[ts].created, {}, NoValues)
    BY <1>3 DEF Process
  <2> QED
    BY <1>1, <1>3, <2>1, DoneEffect
<1>4. CASE /\ ~loaded[m]
           /\ ~((sent[ts].created \/ sent[ts].deleted) /\ ~Ours(m, ts))
  <2>1. UNCHANGED objectVars
    BY <1>4 DEF Process
  <2>2. ObjectTypes'
    BY <2>1, TypeFacts DEF ObjectTypes, objectVars
  <2> QED
    BY <1>4, <2>1, <2>2 DEF objectVars
<1> QED
  BY <1>2, <1>3, <1>4

LEMMA DuplicateTypes ==
  ASSUME TypeOK, NEW m \in Managers, NEW ts, Duplicate(m, ts)
  PROVE  TypeOK'
BY ArriveEffect
DEF Duplicate, TypeOK, signalVars, objectVars, historyVars, dbVars

LEMMA SkipTypes ==
  ASSUME TypeOK, NEW m \in Managers, NEW ts \in Stores, SkipOwn(m, ts)
  PROVE  TypeOK'
<1>1. /\ processedSignals' \in [Managers -> Seq(Stores)]
      /\ \A n \in Managers : Len(processedSignals'[n]) <= Window
  <2>1. Remember(m, ts) /\ processedSignals \in [Managers -> Seq(Stores)]
    BY DEF SkipOwn, TypeOK
  <2> QED
    BY <2>1, Remembered DEF TypeOK
<1>2. /\ emittedSignals' \in [Managers -> SUBSET Emitted]
      /\ \A n \in Managers : \A d, e \in emittedSignals'[n] :
           d.ts = e.ts => d = e
  <2>1. \A n \in Managers : emittedSignals'[n] \subseteq emittedSignals[n]
    BY SkipEffect
  <2> QED
    BY <2>1, SkipEffect DEF TypeOK
<1>3. Arrives(m, ts) /\ UNCHANGED <<objectVars, historyVars>>
  BY DEF SkipOwn
<1> QED
  BY <1>1, <1>2, <1>3, ArriveEffect DEF TypeOK, objectVars, historyVars, dbVars

LEMMA ProcessTypes ==
  ASSUME TypeOK, NEW m \in Managers, NEW ts \in DOMAIN sent, Process(m, ts)
  PROVE  TypeOK'
<1>1. ts \in Stores /\ sent[ts] \in Changes
  BY TypeFacts
<1>2. /\ processedSignals' \in [Managers -> Seq(Stores)]
      /\ \A n \in Managers : Len(processedSignals'[n]) <= Window
  <2>1. Remember(m, ts) /\ processedSignals \in [Managers -> Seq(Stores)]
    BY DEF Process, TypeOK
  <2> QED
    BY <1>1, <2>1, Remembered DEF TypeOK
<1>3. /\ emittedSignals' \in [Managers -> SUBSET Emitted]
      /\ \A n \in Managers : \A d, e \in emittedSignals'[n] :
           d.ts = e.ts => d = e
  <2>1. MarkPending(m, ts)
    BY DEF Process
  <2> QED
    BY <2>1, Marked DEF TypeOK
<1>4. announced' \in [Managers -> SUBSET {"created", "deleted"}]
  BY <1>1, AnnounceEffect DEF Process
<1>5. applied' \in [Managers -> [Stores -> Nat]]
  <2> DEFINE row == [applied[m] EXCEPT ![ts] = applied[m][ts] + 1]
  <2>1. row \in [Stores -> Nat]
    BY <1>1 DEF TypeOK
  <2>2. applied' = [applied EXCEPT ![m] = row]
    BY DEF Process
  <2> HIDE DEF row
  <2> QED
    BY <2>1, <2>2 DEF TypeOK
<1>6. ObjectTypes' /\ Arrives(m, ts)
  BY ProcessEffect DEF Process
<1> QED
  BY <1>2, <1>3, <1>4, <1>5, <1>6, ArriveEffect DEF TypeOK, ObjectTypes, dbVars
-----------------------------------------------------------------------------
(***************************************************************************)
(* The invariant of the signals, which no scheduling disturbs.             *)
(***************************************************************************)

\* A copy was sent, so that its store has been committed and the sending of
\* its signal has begun.
SeenInv ==
  \A m \in Managers, x \in Stores : In(inbox[m], x) \/ Processed(m, x) =>
    /\ x \in DOMAIN sent
    /\ \A n \in Managers : outbox[n].store = x => ~Unsent(n)

\* A signal that is on the list of a manager, or that the manager is sending,
\* has not been processed by it, and is in its inbox if one of the copies
\* went to a path it listens to.
OwnInv ==
  \A m \in Managers :
    /\ \A e \in emittedSignals[m] :
         /\ e.ts \in DOMAIN sent /\ ~Processed(m, e.ts)
         /\ \A n \in Managers : outbox[n].store # e.ts
         /\ \A t \in Paths(sent[e.ts]) \cap Listens[m] : In(inbox[m], e.ts)
    /\ ~Ready(m) =>
         LET s == outbox[m].store
         IN  /\ ~Processed(m, s)
             /\ \A t \in (Paths(sent[s]) \ outbox[m].paths) \cap Listens[m] :
                  In(inbox[m], s)

SignalInv == OutboxInv /\ SeenInv /\ OwnInv

SignalVars == <<sent, busVars, signalVars, historyVars>>

\* The kinds of steps, as far as the signals go. Every store touches a path.
LEMMA Kinds ==
  ASSUME TypeOK, [Next]_vars
  PROVE  \/ UNCHANGED SignalVars
         \/ \E m \in Managers, change \in Changes :
              /\ Commit(m, change)
              /\ change.keys # {} \/ change.created \/ change.deleted
         \/ \E m \in Managers, path \in Types : Emit(m, path)
         \/ \E m \in Managers, ts \in Stores :
              Duplicate(m, ts) \/ SkipOwn(m, ts) \/ Process(m, ts)
<1>1. ASSUME NEW m \in Managers, Load(m) \/ Release(m)
      PROVE  UNCHANGED SignalVars
  BY <1>1 DEF Load, Release, SignalVars, dbVars, busVars, historyVars
<1>2. ASSUME NEW m \in Managers, NEW t, Select(m, t)
      PROVE  UNCHANGED SignalVars
  BY <1>2 DEF Select, SignalVars, dbVars, busVars, historyVars
<1>3. ASSUME NEW m \in Managers, NEW keys \in SUBSET Keys,
             Create(m, keys) \/ Update(m, keys) \/ Delete(m)
      PROVE  \E change \in Changes :
               /\ Commit(m, change)
               /\ change.keys # {} \/ change.created \/ change.deleted
  <2>1. \A c, d \in BOOLEAN, ks \in SUBSET Keys :
          /\ Change(c, d, ks).created = c /\ Change(c, d, ks).deleted = d
          /\ Change(c, d, ks).keys = ks
    BY DEF Change
  <2>2. CASE Create(m, keys)
    <3>1. Commit(m, Change(TRUE, FALSE, keys))
      BY <2>2 DEF Create
    <3>2. Change(TRUE, FALSE, keys) \in Changes
          /\ Change(TRUE, FALSE, keys).created
      BY <2>1, ChangeTypes
    <3> QED
      BY <3>1, <3>2
  <2>3. CASE Update(m, keys)
    <3>1. Commit(m, Change(FALSE, FALSE, keys)) /\ keys # {}
      BY <2>3 DEF Update
    <3>2. Change(FALSE, FALSE, keys) \in Changes
          /\ Change(FALSE, FALSE, keys).keys = keys
      BY <2>1, ChangeTypes
    <3> QED
      BY <3>1, <3>2
  <2>4. CASE Delete(m)
    <3>1. Commit(m, Change(FALSE, TRUE, {}))
      BY <2>4 DEF Delete
    <3>2. Change(FALSE, TRUE, {}) \in Changes
          /\ Change(FALSE, TRUE, {}).deleted
      BY <2>1, ChangeTypes
    <3> QED
      BY <3>1, <3>2
  <2> QED
    BY <1>3, <2>2, <2>3, <2>4
<1>4. ASSUME UNCHANGED vars PROVE UNCHANGED SignalVars
  BY <1>4 DEF vars, SignalVars, dbVars, busVars, signalVars, historyVars
<1>5. {} \in SUBSET Keys
  OBVIOUS
<1> QED
  BY <1>1, <1>2, <1>3, <1>4, <1>5 DEF Next, Client, Work, Receive

\* An idle outbox is not that of a store.
LEMMA IdleOutbox ==
  /\ Idle.store = 0 /\ Idle.paths = {}
  /\ \A m \in Managers : Ready(m) => outbox[m].store = 0
                                     /\ outbox[m].paths = {}
  /\ \A x \in Stores : x # 0
BY DEF Idle, Ready, Stores

LEMMA SignalInit == Init => SignalInv
<1> SUFFICES ASSUME Init PROVE SignalInv
  OBVIOUS
<1>1. /\ \A m \in Managers : Ready(m) /\ emittedSignals[m] = {}
      /\ \A m \in Managers : \A x : ~In(inbox[m], x) /\ ~Processed(m, x)
  BY DEF Init, Ready, In, Processed
<1> QED
  BY <1>1 DEF SignalInv, OutboxInv, SeenInv, OwnInv

LEMMA SignalCommit ==
  ASSUME TypeOK, SignalInv, NEW m \in Managers, NEW change \in Changes,
         change.keys # {} \/ change.created \/ change.deleted,
         Commit(m, change)
  PROVE  SignalInv'
<1> DEFINE s == Len(sent) + 1
<1>1. /\ Ready(m) /\ s \in Stores /\ s \notin DOMAIN sent
      /\ DOMAIN sent' = DOMAIN sent \cup {s} /\ sent'[s] = change
      /\ \A x \in DOMAIN sent : sent'[x] = sent[x]
      /\ outbox'[m].store = s /\ outbox'[m].paths = Paths(change)
      /\ \A n \in Managers \ {m} : outbox'[n] = outbox[n]
      /\ UNCHANGED <<inbox, signalVars>>
  <2>1. s \notin DOMAIN sent
    BY TypeFacts
  <2> QED
    BY <2>1, CommitEffect DEF Ready
<1>2. Paths(change) # {}
  BY DEF Paths, TypesOf
<1> HIDE DEF s
<1>3. \A n \in Managers : ~Ready(n) => outbox[n].store \in DOMAIN sent
  BY DEF SignalInv, OutboxInv
<1>4. \A n \in Managers \ {m} : Ready(n)' <=> Ready(n)
  BY <1>1 DEF Ready
<1>5. OutboxInv'
  BY <1>1, <1>2, <1>3, <1>4 DEF SignalInv, OutboxInv
<1>6. SeenInv'
  <2> SUFFICES ASSUME NEW q \in Managers, NEW x \in Stores,
                      In(inbox[q], x) \/ Processed(q, x)
               PROVE  /\ x \in DOMAIN sent'
                      /\ \A n \in Managers : outbox'[n].store = x
                                               => ~Unsent(n)'
    BY <1>1 DEF SeenInv, Processed, signalVars
  <2>1. x \in DOMAIN sent /\ \A n \in Managers : outbox[n].store = x
                                                   => ~Unsent(n)
    BY DEF SignalInv, SeenInv
  <2> QED
    BY <1>1, <1>4, <2>1 DEF Unsent
<1>7. OwnInv'
  <2> SUFFICES ASSUME NEW q \in Managers
               PROVE
                 /\ \A e \in emittedSignals[q] :
                      /\ e.ts \in DOMAIN sent' /\ ~Processed(q, e.ts)
                      /\ \A n \in Managers : outbox'[n].store # e.ts
                      /\ \A t \in Paths(sent'[e.ts]) \cap Listens[q] :
                           In(inbox[q], e.ts)
                 /\ ~Ready(q)' =>
                      /\ ~Processed(q, outbox'[q].store)
                      /\ \A t \in (Paths(sent'[outbox'[q].store])
                                     \ outbox'[q].paths) \cap Listens[q] :
                           In(inbox[q], outbox'[q].store)
    BY <1>1 DEF OwnInv, Processed, signalVars
  <2>1. ASSUME NEW e \in emittedSignals[q]
        PROVE  /\ e.ts \in DOMAIN sent' /\ ~Processed(q, e.ts)
               /\ \A n \in Managers : outbox'[n].store # e.ts
               /\ \A t \in Paths(sent'[e.ts]) \cap Listens[q] :
                    In(inbox[q], e.ts)
    BY <1>1 DEF SignalInv, OwnInv
  <2>2. CASE q = m
    <3>1. ~Processed(m, s)
      BY <1>1 DEF SignalInv, SeenInv
    <3> QED
      BY <1>1, <2>1, <2>2, <3>1
  <2>3. CASE q # m
    BY <1>1, <1>3, <1>4, <2>1, <2>3 DEF SignalInv, OwnInv
  <2> QED
    BY <2>2, <2>3
<1> QED
  BY <1>5, <1>6, <1>7 DEF SignalInv

LEMMA SignalEmit ==
  ASSUME TypeOK, SignalInv, NEW m \in Managers, NEW path \in Types,
         Emit(m, path)
  PROVE  SignalInv'
<1> DEFINE s == outbox[m].store
<1>1. /\ ~Ready(m) /\ s \in DOMAIN sent /\ s \in Stores
      /\ path \in outbox[m].paths /\ outbox[m].paths \subseteq Paths(sent[s])
      /\ \A n \in Managers \ {m} : outbox'[n] = outbox[n]
      /\ outbox'[m].paths = outbox[m].paths \ {path}
      /\ IF outbox[m].paths = {path}
         THEN outbox'[m] = Idle
         ELSE outbox'[m].store = s /\ outbox'[m] # Idle
              /\ outbox'[m].paths # {}
      /\ UNCHANGED <<sent, processedSignals>>
  <2>1. OutboxInv
    BY DEF SignalInv
  <2>2. /\ ~Ready(m) /\ s \in DOMAIN sent /\ s \in Stores
        /\ path \in outbox[m].paths /\ outbox[m].paths \subseteq Paths(sent[s])
    BY <2>1, EmitEffect, TypeFacts DEF OutboxInv
  <2>3. CASE outbox[m].paths = {path}
    BY <2>1, <2>2, <2>3, EmitEffect, IdleOutbox DEF dbVars
  <2>4. CASE outbox[m].paths # {path}
    BY <2>1, <2>2, <2>4, EmitEffect, IdleOutbox DEF dbVars
  <2> QED
    BY <2>3, <2>4
<1>2. /\ \A n \in Managers : \A x : In(inbox[n], x) => In(inbox'[n], x)
      /\ \A n \in Managers : \A x : In(inbox'[n], x) => In(inbox[n], x) \/ x = s
      /\ \A n \in Managers : path \in Listens[n] => In(inbox'[n], s)
  <2>1. \A n \in Managers : inbox'[n] = IF path \in Listens[n]
                                         THEN Append(inbox[n], s)
                                         ELSE inbox[n]
    BY <1>1, DeliverEffect DEF Emit
  <2>2. \A n \in Managers : \A x : In(Append(inbox[n], s), x) <=>
                                     In(inbox[n], x) \/ x = s
    BY <1>1, Appended, TypeFacts
  <2> QED
    BY <2>1, <2>2
<1>3. /\ \A n \in Managers \ {m} : emittedSignals'[n] = emittedSignals[n]
      /\ \A e \in emittedSignals'[m] :
           e \in emittedSignals[m] \/ (e.ts = s /\ outbox[m].paths = {path})
  <2>1. OutboxInv
    BY DEF SignalInv
  <2>2. CASE outbox[m].paths = {path}
    <3>1. emittedSignals' = [emittedSignals EXCEPT ![m] =
                               @ \cup {[ts |-> s, mustProcess |-> FALSE]}]
      BY <2>1, <2>2, EmitEffect
    <3> QED
      BY <2>2, <3>1 DEF TypeOK
  <2>3. CASE outbox[m].paths # {path}
    BY <2>1, <2>3, EmitEffect
  <2> QED
    BY <2>2, <2>3
<1> HIDE DEF s
<1>4. \A n \in Managers \ {m} : /\ Ready(n)' <=> Ready(n)
                                /\ outbox[n].store # s
  <2>1. \A n \in Managers \ {m} : ~Ready(n) => outbox[n].store # s
    BY <1>1 DEF SignalInv, OutboxInv, s
  <2>2. s # 0
    BY <1>1, IdleOutbox
  <2> QED
    BY <1>1, <2>1, <2>2, IdleOutbox DEF Ready
<1>5. OutboxInv'
  <2>1. ASSUME NEW n \in Managers, ~Ready(n)'
        PROVE  /\ ~Ready(n) /\ outbox'[n].store = outbox[n].store
               /\ outbox'[n].paths # {}
               /\ outbox'[n].paths \subseteq outbox[n].paths
    <3>1. CASE n = m
      BY <3>1, <2>1, <1>1 DEF Ready, s
    <3>2. CASE n # m
      BY <3>2, <2>1, <1>1, <1>4 DEF SignalInv, OutboxInv
    <3> QED
      BY <3>1, <3>2
  <2> QED
    BY <2>1, <1>1 DEF SignalInv, OutboxInv
<1>6. SeenInv'
  <2> SUFFICES ASSUME NEW q \in Managers, NEW x \in Stores,
                      In(inbox'[q], x) \/ Processed(q, x),
                      NEW n \in Managers, outbox'[n].store = x
               PROVE  x \in DOMAIN sent /\ ~Unsent(n)'
    <3>1. \A q \in Managers, x \in Stores :
            In(inbox'[q], x) \/ Processed(q, x) => x \in DOMAIN sent
      BY <1>1, <1>2 DEF SignalInv, SeenInv
    <3> QED
      BY <3>1, <1>1 DEF SeenInv, Processed
  <2>1. x \in DOMAIN sent
    BY <1>1, <1>2 DEF SignalInv, SeenInv
  <2>2. CASE n = m
    <3>1. \/ path \in Paths(sent[x]) /\ path \notin outbox'[n].paths
          \/ Ready(n)'
      BY <2>2, <1>1 DEF Ready
    <3> QED
      BY <2>1, <3>1, <1>1 DEF Unsent
  <2>3. CASE n # m
    <3>1. x # s /\ ~Unsent(n)
      BY <2>3, <1>1, <1>2, <1>4 DEF SignalInv, SeenInv
    <3> QED
      BY <2>1, <3>1, <2>3, <1>1, <1>4 DEF Unsent
  <2> QED
    BY <2>1, <2>2, <2>3
<1>7. OwnInv'
  <2>1. ASSUME NEW q \in Managers, NEW e \in emittedSignals'[q]
        PROVE  /\ e.ts \in DOMAIN sent /\ ~Processed(q, e.ts)
               /\ \A n \in Managers : outbox'[n].store # e.ts
               /\ \A t \in Paths(sent[e.ts]) \cap Listens[q] :
                    In(inbox'[q], e.ts)
    <3>1. CASE e \in emittedSignals[q]
      <4>1. \A n \in Managers : outbox'[n].store # e.ts
        <5>1. e.ts \in Stores
          BY <3>1 DEF TypeOK, Emitted
        <5> QED
          BY <3>1, <1>1, <5>1, IdleOutbox DEF SignalInv, OwnInv, s
      <4> QED
        BY <3>1, <4>1, <1>2 DEF SignalInv, OwnInv
    <3>2. CASE e \notin emittedSignals[q]
      <4>1. q = m /\ e.ts = s /\ outbox[m].paths = {path}
        BY <3>2, <1>3
      <4>2. \A n \in Managers : outbox'[n].store # s
        <5>1. s # 0
          BY <1>1, IdleOutbox
        <5> QED
          BY <4>1, <5>1, <1>1, <1>4, IdleOutbox
      <4>3. /\ ~Processed(m, s)
            /\ \A t \in (Paths(sent[s]) \ {path}) \cap Listens[m] :
                 In(inbox[m], s)
        BY <1>1, <4>1 DEF SignalInv, OwnInv, s
      <4> QED
        BY <4>1, <4>2, <4>3, <1>1, <1>2
    <3> QED
      BY <3>1, <3>2
  <2>2. ASSUME NEW q \in Managers, ~Ready(q)'
        PROVE  /\ ~Processed(q, outbox'[q].store)
               /\ \A t \in (Paths(sent[outbox'[q].store])
                              \ outbox'[q].paths) \cap Listens[q] :
                    In(inbox'[q], outbox'[q].store)
    <3>1. CASE q = m
      <4>1. outbox'[m].store = s
        BY <2>2, <3>1, <1>1 DEF Ready
      <4>2. /\ ~Processed(m, s)
            /\ \A t \in (Paths(sent[s]) \ outbox[m].paths) \cap Listens[m] :
                 In(inbox[m], s)
        BY <1>1 DEF SignalInv, OwnInv, s
      <4> QED
        BY <3>1, <4>1, <4>2, <1>1, <1>2
    <3>2. CASE q # m
      BY <2>2, <3>2, <1>1, <1>2, <1>4 DEF SignalInv, OwnInv
    <3> QED
      BY <3>1, <3>2
  <2> QED
    BY <2>1, <2>2, <1>1 DEF OwnInv, Processed
<1> QED
  BY <1>5, <1>6, <1>7 DEF SignalInv

\* Handling a copy: ts is taken from the inbox of m, processed or skipped it
\* is on the list no more.
LEMMA SignalHandle ==
  ASSUME TypeOK, SignalInv, NEW m \in Managers, NEW ts \in Stores,
         Arrives(m, ts),
         \A n \in Managers \ {m} :
           /\ emittedSignals'[n] = emittedSignals[n]
           /\ processedSignals'[n] = processedSignals[n],
         \A x : Processed(m, x)' => Processed(m, x) \/ x = ts,
         \A d \in emittedSignals'[m] :
           d.ts # ts /\ \E e \in emittedSignals[m] : e.ts = d.ts
  PROVE  SignalInv'
<1>1. /\ Ready(m) /\ UNCHANGED <<outbox, sent>>
      /\ \A x : In(inbox[m], x) <=> In(inbox'[m], x) \/ x = ts
      /\ \A n \in Managers \ {m} : inbox'[n] = inbox[n]
  BY ArriveEffect DEF dbVars
<1>2. \A n \in Managers : (Ready(n)' <=> Ready(n)) /\ (Unsent(n)' <=> Unsent(n))
  BY <1>1 DEF Ready, Unsent
<1>3. \A n \in Managers \ {m} :
        \A x : Processed(n, x)' <=> Processed(n, x)
  BY DEF Processed
<1>4. OutboxInv'
  BY <1>1, <1>2 DEF SignalInv, OutboxInv
<1>5. SeenInv'
  <2>1. \A n \in Managers : \A x : In(inbox'[n], x) \/ Processed(n, x)'
                                 => In(inbox[n], x) \/ Processed(n, x)
    BY <1>1, <1>3
  <2> QED
    BY <1>1, <1>2, <2>1 DEF SignalInv, SeenInv
<1>6. OwnInv'
  <2>1. ASSUME NEW d \in emittedSignals'[m]
        PROVE  /\ d.ts \in DOMAIN sent /\ ~Processed(m, d.ts)'
               /\ \A n \in Managers : outbox[n].store # d.ts
               /\ \A t \in Paths(sent[d.ts]) \cap Listens[m] :
                    In(inbox'[m], d.ts)
    <3>1. PICK e \in emittedSignals[m] : e.ts = d.ts
      OBVIOUS
    <3>2. /\ e.ts \in DOMAIN sent /\ ~Processed(m, e.ts)
          /\ \A n \in Managers : outbox[n].store # e.ts
          /\ \A t \in Paths(sent[e.ts]) \cap Listens[m] : In(inbox[m], e.ts)
      BY DEF SignalInv, OwnInv
    <3> QED
      BY <1>1, <3>1, <3>2
  <2> QED
    BY <1>1, <1>2, <1>3, <2>1 DEF SignalInv, OwnInv
<1> QED
  BY <1>4, <1>5, <1>6 DEF SignalInv

\* The steps of a manager on a copy, and what they do to its list.
LEMMA HandleEffect ==
  ASSUME TypeOK, SignalInv, NEW m \in Managers, NEW ts \in Stores,
         Duplicate(m, ts) \/ SkipOwn(m, ts) \/ Process(m, ts)
  PROVE  /\ Arrives(m, ts) /\ ts \in DOMAIN sent
         /\ \A n \in Managers \ {m} :
              /\ emittedSignals'[n] = emittedSignals[n]
              /\ processedSignals'[n] = processedSignals[n]
         /\ Processed(m, ts)'
         /\ \A x : Processed(m, x)' => Processed(m, x) \/ x = ts
         /\ \A d \in emittedSignals'[m] :
              d.ts # ts /\ \E e \in emittedSignals[m] : e.ts = d.ts
<1>1. Arrives(m, ts)
  BY DEF Duplicate, SkipOwn, Process
<1>2. ts \in DOMAIN sent
  BY <1>1, ArriveEffect DEF SignalInv, SeenInv
<1>3. processedSignals \in [Managers -> Seq(Stores)]
  BY DEF TypeOK
<1>4. CASE Duplicate(m, ts)
  <2>1. \A e \in emittedSignals[m] : e.ts # ts
    BY <1>4 DEF Duplicate, SignalInv, OwnInv
  <2> QED
    BY <1>1, <1>2, <1>4, <2>1 DEF Duplicate, signalVars, Processed
<1>5. CASE SkipOwn(m, ts)
  <2>1. /\ Processed(m, ts)'
        /\ \A x : Processed(m, x)' => Processed(m, x) \/ x = ts
        /\ \A n \in Managers \ {m} :
             processedSignals'[n] = processedSignals[n]
    BY <1>3, <1>5, Remembered DEF SkipOwn
  <2>2. /\ \A n \in Managers \ {m} : emittedSignals'[n] = emittedSignals[n]
        /\ emittedSignals'[m] = {e \in emittedSignals[m] : e.ts # ts}
    BY <1>5, SkipEffect
  <2>3. \A d \in emittedSignals'[m] :
          d.ts # ts /\ \E e \in emittedSignals[m] : e.ts = d.ts
    BY <2>2
  <2> QED
    BY <1>1, <1>2, <2>1, <2>2, <2>3
<1>6. CASE Process(m, ts)
  <2>1. /\ Processed(m, ts)'
        /\ \A x : Processed(m, x)' => Processed(m, x) \/ x = ts
        /\ \A n \in Managers \ {m} :
             processedSignals'[n] = processedSignals[n]
    BY <1>3, <1>6, Remembered DEF Process
  <2>2. /\ \A n \in Managers \ {m} : emittedSignals'[n] = emittedSignals[n]
        /\ \A d \in emittedSignals'[m] :
             d.ts # ts /\ \E e \in emittedSignals[m] : e.ts = d.ts
    <3>1. MarkPending(m, ts)
      BY <1>6 DEF Process
    <3>2. /\ \A n \in Managers \ {m} :
               emittedSignals'[n] = emittedSignals[n]
          /\ \A d \in emittedSignals'[m] :
               /\ d.mustProcess = TRUE /\ d.ts # ts
               /\ \E e \in emittedSignals[m] : e.ts = d.ts
      BY <3>1, Marked
    <3> QED
      BY <3>2
  <2> QED
    BY <1>1, <1>2, <2>1, <2>2
<1> QED
  BY <1>4, <1>5, <1>6

LEMMA SignalStep == TypeOK /\ SignalInv /\ [Next]_vars => SignalInv'
<1> SUFFICES ASSUME TypeOK, SignalInv, [Next]_vars PROVE SignalInv'
  OBVIOUS
<1>1. ASSUME UNCHANGED SignalVars PROVE SignalInv'
  BY <1>1 DEF SignalVars, SignalInv, OutboxInv, SeenInv, OwnInv, busVars,
     signalVars, Ready, Unsent, Processed
<1>2. ASSUME NEW m \in Managers, NEW ts \in Stores,
             Duplicate(m, ts) \/ SkipOwn(m, ts) \/ Process(m, ts)
      PROVE  SignalInv'
  BY <1>2, HandleEffect, SignalHandle
<1> QED
  BY <1>1, <1>2, Kinds, SignalCommit, SignalEmit

LEMMA StepTypes == TypeOK /\ SignalInv /\ [Next]_vars => TypeOK'
<1> SUFFICES ASSUME TypeOK, SignalInv, [Next]_vars PROVE TypeOK'
  OBVIOUS
<1>1. ASSUME NEW m \in Managers, NEW path \in Types, Emit(m, path)
      PROVE  TypeOK'
  <2>1. \A e \in emittedSignals[m] : e.ts # outbox[m].store
    BY DEF SignalInv, OwnInv
  <2> QED
    BY <1>1, <2>1, EmitTypes DEF SignalInv
<1>2. ASSUME NEW m \in Managers, NEW ts \in Stores,
             Duplicate(m, ts) \/ SkipOwn(m, ts) \/ Process(m, ts)
      PROVE  TypeOK'
  <2>1. ts \in DOMAIN sent
    BY <1>2, HandleEffect
  <2> QED
    BY <1>2, <2>1, DuplicateTypes, SkipTypes, ProcessTypes
<1>3. ASSUME NEW m \in Managers, Client(m) PROVE TypeOK'
  BY <1>3, LoadTypes, ReleaseTypes, SelectTypes, CreateTypes, UpdateTypes,
     DeleteTypes DEF Client
<1>4. CASE UNCHANGED vars
  BY <1>4 DEF vars, TypeOK, dbVars, busVars, signalVars, objectVars,
     historyVars
<1> QED
  BY <1>1, <1>2, <1>3, <1>4 DEF Next, Work, Receive

SignalsAreRight == TypeOK /\ SignalInv

LEMMA SignalsStayRight ==
  /\ Init => SignalsAreRight
  /\ SignalsAreRight /\ [Next]_vars => SignalsAreRight'
BY InitTypes, SignalInit, StepTypes, SignalStep DEF SignalsAreRight

\* Every variable keeps its type; in particular a manager never has two
\* entries for one signal, and never keeps more timestamps than it should.
THEOREM TypeCorrect == Spec => []TypeOK
<1>1. SignalsAreRight => TypeOK
  BY DEF SignalsAreRight
<1> QED
  BY <1>1, SignalsStayRight, PTL DEF Spec

\* A manager has forgotten each signal of its own, of which it gets a copy,
\* when all have been handled, however processes overtake each other.
THEOREM OwnSignalsAreForgotten == Spec => []NothingLeftPending
<1>1. SignalsAreRight => NothingLeftPending
  <2> SUFFICES ASSUME SignalsAreRight, NEW m \in Managers, AtRest(m),
                      NEW e \in emittedSignals[m],
                      NEW t \in Paths(sent[e.ts]) \cap Listens[m]
               PROVE  FALSE
    BY DEF NothingLeftPending
  <2>1. In(inbox[m], e.ts)
    BY DEF SignalsAreRight, SignalInv, OwnInv
  <2>2. inbox[m] = <<>>
    BY DEF AtRest
  <2> QED
    BY <2>1, <2>2 DEF In
<1> QED
  BY <1>1, SignalsStayRight, PTL DEF Spec
-----------------------------------------------------------------------------
(* What the clients are told.                                              *)

Told(m, s) == /\ sent[s].created => "created" \in announced[m]
              /\ sent[s].deleted => "deleted" \in announced[m]

\* The signal of store s will be processed by m when a copy comes that was,
\* or will be, sent on path t.
Coming(m, s, t) ==
  /\ ~Processed(m, s)
  /\ \/ In(inbox[m], s)
     \/ \E n \in Managers : outbox[n].store = s /\ t \in outbox[n].paths

\* A creation or deletion has been told, or its signal is coming; one on the
\* list of the manager has been told.
ToldInv ==
  \A m \in Managers :
    /\ \A e \in emittedSignals[m] : Told(m, e.ts)
    /\ \A s \in DOMAIN sent :
         sent[s].created \/ sent[s].deleted =>
           Told(m, s) \/ Coming(m, s, Global)

\* Only what was committed is coming.
LEMMA ComingWasSent ==
  ASSUME TypeOK, SignalInv, NEW m \in Managers, NEW s, NEW t,
         Coming(m, s, t)
  PROVE  s \in DOMAIN sent /\ s \in Stores /\ s # 0
<1>1. CASE In(inbox[m], s)
  <2>1. s \in Stores
    BY <1>1, TypeFacts DEF In
  <2> QED
    BY <1>1, <2>1, IdleOutbox DEF SignalInv, SeenInv
<1>2. ASSUME NEW n \in Managers, outbox[n].store = s, t \in outbox[n].paths
      PROVE  s \in DOMAIN sent /\ s \in Stores /\ s # 0
  <2>1. ~Ready(n)
    BY <1>2, IdleOutbox
  <2>2. s \in DOMAIN sent
    BY <1>2, <2>1 DEF SignalInv, OutboxInv
  <2> QED
    BY <2>2, TypeFacts, IdleOutbox
<1> QED
  BY <1>1, <1>2 DEF Coming

\* What is coming stays so until it is handled.
LEMMA ComingIdle ==
  ASSUME UNCHANGED SignalVars, NEW m, NEW s, NEW t, Coming(m, s, t)
  PROVE  Coming(m, s, t)'
BY DEF SignalVars, busVars, signalVars, Coming, Processed

LEMMA ComingCommit ==
  ASSUME TypeOK, SignalInv, NEW n \in Managers, NEW change \in Changes,
         Commit(n, change), NEW m \in Managers, NEW s, NEW t, Coming(m, s, t)
  PROVE  Coming(m, s, t)'
<1>1. /\ Ready(n) /\ \A q \in Managers \ {n} : outbox'[q] = outbox[q]
      /\ UNCHANGED <<inbox, processedSignals>>
  BY CommitEffect DEF Ready, signalVars
<1>2. s # 0
  BY ComingWasSent
<1> QED
  BY <1>1, <1>2, IdleOutbox DEF Coming, Processed

LEMMA ComingEmit ==
  ASSUME TypeOK, SignalInv, NEW n \in Managers, NEW path \in Types,
         Emit(n, path), NEW m \in Managers, NEW s, NEW t \in Listens[m],
         Coming(m, s, t)
  PROVE  Coming(m, s, t)'
<1>1. /\ outbox[n].store \in Stores
      /\ \A q \in Managers \ {n} : outbox'[q] = outbox[q]
      /\ outbox[n].paths # {path} =>
           /\ outbox'[n].store = outbox[n].store
           /\ outbox'[n].paths = outbox[n].paths \ {path}
      /\ UNCHANGED processedSignals
  BY EmitEffect, TypeFacts DEF SignalInv
<1>2. \A q \in Managers :
        inbox'[q] = IF path \in Listens[q]
                    THEN Append(inbox[q], outbox[n].store) ELSE inbox[q]
  BY <1>1, DeliverEffect DEF Emit
<1>3. \A x : In(Append(inbox[m], outbox[n].store), x) <=>
               In(inbox[m], x) \/ x = outbox[n].store
  BY <1>1, Appended, TypeFacts
<1>4. In(inbox[m], s) => In(inbox'[m], s)
  BY <1>2, <1>3
<1>5. outbox[n].store = s /\ path = t => In(inbox'[m], s)
  BY <1>2, <1>3
<1>6. ~Processed(m, s)'
  BY <1>1 DEF Coming, Processed
<1>7. CASE In(inbox[m], s)
  BY <1>4, <1>6, <1>7 DEF Coming
<1>8. CASE ~In(inbox[m], s)
  <2>1. PICK q \in Managers : outbox[q].store = s /\ t \in outbox[q].paths
    BY <1>8 DEF Coming
  <2>2. CASE q # n \/ path # t
    <3>1. outbox'[q].store = s /\ t \in outbox'[q].paths
      BY <1>1, <2>1, <2>2
    <3> QED
      BY <1>6, <3>1 DEF Coming
  <2>3. CASE q = n /\ path = t
    BY <1>5, <1>6, <2>1, <2>3 DEF Coming
  <2> QED
    BY <2>2, <2>3
<1> QED
  BY <1>7, <1>8

LEMMA ComingHandle ==
  ASSUME TypeOK, SignalInv, NEW n \in Managers, NEW ts \in Stores,
         Duplicate(n, ts) \/ SkipOwn(n, ts) \/ Process(n, ts),
         NEW m \in Managers, NEW s, NEW t, Coming(m, s, t),
         n # m \/ ts # s
  PROVE  Coming(m, s, t)'
<1>1. Arrives(n, ts)
  BY HandleEffect
<1>2. /\ \A q \in Managers \ {n} :
           processedSignals'[q] = processedSignals[q]
      /\ \A x : Processed(n, x)' => Processed(n, x) \/ x = ts
  BY HandleEffect
<1>3. /\ UNCHANGED outbox
      /\ \A q \in Managers \ {n} : inbox'[q] = inbox[q]
      /\ \A x : In(inbox[n], x) <=> In(inbox'[n], x) \/ x = ts
  BY <1>1, ArriveEffect
<1>4. In(inbox[m], s) => In(inbox'[m], s)
  BY <1>3
<1>5. ~Processed(m, s)'
  BY <1>2 DEF Coming, Processed
<1> QED
  BY <1>3, <1>4, <1>5 DEF Coming

LEMMA ComingStays ==
  ASSUME TypeOK, SignalInv, [Next]_vars,
         NEW m \in Managers, NEW s, NEW t \in Listens[m], Coming(m, s, t)
  PROVE  \/ Coming(m, s, t)'
         \/ SkipOwn(m, s) \/ Process(m, s)
<1>1. ~Duplicate(m, s)
  BY DEF Coming, Duplicate
<1>2. ASSUME NEW n \in Managers, NEW ts \in Stores,
             Duplicate(n, ts) \/ SkipOwn(n, ts) \/ Process(n, ts)
      PROVE  Coming(m, s, t)' \/ SkipOwn(m, s) \/ Process(m, s)
  BY <1>1, <1>2, ComingHandle
<1> QED
  BY <1>2, ComingIdle, ComingCommit, ComingEmit, Kinds

\* A store just committed is coming to everyone.
LEMMA CommitComing ==
  ASSUME TypeOK, SignalInv, NEW n \in Managers, NEW change \in Changes,
         Commit(n, change), NEW s, s = Len(sent) + 1, NEW m \in Managers,
         NEW t \in Paths(change)
  PROVE  Coming(m, s, t)'
<1>1. /\ UNCHANGED processedSignals /\ s \in Stores
      /\ outbox'[n].store = s /\ outbox'[n].paths = Paths(change)
  BY CommitEffect DEF signalVars
<1>2. s \notin DOMAIN sent
  BY TypeFacts
<1>3. ~Processed(m, s)
  BY <1>1, <1>2 DEF SignalInv, SeenInv
<1> QED
  BY <1>1, <1>3 DEF Coming, Processed

\* Nothing that was committed is lost.
LEMMA SentGrows ==
  ASSUME TypeOK, [Next]_vars, NEW s \in DOMAIN sent
  PROVE  s \in DOMAIN sent' /\ sent'[s] = sent[s]
<1>1. ASSUME UNCHANGED sent PROVE s \in DOMAIN sent' /\ sent'[s] = sent[s]
  BY <1>1
<1>2. ASSUME NEW n \in Managers, NEW change \in Changes, Commit(n, change)
      PROVE  s \in DOMAIN sent' /\ sent'[s] = sent[s]
  BY <1>2, CommitEffect
<1>3. ASSUME NEW n \in Managers, NEW path \in Types, Emit(n, path)
      PROVE  UNCHANGED sent
  BY <1>3 DEF Emit, dbVars
<1>4. ASSUME NEW n \in Managers, NEW ts \in Stores,
             Duplicate(n, ts) \/ SkipOwn(n, ts) \/ Process(n, ts)
      PROVE  UNCHANGED sent
  BY <1>4 DEF Duplicate, SkipOwn, Process, Arrives, dbVars
<1> QED
  BY <1>1, <1>2, <1>3, <1>4, Kinds DEF SignalVars

\* What has been told is not taken back.
LEMMA ToldStays ==
  ASSUME TypeOK, SignalInv, [Next]_vars,
         NEW m \in Managers, NEW s \in DOMAIN sent, Told(m, s)
  PROVE  Told(m, s)'
<1>1. s \in DOMAIN sent' /\ sent'[s] = sent[s]
  BY SentGrows
<1>2. announced[m] \subseteq announced'[m]
  <2>1. ASSUME NEW n \in Managers, NEW path \in Types, Emit(n, path)
        PROVE  announced[m] \subseteq announced'[m]
    <3>1. outbox[n].store \in DOMAIN sent
      BY <2>1, EmitEffect DEF SignalInv
    <3>2. \/ Announce(n, sent[outbox[n].store])
          \/ UNCHANGED announced
      BY <2>1, EmitEffect DEF SignalInv
    <3> QED
      BY <3>1, <3>2, AnnounceEffect, TypeFacts
  <2>2. ASSUME NEW n \in Managers, NEW ts \in Stores,
               Duplicate(n, ts) \/ SkipOwn(n, ts) \/ Process(n, ts)
        PROVE  announced[m] \subseteq announced'[m]
    <3>1. ts \in DOMAIN sent
      BY <2>2, HandleEffect
    <3>2. Announce(n, sent[ts]) \/ UNCHANGED announced
      BY <2>2 DEF Duplicate, SkipOwn, Process, historyVars
    <3> QED
      BY <3>1, <3>2, AnnounceEffect, TypeFacts
  <2>3. ASSUME NEW n \in Managers, NEW change \in Changes, Commit(n, change)
        PROVE  UNCHANGED announced
    BY <2>3, CommitEffect DEF historyVars
  <2> QED
    BY <2>1, <2>2, <2>3, Kinds DEF SignalVars, historyVars
<1> QED
  BY <1>1, <1>2 DEF Told

\* A signal that is processed or sent to the end is told.
LEMMA ProcessTells ==
  ASSUME TypeOK, NEW m \in Managers, NEW s \in DOMAIN sent, Process(m, s)
  PROVE  Told(m, s)'
<1>1. Announce(m, sent[s]) /\ sent' = sent /\ sent[s] \in Changes
  BY TypeFacts DEF Process, Arrives, dbVars
<1> QED
  BY <1>1, AnnounceEffect DEF Told

LEMMA EmitTells ==
  ASSUME TypeOK, SignalInv, NEW m \in Managers, NEW path \in Types,
         Emit(m, path), NEW e \in emittedSignals'[m],
         e \notin emittedSignals[m]
  PROVE  e.ts \in DOMAIN sent /\ Told(m, e.ts)'
<1>1. OutboxInv
  BY DEF SignalInv
<1>2. CASE outbox[m].paths = {path}
  <2>1. emittedSignals' = [emittedSignals EXCEPT ![m] =
                  @ \cup {[ts |-> outbox[m].store, mustProcess |-> FALSE]}]
    BY <1>1, <1>2, EmitEffect
  <2>2. e.ts = outbox[m].store
    BY <2>1 DEF TypeOK
  <2>3. /\ Announce(m, sent[outbox[m].store]) /\ sent' = sent
        /\ outbox[m].store \in DOMAIN sent
    BY <1>1, <1>2, EmitEffect DEF dbVars
  <2> QED
    BY <2>2, <2>3, AnnounceEffect, TypeFacts DEF Told
<1>3. CASE outbox[m].paths # {path}
  BY <1>1, <1>3, EmitEffect
<1> QED
  BY <1>2, <1>3

LEMMA ToldInit == Init => ToldInv
<1> SUFFICES ASSUME Init PROVE ToldInv
  OBVIOUS
<1>1. sent = <<>> /\ \A m \in Managers : emittedSignals[m] = {}
  BY DEF Init
<1>2. DOMAIN sent = {}
  BY <1>1
<1> QED
  BY <1>1, <1>2 DEF ToldInv

LEMMA ToldStep == TypeOK /\ SignalInv /\ ToldInv /\ [Next]_vars => ToldInv'
<1> SUFFICES ASSUME TypeOK, SignalInv, ToldInv, [Next]_vars,
                    NEW m \in Managers
             PROVE  /\ \A e \in emittedSignals'[m] : Told(m, e.ts)'
                    /\ \A s \in DOMAIN sent' :
                         sent'[s].created \/ sent'[s].deleted =>
                           Told(m, s)' \/ Coming(m, s, Global)'
  BY DEF ToldInv
<1>1. Global \in Listens[m]
  BY ConstantsAssumption
<1>2. ASSUME NEW s \in DOMAIN sent, sent[s].created \/ sent[s].deleted
      PROVE  Told(m, s)' \/ Coming(m, s, Global)'
  <2>1. CASE Told(m, s)
    BY <2>1, ToldStays
  <2>2. CASE Coming(m, s, Global)
    <3>1. CASE SkipOwn(m, s)
      <4>1. Told(m, s)
        <5> DEFINE e == [ts |-> s, mustProcess |-> FALSE]
        <5>1. e \in emittedSignals[m]
          BY <3>1, SkipEffect
        <5>2. Told(m, e.ts)
          BY <5>1 DEF ToldInv
        <5> QED
          BY <5>2
      <4> QED
        BY <4>1, ToldStays
    <3> QED
      BY <1>1, <2>2, <3>1, ComingStays, ProcessTells
  <2> QED
    BY <1>2, <2>1, <2>2 DEF ToldInv
<1>3. \A e \in emittedSignals[m] : Told(m, e.ts)'
  BY ToldStays DEF ToldInv, SignalInv, OwnInv
<1>4. ASSUME UNCHANGED <<sent, emittedSignals>>
      PROVE  /\ \A e \in emittedSignals'[m] : Told(m, e.ts)'
             /\ \A s \in DOMAIN sent' :
                  sent'[s].created \/ sent'[s].deleted =>
                    Told(m, s)' \/ Coming(m, s, Global)'
  BY <1>2, <1>3, <1>4
<1>5. ASSUME NEW n \in Managers, NEW change \in Changes, Commit(n, change)
      PROVE  /\ \A e \in emittedSignals'[m] : Told(m, e.ts)'
             /\ \A s \in DOMAIN sent' :
                  sent'[s].created \/ sent'[s].deleted =>
                    Told(m, s)' \/ Coming(m, s, Global)'
  <2>0. PICK s : s = Len(sent) + 1
    OBVIOUS
  <2>1. /\ UNCHANGED <<emittedSignals, processedSignals>>
        /\ DOMAIN sent' = DOMAIN sent \cup {s}
        /\ \A x \in DOMAIN sent : sent'[x] = sent[x]
        /\ sent'[s] = change
    BY <1>5, <2>0, CommitEffect DEF signalVars
  <2>2. ASSUME sent'[s].created \/ sent'[s].deleted
        PROVE  Coming(m, s, Global)'
    <3>1. Global \in Paths(change)
      BY <2>1, <2>2 DEF Paths
    <3> QED
      BY <1>5, <2>0, <3>1, CommitComing
  <2>3. ASSUME NEW x \in DOMAIN sent',
               sent'[x].created \/ sent'[x].deleted
        PROVE  Told(m, x)' \/ Coming(m, x, Global)'
    <3>1. CASE x = s
      BY <2>2, <2>3, <3>1
    <3>2. CASE x # s
      BY <1>2, <2>1, <2>3, <3>2
    <3> QED
      BY <3>1, <3>2
  <2> QED
    BY <1>3, <2>1, <2>3
<1>6. ASSUME NEW n \in Managers, NEW path \in Types, Emit(n, path)
      PROVE  /\ \A e \in emittedSignals'[m] : Told(m, e.ts)'
             /\ \A s \in DOMAIN sent' :
                  sent'[s].created \/ sent'[s].deleted =>
                    Told(m, s)' \/ Coming(m, s, Global)'
  <2>1. sent' = sent
    BY <1>6 DEF Emit, dbVars
  <2>2. CASE n = m
    BY <1>2, <1>3, <1>6, <2>1, <2>2, EmitTells
  <2>3. CASE n # m
    <3>1. emittedSignals'[m] = emittedSignals[m]
      <4>1. \/ emittedSignals' =
                 [emittedSignals EXCEPT ![n] =
                    @ \cup {[ts |-> outbox[n].store, mustProcess |-> FALSE]}]
            \/ UNCHANGED emittedSignals
        BY <1>6, EmitEffect DEF SignalInv
      <4> QED
        BY <2>3, <4>1 DEF TypeOK
    <3> QED
      BY <1>2, <1>3, <2>1, <3>1
  <2> QED
    BY <2>2, <2>3
<1>7. ASSUME NEW n \in Managers, NEW ts \in Stores,
             Duplicate(n, ts) \/ SkipOwn(n, ts) \/ Process(n, ts)
      PROVE  /\ \A e \in emittedSignals'[m] : Told(m, e.ts)'
             /\ \A s \in DOMAIN sent' :
                  sent'[s].created \/ sent'[s].deleted =>
                    Told(m, s)' \/ Coming(m, s, Global)'
  <2>1. sent' = sent
    BY <1>7 DEF Duplicate, SkipOwn, Process, Arrives, dbVars
  <2>2. \A e \in emittedSignals'[m] : \E d \in emittedSignals[m] : d.ts = e.ts
    BY <1>7, HandleEffect
  <2> QED
    BY <1>2, <1>3, <2>1, <2>2
<1> QED
  BY <1>4, <1>5, <1>6, <1>7, Kinds DEF SignalVars, signalVars

\* Every manager has told its client of a creation and of a deletion once
\* the signals have been handled, whichever process did it, whether or not
\* the account is in the hash, and in whatever order the copies arrive.
THEOREM ClientsAreTold == Spec => []EveryoneIsTold
<1> DEFINE Inv == SignalsAreRight /\ ToldInv
<1>1. Init => Inv
  BY SignalsStayRight, ToldInit
<1>2. Inv /\ [Next]_vars => Inv'
  <2>1. SignalsAreRight /\ ToldInv /\ [Next]_vars => ToldInv'
    BY ToldStep DEF SignalsAreRight
  <2> QED
    BY <2>1, SignalsStayRight
<1>3. Inv => EveryoneIsTold
  <2> SUFFICES ASSUME SignalsAreRight, ToldInv, NEW m \in Managers,
                      NEW s \in DOMAIN sent, AtRest(m),
                      sent[s].created \/ sent[s].deleted
               PROVE  Told(m, s)
    BY DEF EveryoneIsTold, Told
  <2>1. inbox[m] = <<>> /\ \A n \in Managers : outbox[n].paths = {}
    BY IdleOutbox DEF AtRest
  <2>2. ~Coming(m, s, Global)
    BY <2>1 DEF Coming, In
  <2> QED
    BY <2>2 DEF ToldInv
<1> HIDE DEF Inv
<1> QED
  BY <1>1, <1>2, <1>3, PTL DEF Spec
-----------------------------------------------------------------------------
(***************************************************************************)
(* Each signal is processed once, if the copies of a signal follow each    *)
(* other: one that is to come again is still the latest processed.         *)
(***************************************************************************)

\* Equal timestamps are next to each other.
Blocks(q) == \A i, j, k \in 1..Len(q) :
               i <= j /\ j <= k /\ q[i] = q[k] => q[j] = q[i]

Newest(q) == q[Len(q)]

LEMMA BlockAppended ==
  ASSUME NEW q \in Seq(Stores), NEW y \in Stores
  PROVE  /\ Append(q, y) # <<>> /\ Newest(Append(q, y)) = y
         /\ q # <<>> => Head(Append(q, y)) = Head(q)
         /\ q = <<>> => Head(Append(q, y)) = y
         /\ Blocks(q) /\ (In(q, y) => Newest(q) = y) => Blocks(Append(q, y))
<1>1. /\ Append(q, y) \in Seq(Stores) /\ Len(Append(q, y)) = Len(q) + 1
      /\ Len(q) \in Nat
      /\ \A i \in 1..Len(q) : Append(q, y)[i] = q[i]
      /\ Append(q, y)[Len(q) + 1] = y
  OBVIOUS
<1>2. /\ Append(q, y) # <<>> /\ Newest(Append(q, y)) = y
      /\ q # <<>> => Head(Append(q, y)) = Head(q)
      /\ q = <<>> => Head(Append(q, y)) = y
  BY <1>1 DEF Newest
<1>3. ASSUME Blocks(q), In(q, y) => Newest(q) = y
      PROVE  Blocks(Append(q, y))
  <2> DEFINE a == Append(q, y)
  <2> SUFFICES ASSUME NEW i \in 1..Len(q) + 1, NEW j \in 1..Len(q) + 1,
                      NEW k \in 1..Len(q) + 1,
                      i <= j, j <= k, a[i] = a[k]
               PROVE  a[j] = a[i]
    BY <1>1 DEF Blocks
  <2>1. CASE k \in 1..Len(q)
    <3>1. i \in 1..Len(q) /\ j \in 1..Len(q)
      BY <2>1, <1>1
    <3>2. q[i] = q[k]
      BY <2>1, <3>1, <1>1
    <3>3. q[j] = q[i]
      BY <2>1, <3>1, <3>2, <1>3 DEF Blocks
    <3> QED
      BY <3>1, <3>3, <1>1
  <2>2. CASE k = Len(q) + 1
    <3>1. a[i] = y
      BY <2>2, <1>1
    <3>2. CASE i = Len(q) + 1 \/ j = Len(q) + 1
      BY <3>1, <3>2, <2>2, <1>1
    <3>3. CASE i \in 1..Len(q) /\ j \in 1..Len(q)
      <4>1. q[i] = y /\ In(q, y)
        BY <3>1, <3>3, <1>1 DEF In
      <4>2. q[Len(q)] = y /\ Len(q) \in 1..Len(q) /\ j <= Len(q)
        BY <4>1, <3>3, <1>1, <1>3 DEF Newest
      <4>3. q[j] = q[i]
        BY <3>3, <4>1, <4>2, <1>3 DEF Blocks
      <4> QED
        BY <3>3, <4>3, <1>1
    <3> QED
      BY <3>2, <3>3, <1>1
  <2> QED
    BY <2>1, <2>2, <1>1
<1> QED
  BY <1>2, <1>3

LEMMA BlockHandled ==
  ASSUME NEW q \in Seq(Stores), q # <<>>
  PROVE  /\ Tail(q) # <<>> => Newest(Tail(q)) = Newest(q)
         /\ Blocks(q) => /\ Blocks(Tail(q))
                         /\ In(Tail(q), Head(q)) => Head(Tail(q)) = Head(q)
<1>1. /\ Tail(q) \in Seq(Stores) /\ Len(q) = Len(Tail(q)) + 1
      /\ Len(Tail(q)) \in Nat /\ Head(q) = q[1]
      /\ \A i \in 1..Len(Tail(q)) : Tail(q)[i] = q[i + 1]
  OBVIOUS
<1>2. Tail(q) # <<>> => Newest(Tail(q)) = Newest(q)
  BY <1>1 DEF Newest
<1>3. ASSUME Blocks(q) PROVE Blocks(Tail(q))
  <2> SUFFICES ASSUME NEW i \in 1..Len(Tail(q)), NEW j \in 1..Len(Tail(q)),
                      NEW k \in 1..Len(Tail(q)),
                      i <= j, j <= k, Tail(q)[i] = Tail(q)[k]
               PROVE  Tail(q)[j] = Tail(q)[i]
    BY DEF Blocks
  <2>1. /\ i + 1 \in 1..Len(q) /\ j + 1 \in 1..Len(q) /\ k + 1 \in 1..Len(q)
        /\ i + 1 <= j + 1 /\ j + 1 <= k + 1 /\ q[i + 1] = q[k + 1]
    BY <1>1
  <2>2. q[j + 1] = q[i + 1]
    BY <2>1, <1>3 DEF Blocks
  <2> QED
    BY <2>2, <1>1
<1>4. ASSUME Blocks(q), In(Tail(q), Head(q))
      PROVE  Head(Tail(q)) = Head(q)
  <2>1. PICK i \in 1..Len(Tail(q)) : Tail(q)[i] = Head(q)
    BY <1>4 DEF In
  <2>2. /\ 1 \in 1..Len(q) /\ 2 \in 1..Len(q) /\ i + 1 \in 1..Len(q)
        /\ 1 <= 2 /\ 2 <= i + 1 /\ q[1] = q[i + 1]
    BY <2>1, <1>1
  <2>3. q[2] = q[1]
    BY <2>2, <1>4 DEF Blocks
  <2>4. Head(Tail(q)) = Tail(q)[1] /\ 1 \in 1..Len(Tail(q))
    BY <2>1, <1>1
  <2> QED
    BY <2>3, <2>4, <1>1
<1> QED
  BY <1>2, <1>3, <1>4

Seen(m, s) == applied[m][s] > 0 \/ Processed(m, s)

\* No copy of s will come to m any more.
Gone(m, s) == /\ ~In(inbox[m], s)
              /\ \A n \in Managers : outbox[n].store # s

\* The signal of s was the last that m handled, and its next copy, if there
\* is one, is the next that m handles.
Latest(m, s) == /\ processedSignals[m] # <<>>
                /\ s = Head(processedSignals[m])
                /\ In(inbox[m], s) => s = Head(inbox[m])

\* One manager at a time is between two copies of a signal, and its signal is
\* the newest in the inboxes; what a manager has handled is gone or latest.
BlockInv ==
  /\ \A n, q \in Managers : HalfSent(n) /\ HalfSent(q) => n = q
  /\ \A m \in Managers :
       /\ Blocks(inbox[m])
       /\ \A n \in Managers :
            HalfSent(n) /\ inbox[m] # <<>>
              /\ (In(inbox[m], outbox[n].store) \/ Seen(m, outbox[n].store))
            => Newest(inbox[m]) = outbox[n].store
       /\ \A s \in Stores :
            /\ applied[m][s] <= 1
            /\ Seen(m, s) => s \in DOMAIN sent /\ (Gone(m, s) \/ Latest(m, s))

LEMMA LatestProcessed ==
  ASSUME TypeOK, NEW m \in Managers, NEW s, Latest(m, s)
  PROVE  Processed(m, s)
<1>1. processedSignals[m] \in Seq(Stores)
  BY DEF TypeOK
<1>2. 1 \in DOMAIN processedSignals[m] /\ processedSignals[m][1] = s
  BY <1>1 DEF Latest
<1> QED
  BY <1>2 DEF Processed

\* A store of which nothing was sent has not been seen anywhere.
LEMMA UnsentUnseen ==
  ASSUME TypeOK, SignalInv, BlockInv, NEW m \in Managers,
         NEW n \in Managers, Unsent(n)
  PROVE  ~In(inbox[m], outbox[n].store) /\ ~Seen(m, outbox[n].store)
<1> DEFINE s == outbox[n].store
<1>1. s \in Stores /\ ~In(inbox[m], s) /\ ~Processed(m, s)
  BY TypeFacts DEF Unsent, SignalInv, OutboxInv, SeenInv
<1>2. ~Gone(m, s)
  BY DEF Gone
<1>3. ~Latest(m, s)
  BY <1>1, LatestProcessed
<1> QED
  BY <1>1, <1>2, <1>3 DEF BlockInv, Seen

LEMMA BlockInit == Init => BlockInv
<1> SUFFICES ASSUME Init PROVE BlockInv
  OBVIOUS
<1>1. /\ \A m \in Managers : /\ Ready(m) /\ Blocks(inbox[m])
                             /\ \A s \in Stores : applied[m][s] = 0
      /\ \A m \in Managers : \A s : ~In(inbox[m], s) /\ ~Processed(m, s)
  BY DEF Init, Ready, In, Processed, Blocks
<1> QED
  BY <1>1 DEF BlockInv, HalfSent, Seen

LEMMA BlockCommit ==
  ASSUME TypeOK, SignalInv, BlockInv, NEW m \in Managers,
         NEW change \in Changes, Commit(m, change)
  PROVE  BlockInv'
<1>1. PICK s : s = Len(sent) + 1
  OBVIOUS
<1>2. /\ Ready(m) /\ s \in Stores /\ s \notin DOMAIN sent
      /\ DOMAIN sent' = DOMAIN sent \cup {s} /\ sent'[s] = change
      /\ \A x \in DOMAIN sent : sent'[x] = sent[x]
      /\ outbox'[m].store = s /\ outbox'[m].paths = Paths(change)
      /\ \A n \in Managers \ {m} : outbox'[n] = outbox[n]
      /\ UNCHANGED <<inbox, processedSignals, applied>>
  <2>1. s \notin DOMAIN sent
    BY <1>1, TypeFacts
  <2> QED
    BY <1>1, <2>1, CommitEffect DEF Ready, signalVars, historyVars
<1>3. \A n \in Managers : HalfSent(n)' => n # m /\ HalfSent(n)
  <2>1. Unsent(m)' \/ Ready(m)'
    BY <1>2 DEF Unsent
  <2>2. ASSUME NEW n \in Managers, n # m PROVE HalfSent(n)' => HalfSent(n)
    BY <1>2, <2>2 DEF HalfSent, Unsent, Ready, SignalInv, OutboxInv
  <2> QED
    BY <2>1, <2>2 DEF HalfSent
<1>4. \A q \in Managers : \A x : Seen(q, x)' <=> Seen(q, x)
  BY <1>2 DEF Seen, Processed
<1>5. \A q \in Managers : \A x :
        /\ Gone(q, x) /\ x # s => Gone(q, x)'
        /\ Latest(q, x) => Latest(q, x)'
  BY <1>2 DEF Gone, Latest
<1>6. \A q \in Managers, x \in Stores : Seen(q, x) =>
        x \in DOMAIN sent' /\ x # s /\ (Gone(q, x) \/ Latest(q, x))
  BY <1>2 DEF BlockInv
<1> QED
  BY <1>2, <1>3, <1>4, <1>5, <1>6 DEF BlockInv

LEMMA BlockEmit ==
  ASSUME TypeOK, SignalInv, BlockInv, "split" \notin Env,
         NEW m \in Managers, NEW path \in Types, Emit(m, path)
  PROVE  BlockInv'
<1>1. PICK s : s = outbox[m].store
  OBVIOUS
<1>2. /\ ~Ready(m) /\ s \in DOMAIN sent /\ s \in Stores
      /\ path \in outbox[m].paths /\ outbox[m].paths \subseteq Paths(sent[s])
      /\ \A n \in Managers \ {m} : outbox'[n] = outbox[n]
      /\ outbox'[m] = Idle \/ outbox'[m].store = s
      /\ UNCHANGED <<sent, processedSignals, applied>>
  <2>1. OutboxInv
    BY DEF SignalInv
  <2> QED
    BY <1>1, <2>1, EmitEffect, TypeFacts DEF OutboxInv, dbVars
<1>3. \A n \in Managers : HalfSent(n) => n = m
  BY DEF Emit, Allowed
<1>4. \A n \in Managers : HalfSent(n)' => n = m /\ outbox'[n].store = s
  <2>1. ASSUME NEW n \in Managers, n # m PROVE ~HalfSent(n)'
    BY <1>2, <1>3, <2>1 DEF HalfSent, Unsent, Ready, SignalInv, OutboxInv
  <2>2. HalfSent(m)' => outbox'[m].store = s
    BY <1>2 DEF HalfSent, Ready
  <2> QED
    BY <2>1, <2>2
<1>5. \A q \in Managers :
        /\ inbox[q] \in Seq(Stores)
        /\ inbox'[q] = IF path \in Listens[q] THEN Append(inbox[q], s)
                       ELSE inbox[q]
  BY <1>1, <1>2, DeliverEffect, TypeFacts DEF Emit
<1>6. \A q \in Managers : \A x : Seen(q, x)' <=> Seen(q, x)
  BY <1>2 DEF Seen, Processed
\* Where a copy of s has been seen, it is the newest.
<1>7. ASSUME NEW q \in Managers, In(inbox[q], s) \/ Seen(q, s)
      PROVE  inbox[q] # <<>> => Newest(inbox[q]) = s
  <2>1. ~Unsent(m)
    BY <1>1, <1>7, UnsentUnseen
  <2> QED
    BY <1>1, <1>2, <1>7, <2>1 DEF HalfSent, BlockInv
<1>8. ASSUME NEW q \in Managers PROVE Blocks(inbox'[q])
  <2>1. In(inbox[q], s) => Newest(inbox[q]) = s
    <3>1. In(inbox[q], s) => inbox[q] # <<>>
      BY DEF In
    <3> QED
      BY <1>7, <3>1
  <2>2. Blocks(inbox[q])
    BY DEF BlockInv
  <2>3. Blocks(Append(inbox[q], s))
    BY <1>2, <1>5, <2>1, <2>2, BlockAppended
  <2> QED
    BY <1>5, <2>2, <2>3
<1>9. ASSUME NEW q \in Managers, In(inbox'[q], s) \/ Seen(q, s),
             inbox'[q] # <<>>
      PROVE  Newest(inbox'[q]) = s
  <2>1. CASE path \in Listens[q]
    BY <1>2, <1>5, <2>1, BlockAppended
  <2>2. CASE path \notin Listens[q]
    BY <1>5, <1>7, <1>9, <2>2
  <2> QED
    BY <2>1, <2>2
<1>10. ASSUME NEW q \in Managers, NEW x \in Stores, Seen(q, x)
       PROVE  Gone(q, x)' \/ Latest(q, x)'
  <2>1. \A y : In(Append(inbox[q], s), y) <=> In(inbox[q], y) \/ y = s
    BY <1>2, <1>5, Appended
  <2>2. CASE Gone(q, x)
    <3>1. x # s /\ ~In(inbox[q], x)
      BY <1>1, <2>2 DEF Gone
    <3>2. \A n \in Managers : outbox'[n].store # x
      BY <1>1, <1>2, <2>2, <3>1, IdleOutbox DEF Gone
    <3> QED
      BY <1>5, <2>1, <3>1, <3>2 DEF Gone
  <2>3. CASE Latest(q, x)
    <3>1. ASSUME In(inbox'[q], x) PROVE x = Head(inbox'[q])
      <4>1. CASE In(inbox[q], x)
        <5>1. inbox[q] # <<>> /\ x = Head(inbox[q])
          BY <2>3, <4>1 DEF Latest, In
        <5> QED
          BY <1>2, <1>5, <5>1, BlockAppended
      <4>2. CASE ~In(inbox[q], x)
        <5>1. x = s /\ path \in Listens[q]
          BY <1>5, <2>1, <3>1, <4>2
        <5>2. inbox[q] = <<>>
          <6> SUFFICES ASSUME inbox[q] # <<>> PROVE FALSE
            OBVIOUS
          <6>1. Newest(inbox[q]) = s
            BY <1>7, <1>10, <5>1
          <6>2. Len(inbox[q]) \in 1..Len(inbox[q])
            BY <1>5
          <6> QED
            BY <4>2, <5>1, <6>1, <6>2 DEF In, Newest
        <5>3. Head(Append(inbox[q], s)) = s
          <6> DEFINE b == inbox[q]
          <6>1. b \in Seq(Stores) /\ b = <<>>
            BY <1>5, <5>2
          <6> HIDE DEF b
          <6>2. Head(Append(b, s)) = s
            BY <1>2, <6>1, BlockAppended
          <6> QED
            BY <6>2 DEF b
        <5> QED
          BY <1>5, <5>1, <5>3
      <4> QED
        BY <4>1, <4>2
    <3> QED
      BY <1>2, <2>3, <3>1 DEF Latest
  <2> QED
    BY <1>10, <2>2, <2>3 DEF BlockInv
<1>11. \A q \in Managers, x \in Stores :
         /\ applied[q][x] <= 1
         /\ Seen(q, x) => x \in DOMAIN sent
  BY DEF BlockInv
<1> QED
  BY <1>2, <1>4, <1>6, <1>8, <1>9, <1>10, <1>11 DEF BlockInv

\* Handling a copy keeps the order: whichever way it is handled, its signal
\* becomes, or was, the latest.
LEMMA BlockHandle ==
  ASSUME TypeOK, SignalInv, BlockInv, NEW m \in Managers, NEW ts \in Stores,
         Duplicate(m, ts) \/ SkipOwn(m, ts) \/ Process(m, ts)
  PROVE  BlockInv'
<1>1. /\ ts \in DOMAIN sent /\ Processed(m, ts)'
      /\ \A n \in Managers \ {m} : processedSignals'[n] = processedSignals[n]
      /\ \A x : Processed(m, x)' => Processed(m, x) \/ x = ts
  BY HandleEffect
<1>2. Arrives(m, ts)
  BY HandleEffect
<1>3. /\ \A x : In(inbox[m], x) <=> In(inbox'[m], x) \/ x = ts
      /\ \A n \in Managers \ {m} : inbox'[n] = inbox[n]
      /\ UNCHANGED <<outbox, sent>>
  <2>1. /\ \A x : In(inbox[m], x) <=> In(inbox'[m], x) \/ x = ts
        /\ \A n \in Managers \ {m} : inbox'[n] = inbox[n]
    BY <1>2, ArriveEffect
  <2>2. UNCHANGED <<outbox, sent>>
    BY <1>2 DEF Arrives, dbVars
  <2> QED
    BY <2>1, <2>2
<1>4. /\ inbox[m] \in Seq(Stores) /\ inbox[m] # <<>> /\ ts = Head(inbox[m])
      /\ inbox'[m] = Tail(inbox[m])
  BY <1>2 DEF Arrives, TypeOK
<1>5. \A n \in Managers : HalfSent(n)' <=> HalfSent(n)
  BY <1>3 DEF HalfSent, Unsent, Ready
<1>6. \/ Latest(m, ts) /\ UNCHANGED <<processedSignals, applied>>
      \/ /\ processedSignals'[m] # <<>> /\ Head(processedSignals'[m]) = ts
         /\ ~Processed(m, ts)
  <2>1. processedSignals \in [Managers -> Seq(Stores)]
    BY DEF TypeOK
  <2>2. CASE Duplicate(m, ts)
    <3>1. Processed(m, ts) /\ UNCHANGED <<processedSignals, applied>>
      BY <2>2 DEF Duplicate, signalVars, historyVars
    <3>2. ~Gone(m, ts)
      BY <1>3 DEF Gone
    <3> QED
      BY <3>1, <3>2 DEF BlockInv, Seen
  <2>3. CASE SkipOwn(m, ts) \/ Process(m, ts)
    <3>1. Remember(m, ts) /\ ~Processed(m, ts)
      BY <2>3 DEF SkipOwn, Process
    <3> QED
      BY <2>1, <3>1, Remembered
  <2> QED
    BY <2>2, <2>3
\* The first time, it has not been processed.
<1>7. ~Processed(m, ts) => applied[m][ts] = 0
  <2> SUFFICES ASSUME ~Processed(m, ts) PROVE applied[m][ts] = 0
    OBVIOUS
  <2>1. ~Gone(m, ts) /\ ~Latest(m, ts)
    BY <1>3, LatestProcessed DEF Gone
  <2>2. ~(applied[m][ts] > 0)
    BY <2>1 DEF BlockInv, Seen
  <2>3. applied[m][ts] \in Nat
    BY DEF TypeOK
  <2> QED
    BY <2>2, <2>3
<1>8. \A n \in Managers, x \in Stores :
        \/ applied'[n][x] = applied[n][x]
        \/ n = m /\ x = ts /\ applied[n][x] = 0 /\ applied'[n][x] = 1
  <2>1. CASE Process(m, ts)
    <3> DEFINE row == [applied[m] EXCEPT ![ts] = applied[m][ts] + 1]
    <3>1. applied' = [applied EXCEPT ![m] = row]
      BY <2>1 DEF Process
    <3>2. \A x \in Stores : row[x] = IF x = ts THEN applied[m][ts] + 1
                                     ELSE applied[m][x]
      BY DEF TypeOK
    <3>3. applied[m][ts] = 0
      BY <1>7, <2>1 DEF Process
    <3> HIDE DEF row
    <3>4. /\ applied'[m] = row
          /\ \A n \in Managers \ {m} : applied'[n] = applied[n]
      BY <3>1 DEF TypeOK
    <3> QED
      BY <3>2, <3>3, <3>4
  <2>2. CASE Duplicate(m, ts) \/ SkipOwn(m, ts)
    BY <2>2 DEF Duplicate, SkipOwn, historyVars
  <2> QED
    BY <2>1, <2>2
<1>9. \A n \in Managers, x \in Stores :
        Seen(n, x)' => Seen(n, x) \/ (n = m /\ x = ts)
  BY <1>1, <1>8 DEF Seen, Processed
<1>10. /\ Blocks(inbox'[m])
       /\ inbox'[m] # <<>> => Newest(inbox'[m]) = Newest(inbox[m])
       /\ In(inbox'[m], ts) => Head(inbox'[m]) = ts
  BY <1>4, BlockHandled DEF BlockInv
<1>11. ASSUME NEW n \in Managers, HalfSent(n), inbox'[m] # <<>>,
              In(inbox'[m], outbox[n].store) \/ Seen(m, outbox[n].store)'
       PROVE  Newest(inbox'[m]) = outbox[n].store
  <2>1. outbox[n].store \in Stores
    BY <1>11, TypeFacts DEF HalfSent, SignalInv, OutboxInv
  <2>2. In(inbox[m], outbox[n].store) \/ Seen(m, outbox[n].store)
    BY <1>3, <1>9, <1>11, <2>1
  <2> QED
    BY <1>4, <1>10, <1>11, <2>2 DEF BlockInv
<1>12. ASSUME NEW n \in Managers, n # m, NEW x \in Stores, Seen(n, x)
       PROVE  Gone(n, x)' \/ Latest(n, x)'
  <2>1. Gone(n, x) \/ Latest(n, x)
    BY <1>12 DEF BlockInv
  <2> QED
    BY <1>1, <1>3, <1>12, <2>1 DEF Gone, Latest
<1>13. ASSUME NEW x \in Stores, x # ts, Seen(m, x)
       PROVE  Gone(m, x)' \/ Latest(m, x)'
  <2>1. CASE Gone(m, x)
    BY <1>3, <2>1 DEF Gone
  <2>2. CASE Latest(m, x)
    <3>1. ~In(inbox[m], x)
      BY <1>4, <1>13, <2>2 DEF Latest
    <3>2. ASSUME NEW n \in Managers, outbox[n].store = x PROVE FALSE
      <4>1. ~Ready(n)
        BY <3>2, IdleOutbox
      <4>2. ~Unsent(n)
        BY <1>13, <3>2, UnsentUnseen
      <4>3. Newest(inbox[m]) = x
        BY <1>4, <1>13, <3>2, <4>1, <4>2 DEF BlockInv, HalfSent
      <4>4. Len(inbox[m]) \in 1..Len(inbox[m])
        BY <1>4
      <4> QED
        BY <3>1, <4>3, <4>4 DEF In, Newest
    <3> QED
      BY <1>3, <3>1, <3>2 DEF Gone
  <2> QED
    BY <1>13, <2>1, <2>2 DEF BlockInv
<1>14. Latest(m, ts)'
  BY <1>6, <1>10 DEF Latest
<1>15. ASSUME NEW n \in Managers, NEW x \in Stores, Seen(n, x)'
       PROVE  x \in DOMAIN sent /\ (Gone(n, x)' \/ Latest(n, x)')
  <2>1. CASE n = m /\ x = ts
    BY <1>1, <1>14, <2>1
  <2>2. CASE ~(n = m /\ x = ts)
    <3>1. Seen(n, x) /\ x \in DOMAIN sent
      BY <1>9, <1>15, <2>2 DEF BlockInv
    <3> QED
      BY <1>12, <1>13, <2>2, <3>1
  <2> QED
    BY <2>1, <2>2
<1>16. \A n \in Managers, x \in Stores : applied'[n][x] <= 1
  BY <1>8 DEF BlockInv
<1>17. \A q \in Managers \ {m}, x \in Stores : Seen(q, x)' <=> Seen(q, x)
  BY <1>1, <1>8 DEF Seen, Processed
<1>18. ASSUME NEW q \in Managers, q # m, NEW n \in Managers, HalfSent(n),
              inbox'[q] # <<>>,
              In(inbox'[q], outbox[n].store) \/ Seen(q, outbox[n].store)'
       PROVE  Newest(inbox'[q]) = outbox[n].store
  <2>1. outbox[n].store \in Stores
    BY <1>18, TypeFacts DEF HalfSent, SignalInv, OutboxInv
  <2> QED
    BY <1>3, <1>17, <1>18, <2>1 DEF BlockInv
<1>19. \A q \in Managers : Blocks(inbox'[q])
  BY <1>3, <1>10 DEF BlockInv
<1>20. \A n, q \in Managers : HalfSent(n)' /\ HalfSent(q)' => n = q
  BY <1>5 DEF BlockInv
<1> QED
  BY <1>3, <1>5, <1>11, <1>15, <1>16, <1>18, <1>19, <1>20 DEF BlockInv

\* A manager does not process a signal twice, however many of its copies it
\* gets and however the commits of several processes interleave with their
\* signals, unless a process is overtaken between two copies of a signal.
THEOREM SignalsAreProcessedOnce ==
  ASSUME "split" \notin Env PROVE Spec => []ProcessedOnce
<1> DEFINE Inv == SignalsAreRight /\ BlockInv
<1>1. Init => Inv
  BY SignalsStayRight, BlockInit
<1>2. Inv /\ [Next]_vars => Inv'
  <2>1. SignalsAreRight /\ BlockInv /\ [Next]_vars => BlockInv'
    <3> SUFFICES ASSUME TypeOK, SignalInv, BlockInv, [Next]_vars
                 PROVE  BlockInv'
      BY DEF SignalsAreRight
    <3>1. ASSUME UNCHANGED SignalVars PROVE BlockInv'
      BY <3>1 DEF SignalVars, BlockInv, busVars, signalVars, historyVars,
         HalfSent, Unsent, Ready, Seen, Gone, Latest, Processed
    <3> QED
      BY <3>1, Kinds, BlockCommit, BlockEmit, BlockHandle
  <2> QED
    BY <2>1, SignalsStayRight
<1>3. Inv => ProcessedOnce
  BY DEF BlockInv, ProcessedOnce
<1> HIDE DEF Inv
<1> QED
  BY <1>1, <1>2, <1>3, PTL DEF Spec
-----------------------------------------------------------------------------
(***************************************************************************)
(* What the window is enough for, however processes overtake each other.   *)
(***************************************************************************)
Distinct(q) == \A i, j \in 1..Len(q) : q[i] = q[j] => i = j

\* A timestamp that is put in front of n - 1 others at most stays distinct,
\* and when the window has room for n none is dropped.
LEMMA Kept ==
  ASSUME NEW m \in Managers, NEW n \in Nat, NEW ts \in 1..n, ts \in Stores,
         processedSignals \in [Managers -> Seq(Stores)],
         \A i \in 1..Len(processedSignals[m]) : processedSignals[m][i] \in 1..n,
         Distinct(processedSignals[m]), ~Processed(m, ts), Remember(m, ts)
  PROVE  /\ Distinct(processedSignals'[m])
         /\ n <= Window => \A x : Processed(m, x) => Processed(m, x)'
<1> DEFINE p == processedSignals[m]
           q == <<ts>> \o p
           k == IF Len(p) < Window THEN Len(p) + 1 ELSE Window
           r == SubSeq(q, 1, k)
<1>1. /\ p \in Seq(Stores) /\ Len(p) \in Nat /\ Window \in Nat \ {0}
      /\ DOMAIN p = 1..Len(p)
  BY ConstantsAssumption
<1>2. /\ \A i \in 1..Len(p) : p[i] \in 1..n /\ p[i] # ts
      /\ \A i, j \in 1..Len(p) : p[i] = p[j] => i = j
  BY <1>1 DEF Processed, Distinct
<1>3. processedSignals' = [processedSignals EXCEPT ![m] = r]
  BY DEF Remember
<1>4. processedSignals'[m] = r
  BY <1>3
<1>5. \A x : Processed(m, x) <=> \E i \in 1..Len(p) : p[i] = x
  BY <1>1 DEF Processed
<1> HIDE DEF p
<1>6. /\ q \in Seq(Stores) /\ Len(q) = Len(p) + 1 /\ q[1] = ts
      /\ \A i \in 2..Len(p) + 1 : q[i] = p[i - 1]
  <2>1. <<ts>> \in Seq(Stores) /\ Len(<<ts>>) = 1 /\ <<ts>>[1] = ts
    OBVIOUS
  <2>2. /\ q \in Seq(Stores) /\ Len(q) = 1 + Len(p)
        /\ \A i \in 1..Len(q) : q[i] = IF i <= 1 THEN <<ts>>[i]
                                       ELSE p[i - 1]
    BY <1>1, <2>1, ConcatProperties
  <2> HIDE DEF q
  <2> QED
    BY <1>1, <2>1, <2>2
<1>7. k \in 1..Len(p) + 1 /\ k \in 0..Len(q)
  BY <1>1, <1>6
<1>8. /\ r \in Seq(Stores) /\ Len(r) = k /\ \A i \in 1..k : r[i] = q[i]
  <2> HIDE DEF q, k
  <2>1. 1 \in 1..Len(q) + 1 /\ k \in 0..Len(q)
    BY <1>1, <1>6, <1>7
  <2> QED
    BY <1>6, <1>7, <2>1
<1> HIDE DEF q, r
<1>9. /\ \A i \in 1..Len(p) + 1 : q[i] \in 1..n
      /\ \A i, j \in 1..Len(p) + 1 : q[i] = q[j] => i = j
  <2>1. \A i \in 1..Len(p) + 1 :
          i = 1 \/ (i \in 2..Len(p) + 1 /\ i - 1 \in 1..Len(p))
    BY <1>1
  <2>2. \A i \in 1..Len(p) + 1 : q[i] = IF i = 1 THEN ts ELSE p[i - 1]
    BY <1>6, <2>1
  <2>3. \A i \in 1..Len(p) + 1 : q[i] \in 1..n
    BY <1>2, <2>1, <2>2
  <2>4. ASSUME NEW i \in 1..Len(p) + 1, NEW j \in 1..Len(p) + 1, q[i] = q[j]
        PROVE  i = j
    <3>1. CASE i = 1 \/ j = 1
      <4>1. ASSUME NEW l \in 1..Len(p) + 1, l # 1 PROVE q[l] # ts
        <5>1. l - 1 \in 1..Len(p)
          BY <2>1, <4>1
        <5>2. p[l - 1] # ts
          BY <1>2, <5>1
        <5> QED
          BY <2>2, <4>1, <5>2
      <4> QED
        BY <2>2, <2>4, <3>1, <4>1
    <3>2. CASE i # 1 /\ j # 1
      <4>1. i - 1 \in 1..Len(p) /\ j - 1 \in 1..Len(p)
        BY <2>1, <3>2
      <4>2. p[i - 1] = p[j - 1]
        BY <2>2, <2>4, <3>2
      <4>3. i - 1 = j - 1
        BY <1>2, <4>1, <4>2
      <4> QED
        BY <1>1, <4>3
    <3> QED
      BY <3>1, <3>2
  <2> QED
    BY <2>3, <2>4
<1>10. Len(p) + 1 <= n
  <2> DEFINE f == [i \in 1..Len(p) + 1 |-> q[i]]
  <2>1. f \in Injection(1..Len(p) + 1, 1..n)
    BY <1>9 DEF Injection, IsInjective
  <2>2. /\ IsFiniteSet(1..n) /\ Cardinality(1..n) = n
        /\ Cardinality(1..Len(p) + 1) = Len(p) + 1
    <3>1. Len(p) + 1 \in Nat
      BY <1>1
    <3>2. \A a \in Nat : IsFiniteSet(1..a) /\ Cardinality(1..a) = a
      <4> TAKE a \in Nat
      <4>1. IsFiniteSet(1..a)
            /\ Cardinality(1..a) = IF 1 > a THEN 0 ELSE a - 1 + 1
        BY FS_Interval
      <4> QED
        BY <4>1
    <3> QED
      BY <3>1, <3>2
  <2> HIDE DEF f
  <2>3. Cardinality(1..Len(p) + 1) <= Cardinality(1..n)
    BY <2>1, <2>2, FS_Injection
  <2> QED
    BY <2>2, <2>3
<1>11. Distinct(processedSignals'[m])
  <2>1. \A i \in 1..k : i \in 1..Len(p) + 1
    BY <1>1, <1>7
  <2> HIDE DEF k
  <2> QED
    BY <1>4, <1>8, <1>9, <2>1 DEF Distinct
<1>12. ASSUME n <= Window, NEW x, Processed(m, x) PROVE Processed(m, x)'
  <2>1. PICK i \in 1..Len(p) : p[i] = x
    BY <1>5, <1>12
  <2>2. k = Len(p) + 1
    BY <1>1, <1>10, <1>12
  <2>3. i + 1 \in 1..k /\ i + 1 \in 2..Len(p) + 1 /\ (i + 1) - 1 = i
    BY <1>1, <2>2
  <2> HIDE DEF k
  <2>4. r[i + 1] = x /\ i + 1 \in DOMAIN r
    BY <1>6, <1>8, <2>1, <2>3
  <2> QED
    BY <1>4, <2>4 DEF Processed
<1> QED
  BY <1>11, <1>12

\* No timestamp is remembered twice, and while the window is large enough for
\* all stores none that was processed is forgotten.
WindowInv ==
  \A m \in Managers :
    /\ Distinct(processedSignals[m])
    /\ Len(sent) <= Window =>
         \A s \in Stores : /\ applied[m][s] <= 1
                           /\ applied[m][s] > 0 => Processed(m, s)

LEMMA WindowInit == Init => WindowInv
<1> SUFFICES ASSUME Init PROVE WindowInv
  OBVIOUS
<1>1. ASSUME NEW m \in Managers
      PROVE  Len(processedSignals[m]) = 0
  <2>1. processedSignals[m] = <<>>
    BY DEF Init
  <2> QED
    BY <2>1
<1>2. \A m \in Managers : Distinct(processedSignals[m])
  BY <1>1 DEF Distinct
<1>3. \A m \in Managers, s \in Stores :
        applied[m][s] <= 1 /\ ~(applied[m][s] > 0)
  BY DEF Init
<1> QED
  BY <1>2, <1>3 DEF WindowInv

LEMMA WindowHandle ==
  ASSUME TypeOK, SignalInv, WindowInv, NEW m \in Managers, NEW ts \in Stores,
         Duplicate(m, ts) \/ SkipOwn(m, ts) \/ Process(m, ts)
  PROVE  WindowInv'
<1>1. /\ ts \in DOMAIN sent /\ UNCHANGED sent
      /\ \A n \in Managers \ {m} : processedSignals'[n] = processedSignals[n]
      /\ Processed(m, ts)'
  BY HandleEffect, ArriveEffect DEF dbVars
<1>2. /\ processedSignals \in [Managers -> Seq(Stores)]
      /\ applied \in [Managers -> [Stores -> Nat]]
      /\ sent \in Seq(Changes) /\ Len(sent) \in Nat /\ ts \in 1..Len(sent)
  BY <1>1 DEF TypeOK
<1>3. \A i \in 1..Len(processedSignals[m]) :
        processedSignals[m][i] \in 1..Len(sent)
  <2> TAKE i \in 1..Len(processedSignals[m])
  <2>1. processedSignals[m] \in Seq(Stores)
    BY <1>2
  <2>2. processedSignals[m][i] \in Stores /\ Processed(m, processedSignals[m][i])
    BY <2>1 DEF Processed
  <2>3. processedSignals[m][i] \in DOMAIN sent
    BY <2>2 DEF SignalInv, SeenInv
  <2> QED
    BY <1>2, <2>3
<1>4. CASE Duplicate(m, ts)
  BY <1>4, <1>1 DEF Duplicate, WindowInv, signalVars, historyVars, Processed
<1>5. CASE ~Duplicate(m, ts)
  <2>1. Remember(m, ts) /\ ~Processed(m, ts)
    BY <1>5 DEF SkipOwn, Process
  <2>2. /\ Distinct(processedSignals'[m])
        /\ Len(sent) <= Window => \A x : Processed(m, x) => Processed(m, x)'
    BY <1>2, <1>3, <2>1, Kept DEF WindowInv
  <2>3. \A n \in Managers \ {m} : \A x : Processed(n, x)' <=> Processed(n, x)
    BY <1>1 DEF Processed
  <2>4. /\ \A n \in Managers, x \in Stores : n # m \/ x # ts =>
             applied'[n][x] = applied[n][x]
        /\ applied'[m][ts] \in {applied[m][ts], applied[m][ts] + 1}
    <3>1. CASE SkipOwn(m, ts)
      BY <3>1 DEF SkipOwn, historyVars
    <3>2. CASE Process(m, ts)
      BY <3>2, <1>2 DEF Process
    <3> QED
      BY <1>5, <3>1, <3>2
  <2>5. Len(sent) <= Window => applied[m][ts] = 0
    <3>1. applied[m][ts] \in Nat
      BY <1>2
    <3> QED
      BY <2>1, <3>1 DEF WindowInv
  <2>6. ASSUME Len(sent) <= Window, NEW n \in Managers, NEW x \in Stores
        PROVE  applied'[n][x] <= 1 /\ (applied'[n][x] > 0 => Processed(n, x)')
    <3>1. CASE n = m /\ x = ts
      BY <1>1, <2>4, <2>5, <2>6, <3>1
    <3>2. CASE n # m \/ x # ts
      <4>1. /\ applied'[n][x] = applied[n][x]
            /\ applied[n][x] <= 1 /\ (applied[n][x] > 0 => Processed(n, x))
        BY <2>4, <2>6, <3>2 DEF WindowInv
      <4>2. Processed(n, x) => Processed(n, x)'
        BY <2>2, <2>3, <2>6
      <4> QED
        BY <4>1, <4>2
    <3> QED
      BY <3>1, <3>2
  <2>7. \A n \in Managers : Distinct(processedSignals'[n])
    BY <1>1, <2>2 DEF WindowInv
  <2> QED
    BY <1>1, <2>6, <2>7 DEF WindowInv
<1> QED
  BY <1>4, <1>5

LEMMA WindowStep ==
  SignalsAreRight /\ WindowInv /\ [Next]_vars => WindowInv'
<1> SUFFICES ASSUME TypeOK, SignalInv, WindowInv, [Next]_vars PROVE WindowInv'
  BY DEF SignalsAreRight
<1>1. ASSUME UNCHANGED SignalVars PROVE WindowInv'
  BY <1>1 DEF SignalVars, WindowInv, signalVars, historyVars, Processed
<1>2. ASSUME NEW m \in Managers, NEW change, Commit(m, change)
      PROVE  WindowInv'
  <2>1. /\ UNCHANGED <<processedSignals, applied>>
        /\ sent' = Append(sent, change)
    BY <1>2 DEF Commit, signalVars, historyVars
  <2>2. Len(sent') = Len(sent) + 1 /\ Len(sent) \in Nat
    BY <2>1 DEF TypeOK
  <2>3. Len(sent') <= Window => Len(sent) <= Window
    BY <2>2, ConstantsAssumption
  <2>4. \A m1 \in Managers : \A x : Processed(m1, x)' <=> Processed(m1, x)
    BY <2>1 DEF Processed
  <2> QED
    BY <2>1, <2>3, <2>4 DEF WindowInv
<1>3. ASSUME NEW m \in Managers, NEW path, Emit(m, path)
      PROVE  WindowInv'
  BY <1>3 DEF Emit, WindowInv, dbVars, Processed
<1> QED
  BY <1>1, <1>2, <1>3, Kinds, WindowHandle

\* As long as no more stores are signalled than the window holds, no copy of
\* a signal is processed again, in any order of commits, copies and signals.
THEOREM TheWindowIsEnough == Spec => []OnceWithinWindow
<1>1. Init => SignalsAreRight /\ WindowInv
  BY SignalsStayRight, WindowInit
<1>2. SignalsAreRight /\ WindowInv /\ [Next]_vars
        => (SignalsAreRight /\ WindowInv)'
  BY SignalsStayRight, WindowStep
<1>3. SignalsAreRight /\ WindowInv => OnceWithinWindow
  <2> SUFFICES ASSUME SignalsAreRight, WindowInv, NEW m \in Managers,
                      NEW s \in Stores, applied[m][s] > 1
               PROVE  Len(sent) > Window
    BY DEF OnceWithinWindow
  <2>1. applied[m][s] \in Nat /\ Len(sent) \in Nat /\ Window \in Nat
    BY ConstantsAssumption DEF SignalsAreRight, TypeOK
  <2>2. Len(sent) <= Window => applied[m][s] <= 1
    BY DEF WindowInv
  <2> QED
    BY <2>1, <2>2
<1> QED
  BY <1>1, <1>2, <1>3, PTL DEF Spec
-----------------------------------------------------------------------------
(***************************************************************************)
(* Processes that are not overtaken between their commit and the last copy *)
(* of their signal: the signals have the order of the commits.             *)
(***************************************************************************)
NotOvertaken == "gap" \notin Env /\ "split" \notin Env

\* Nothing has been sent of the stores after the one a manager is signalling.
OrderInv ==
  /\ \A n \in Managers : Unsent(n) => outbox[n].store = Len(sent)
  /\ \A n \in Managers : ~Ready(n) =>
       \A w \in DOMAIN sent : w > outbox[n].store =>
         \E q \in Managers : Unsent(q) /\ outbox[q].store = w
  /\ \A m \in Managers : Sorted(inbox[m])

\* The stores after it are coming to everyone.
LEMMA LaterComes ==
  ASSUME TypeOK, SignalInv, OrderInv, NEW n \in Managers, ~Ready(n),
         NEW w \in DOMAIN sent, w > outbox[n].store, NEW m \in Managers
  PROVE  /\ ~In(inbox[m], w)
         /\ [ts |-> w, mustProcess |-> FALSE] \notin emittedSignals[m]
         /\ \A t \in Paths(sent[w]) : Coming(m, w, t)
<1>1. PICK q \in Managers : Unsent(q) /\ outbox[q].store = w
  BY DEF OrderInv
<1>2. w \in Stores
  BY TypeFacts
<1>3. ~In(inbox[m], w) /\ ~Processed(m, w)
  BY <1>1, <1>2 DEF SignalInv, SeenInv
<1>4. ASSUME [ts |-> w, mustProcess |-> FALSE] \in emittedSignals[m]
      PROVE  FALSE
  <2> DEFINE e == [ts |-> w, mustProcess |-> FALSE]
  <2>1. outbox[q].store # e.ts
    BY <1>4 DEF SignalInv, OwnInv
  <2> QED
    BY <1>1, <2>1
<1>5. \A t \in Paths(sent[w]) : t \in outbox[q].paths
  BY <1>1 DEF Unsent
<1> QED
  BY <1>1, <1>3, <1>4, <1>5 DEF Coming

LEMMA OrderInit == Init => OrderInv
<1> SUFFICES ASSUME Init PROVE OrderInv
  OBVIOUS
<1>1. \A m \in Managers : Ready(m) /\ inbox[m] = <<>>
  BY DEF Init, Ready
<1> QED
  BY <1>1 DEF OrderInv, Unsent, Sorted

LEMMA OrderCommit ==
  ASSUME TypeOK, SignalInv, OrderInv, NotOvertaken, NEW m \in Managers,
         NEW change \in Changes, Commit(m, change)
  PROVE  OrderInv'
<1>1. PICK s : s = Len(sent) + 1
  OBVIOUS
<1>2. /\ s \in Stores /\ s \notin DOMAIN sent /\ s # 0
      /\ DOMAIN sent = 1..Len(sent) /\ Len(sent) \in Nat
      /\ DOMAIN sent' = DOMAIN sent \cup {s} /\ Len(sent') = s
      /\ sent'[s] = change /\ \A x \in DOMAIN sent : sent'[x] = sent[x]
      /\ outbox'[m].store = s /\ outbox'[m].paths = Paths(change)
      /\ \A n \in Managers \ {m} : outbox'[n] = outbox[n]
      /\ UNCHANGED inbox
  <2>1. /\ s \in Stores /\ s \notin DOMAIN sent /\ s # 0
        /\ DOMAIN sent = 1..Len(sent) /\ Len(sent) \in Nat
    BY <1>1, TypeFacts, CommitEffect, IdleOutbox
  <2> QED
    BY <1>1, <2>1, CommitEffect
<1>3. \A n \in Managers : ~Unsent(n)
  BY DEF Commit, Allowed, NotOvertaken
<1>4. ~Ready(m)' /\ Unsent(m)'
  BY <1>2, IdleOutbox DEF Ready, Unsent
<1>5. ASSUME NEW n \in Managers, n # m
      PROVE  /\ Ready(n)' <=> Ready(n)
             /\ ~Unsent(n)'
             /\ ~Ready(n) => \A w \in DOMAIN sent : ~(w > outbox[n].store)
  <2>1. Ready(n)' <=> Ready(n)
    BY <1>2, <1>5 DEF Ready
  <2>2. ~Unsent(n)'
    BY <1>2, <1>3, <1>5, <2>1 DEF Unsent, SignalInv, OutboxInv
  <2>3. ~Ready(n) => \A w \in DOMAIN sent : ~(w > outbox[n].store)
    BY <1>3 DEF OrderInv
  <2> QED
    BY <2>1, <2>2, <2>3
<1>6. \A n \in Managers : Unsent(n)' => outbox'[n].store = Len(sent')
  BY <1>2, <1>5
<1>7. ASSUME NEW n \in Managers, ~Ready(n)', NEW w \in DOMAIN sent',
             w > outbox'[n].store
      PROVE  \E q \in Managers : Unsent(q)' /\ outbox'[q].store = w
  <2>1. w = s
    <3>1. CASE n = m
      BY <1>2, <1>7, <3>1
    <3>2. CASE n # m
      BY <1>2, <1>5, <1>7, <3>2
    <3> QED
      BY <3>1, <3>2
  <2> QED
    BY <1>2, <1>4, <2>1
<1>8. \A q \in Managers : Sorted(inbox'[q])
  BY <1>2 DEF OrderInv
<1> QED
  BY <1>6, <1>7, <1>8 DEF OrderInv

LEMMA OrderEmit ==
  ASSUME TypeOK, SignalInv, OrderInv, NotOvertaken, NEW m \in Managers,
         NEW path \in Types, Emit(m, path)
  PROVE  OrderInv'
<1>1. PICK s : s = outbox[m].store
  OBVIOUS
<1>2. /\ ~Ready(m) /\ s \in DOMAIN sent /\ s \in Stores
      /\ path \in Paths(sent[s]) /\ path \notin outbox'[m].paths
      /\ \A n \in Managers \ {m} : outbox'[n] = outbox[n]
      /\ outbox'[m] = Idle \/ outbox'[m].store = s
      /\ UNCHANGED sent
  <2>1. OutboxInv
    BY DEF SignalInv
  <2>2. /\ ~Ready(m) /\ s \in DOMAIN sent /\ s \in Stores
        /\ path \in Paths(sent[s])
    BY <1>1, <2>1, EmitEffect, TypeFacts DEF OutboxInv
  <2> QED
    BY <1>1, <2>1, <2>2, EmitEffect, IdleOutbox DEF dbVars
<1>3. \A n \in Managers \ {m} : (Ready(n)' <=> Ready(n))
                                /\ (Unsent(n)' <=> Unsent(n))
  BY <1>2 DEF Ready, Unsent
<1>4. ~Unsent(m)'
  BY <1>2 DEF Unsent, Ready
<1>5. \A n \in Managers : Unsent(n)' => outbox'[n].store = Len(sent')
  BY <1>2, <1>3, <1>4 DEF OrderInv
<1>6. ASSUME NEW n \in Managers, ~Ready(n)', NEW w \in DOMAIN sent,
             w > outbox'[n].store
      PROVE  \E q \in Managers : Unsent(q)' /\ outbox'[q].store = w
  <2>1. CASE n = m
    <3>1. w > s
      BY <1>2, <1>6, <2>1 DEF Ready
    <3>2. PICK q \in Managers : Unsent(q) /\ outbox[q].store = w
      BY <1>1, <1>2, <3>1 DEF OrderInv
    <3>3. q # m
      BY <1>1, <1>2, <3>1, <3>2, TypeFacts DEF Stores
    <3> QED
      BY <1>2, <1>3, <3>2, <3>3
  <2>2. CASE n # m
    <3>1. Unsent(n)
      BY <1>3, <1>6, <2>2 DEF Emit, Allowed, NotOvertaken, HalfSent
    <3>2. outbox[n].store = Len(sent) /\ w <= Len(sent)
          /\ w \in Nat /\ Len(sent) \in Nat
      BY <3>1, TypeFacts DEF OrderInv
    <3> QED
      BY <1>2, <1>6, <2>2, <3>2
  <2> QED
    BY <2>1, <2>2
<1>7. ASSUME NEW q \in Managers PROVE Sorted(inbox'[q])
  <2>1. inbox'[q] = IF path \in Listens[q] THEN Append(inbox[q], s)
                    ELSE inbox[q]
    BY <1>1, <1>2, DeliverEffect DEF Emit
  <2>2. ASSUME NEW x, In(inbox[q], x) PROVE x <= s
    <3>1. x \in Stores
      BY <2>2, TypeFacts DEF In
    <3>2. x \in DOMAIN sent
      BY <2>2, <3>1 DEF SignalInv, SeenInv
    <3>3. ~(x > s)
      BY <1>1, <1>2, <2>2, <3>2, LaterComes
    <3> QED
      BY <1>2, <3>1, <3>3 DEF Stores
  <2>3. Sorted(inbox[q]) /\ inbox[q] \in Seq(Stores)
    BY TypeFacts DEF OrderInv
  <2>4. Sorted(Append(inbox[q], s))
    BY <1>2, <2>2, <2>3, Appended
  <2> QED
    BY <2>1, <2>3, <2>4
<1> QED
  BY <1>2, <1>5, <1>6, <1>7 DEF OrderInv

LEMMA OrderStep ==
  ASSUME TypeOK, SignalInv, OrderInv, NotOvertaken, [Next]_vars
  PROVE  OrderInv'
<1>1. ASSUME UNCHANGED SignalVars PROVE OrderInv'
  BY <1>1 DEF SignalVars, busVars, OrderInv, Unsent, Ready
<1>2. ASSUME NEW m \in Managers, NEW ts \in Stores,
             Duplicate(m, ts) \/ SkipOwn(m, ts) \/ Process(m, ts)
      PROVE  OrderInv'
  <2>1. Arrives(m, ts)
    BY <1>2, HandleEffect
  <2>2. UNCHANGED <<outbox, sent>>
    BY <2>1 DEF Arrives, dbVars
  <2>3. \A q \in Managers : Sorted(inbox'[q])
    <3>1. /\ Sorted(inbox'[m])
          /\ \A q \in Managers \ {m} : inbox'[q] = inbox[q]
      BY <2>1, ArriveEffect DEF OrderInv
    <3> QED
      BY <3>1 DEF OrderInv
  <2> QED
    BY <2>2, <2>3 DEF OrderInv, Unsent, Ready
<1> QED
  BY <1>1, <1>2, Kinds, OrderCommit, OrderEmit

\* The signals that a manager gets and that are not coming to it any more
\* are not after those in its inbox.
DeliveredInv ==
  \A m \in Managers, s \in DOMAIN sent :
    \A t \in Paths(sent[s]) \cap Listens[m] :
      Coming(m, s, t) \/ AtLeast(inbox[m], s)

LEMMA DeliveredStep ==
  ASSUME TypeOK, SignalInv, OrderInv, DeliveredInv, NotOvertaken,
         [Next]_vars
  PROVE  DeliveredInv'
<1>1. ASSUME NEW m \in Managers, NEW s \in DOMAIN sent,
             NEW t \in Paths(sent[s]) \cap Listens[m]
      PROVE  Coming(m, s, t)' \/ AtLeast(inbox'[m], s)
  <2>1. s \in Stores
    BY TypeFacts
  <2>2. CASE Coming(m, s, t)
    <3>1. CASE Coming(m, s, t)'
      BY <3>1
    <3>2. CASE SkipOwn(m, s) \/ Process(m, s)
      <4>1. Arrives(m, s)
        BY <3>2 DEF SkipOwn, Process
      <4> QED
        BY <4>1, ArriveEffect DEF OrderInv
    <3> QED
      BY <2>2, <3>1, <3>2, ComingStays
  <2>3. CASE ~Coming(m, s, t)
    <3>1. AtLeast(inbox[m], s)
      BY <2>3 DEF DeliveredInv
    <3>2. CASE UNCHANGED inbox
      BY <3>1, <3>2
    <3>3. ASSUME NEW n \in Managers, NEW change \in Changes,
                 Commit(n, change)
          PROVE  UNCHANGED inbox
      BY <3>3 DEF Commit
    <3>4. ASSUME NEW n \in Managers, NEW path \in Types, Emit(n, path)
          PROVE  AtLeast(inbox'[m], s)
      <4>1. /\ ~Ready(n) /\ outbox[n].store \in Stores
        BY <3>4, EmitEffect, TypeFacts DEF SignalInv
      <4>2. ~(s > outbox[n].store)
        BY <2>3, <4>1, LaterComes
      <4>3. s <= outbox[n].store
        BY <2>1, <4>1, <4>2 DEF Stores
      <4>4. AtLeast(Append(inbox[m], outbox[n].store), s)
        BY <3>1, <4>1, <4>3, Appended, TypeFacts
      <4>5. inbox'[m] = IF path \in Listens[m]
                        THEN Append(inbox[m], outbox[n].store)
                        ELSE inbox[m]
        BY <3>4, <4>1, DeliverEffect DEF Emit
      <4> QED
        BY <3>1, <4>4, <4>5
    <3>5. ASSUME NEW n \in Managers, NEW ts \in Stores,
                 Duplicate(n, ts) \/ SkipOwn(n, ts) \/ Process(n, ts)
          PROVE  AtLeast(inbox'[m], s)
      <4>1. Arrives(n, ts)
        BY <3>5, HandleEffect
      <4>2. CASE n = m
        BY <3>1, <4>1, <4>2, ArriveEffect
      <4>3. CASE n # m
        BY <3>1, <4>1, <4>3, ArriveEffect
      <4> QED
        BY <4>2, <4>3
    <3> QED
      BY <3>2, <3>3, <3>4, <3>5, Kinds DEF SignalVars, busVars
  <2> QED
    BY <2>2, <2>3
<1>2. ASSUME NEW n \in Managers, NEW change \in Changes, Commit(n, change)
      PROVE  DeliveredInv'
  <2>1. PICK s : s = Len(sent) + 1
    OBVIOUS
  <2>2. /\ DOMAIN sent' = DOMAIN sent \cup {s} /\ sent'[s] = change
        /\ \A x \in DOMAIN sent : sent'[x] = sent[x]
    BY <1>2, <2>1, CommitEffect
  <2>3. \A m \in Managers : \A t \in Paths(change) : Coming(m, s, t)'
    BY <1>2, <2>1, CommitComing
  <2> QED
    BY <1>1, <2>2, <2>3 DEF DeliveredInv
<1>3. ASSUME UNCHANGED sent PROVE DeliveredInv'
  BY <1>1, <1>3 DEF DeliveredInv
<1>4. ASSUME NEW n \in Managers, NEW path \in Types, Emit(n, path)
      PROVE  UNCHANGED sent
  BY <1>4 DEF Emit, dbVars
<1>5. ASSUME NEW n \in Managers, NEW ts \in Stores,
             Duplicate(n, ts) \/ SkipOwn(n, ts) \/ Process(n, ts)
      PROVE  UNCHANGED sent
  BY <1>5 DEF Duplicate, SkipOwn, Process, Arrives, dbVars
<1> QED
  BY <1>2, <1>3, <1>4, <1>5, Kinds DEF SignalVars
-----------------------------------------------------------------------------
(* The account and the hashes.                                             *)

\* The account is created once, by the first store, is deleted by any store
\* that says so, and is in the hash of each manager that is storing it.
LifeInv ==
  /\ state = "absent" => sent = <<>> /\ db = NoValues
  /\ (\E d \in DOMAIN sent : sent[d].deleted) <=> state = "deleted"
  /\ \A s \in DOMAIN sent : sent[s].created => s = 1 /\ ~sent[s].deleted
  /\ \A m \in Managers : loaded[m] => state # "absent"
  /\ \A m \in Managers : ~Ready(m) => loaded[m]

LEMMA LifeInit == Init => LifeInv
<1> SUFFICES ASSUME Init PROVE LifeInv
  OBVIOUS
<1>1. sent = <<>> /\ DOMAIN sent = {} /\ db = NoValues /\ state # "deleted"
  BY DEF Init
<1>2. \A m \in Managers : Ready(m) /\ (loaded[m] <=> state = "live")
  BY DEF Init, Ready
<1> QED
  BY <1>1, <1>2 DEF LifeInv

\* The steps of the client that leave the database alone.
LEMMA QuietEffect ==
  ASSUME TypeOK, NEW n \in Managers,
         Load(n) \/ Release(n) \/ \E t \in Types : Select(n, t)
  PROVE  /\ UNCHANGED SignalVars /\ UNCHANGED dbVars
         /\ Ready(n)
         /\ loaded'[n] = TRUE => loaded[n] = TRUE \/ state = "live"
         /\ \A m \in Managers \ {n} :
              /\ loaded'[m] = loaded[m] /\ foreign'[m] = foreign[m]
              /\ selected'[m] = selected[m] /\ mem'[m] = mem[m]
<1>0. /\ ObjectTypes /\ NoValues \in Values /\ {Global} \in SUBSET Types
      /\ {} \in SUBSET Types /\ mem[n] \in Values /\ foreign[n] \in BOOLEAN
  BY ConstantsAssumption, TypeFacts, NoValuesType
<1>1. CASE Load(n)
  <2>1. Read(NoValues, {Global}) \in Values
    BY <1>0, ReadTypes
  <2>2. Put(n, TRUE, FALSE, {Global}, Read(NoValues, {Global}))
    BY <1>1 DEF Load
  <2>3. \A m \in Managers \ {n} :
          /\ loaded'[m] = loaded[m] /\ foreign'[m] = foreign[m]
          /\ selected'[m] = selected[m] /\ mem'[m] = mem[m]
    BY <1>0, <2>1, <2>2, PutEffect
  <2> QED
    BY <1>1, <2>3 DEF Load, SignalVars, dbVars, busVars, signalVars,
       historyVars
<1>2. CASE Release(n)
  <2>1. Put(n, FALSE, FALSE, {}, NoValues)
    BY <1>2 DEF Release
  <2>2. /\ loaded'[n] = FALSE
        /\ \A m \in Managers \ {n} :
             /\ loaded'[m] = loaded[m] /\ foreign'[m] = foreign[m]
             /\ selected'[m] = selected[m] /\ mem'[m] = mem[m]
    BY <1>0, <2>1, PutEffect
  <2> QED
    BY <1>2, <2>2 DEF Release, SignalVars, dbVars, busVars, signalVars,
       historyVars
<1>3. ASSUME NEW t \in Types, Select(n, t)
      PROVE  /\ UNCHANGED SignalVars /\ UNCHANGED dbVars
             /\ Ready(n)
             /\ loaded'[n] = TRUE => loaded[n] = TRUE \/ state = "live"
             /\ \A m \in Managers \ {n} :
                  /\ loaded'[m] = loaded[m] /\ foreign'[m] = foreign[m]
                  /\ selected'[m] = selected[m] /\ mem'[m] = mem[m]
  <2>1. /\ Read(mem[n], {t}) \in Values
        /\ selected[n] \cup {t} \in SUBSET Types
    BY <1>0, ReadTypes, TypeFacts
  <2>2. Put(n, TRUE, foreign[n], selected[n] \cup {t}, Read(mem[n], {t}))
    BY <1>3 DEF Select
  <2>3. \A m \in Managers \ {n} :
          /\ loaded'[m] = loaded[m] /\ foreign'[m] = foreign[m]
          /\ selected'[m] = selected[m] /\ mem'[m] = mem[m]
    BY <1>0, <2>1, <2>2, PutEffect
  <2>4. loaded[n] = TRUE
    BY <1>3, TypeFacts DEF Select
  <2> QED
    BY <1>3, <2>3, <2>4 DEF Select, SignalVars, dbVars, busVars, signalVars,
       historyVars
<1> QED
  BY <1>1, <1>2, <1>3

\* The stores, with what they do to the account and the objects.
LEMMA StoreEffect ==
  ASSUME TypeOK, LifeInv, NEW n \in Managers, NEW keys \in SUBSET Keys,
         Create(n, keys) \/ Update(n, keys) \/ Delete(n)
  PROVE  \E change \in Changes :
           /\ Commit(n, change)
           /\ \/ /\ state = "absent" /\ state' = "live" /\ ~change.deleted
                 /\ loaded'[n] = TRUE /\ mem'[n] = NoValues
                 /\ \A m \in Managers \ {n} : loaded'[m] = loaded[m]
              \/ /\ ~change.created /\ loaded[n] = TRUE
                 /\ state' = (IF change.deleted THEN "deleted" ELSE state)
                 /\ UNCHANGED objectVars
<1>1. \A c, d \in BOOLEAN, ks \in SUBSET Keys :
        /\ Change(c, d, ks).created = c /\ Change(c, d, ks).deleted = d
        /\ Change(c, d, ks) \in Changes
  BY ChangeTypes DEF Change
<1>2. CASE Create(n, keys)
  <2>1. {Global} \cup TypesOf(keys) \in SUBSET Types
    BY ConstantsAssumption DEF TypesOf
  <2>2. Put(n, TRUE, FALSE, {Global} \cup TypesOf(keys), NoValues)
    BY <1>2 DEF Create
  <2>3. /\ loaded'[n] = TRUE /\ mem'[n] = NoValues
        /\ \A m \in Managers \ {n} : loaded'[m] = loaded[m]
    BY <2>1, <2>2, NoValuesType, TypeFacts, PutEffect
  <2>4. /\ Commit(n, Change(TRUE, FALSE, keys))
        /\ state = "absent" /\ state' = "live"
    BY <1>2 DEF Create
  <2> QED
    BY <1>1, <2>3, <2>4
<1>3. CASE Update(n, keys)
  <2>1. /\ Commit(n, Change(FALSE, FALSE, keys)) /\ loaded[n] = TRUE
        /\ UNCHANGED <<state, objectVars>>
    BY <1>3, TypeFacts DEF Update
  <2> QED
    BY <1>1, <2>1
<1>4. CASE Delete(n)
  <2>1. /\ Commit(n, Change(FALSE, TRUE, {})) /\ loaded[n] = TRUE
        /\ state' = "deleted" /\ UNCHANGED objectVars
    BY <1>4, TypeFacts DEF Delete
  <2>2. {} \in SUBSET Keys
    OBVIOUS
  <2> QED
    BY <1>1, <2>1, <2>2
<1> QED
  BY <1>2, <1>3, <1>4

\* The objects after a copy was sent: those of the other managers stay.
LEMMA EmitObjects ==
  ASSUME TypeOK, OutboxInv, NEW n \in Managers, NEW path \in Types,
         Emit(n, path)
  PROVE  \A m \in Managers \ {n} :
           /\ loaded'[m] = loaded[m] /\ foreign'[m] = foreign[m]
           /\ selected'[m] = selected[m] /\ mem'[m] = mem[m]
           /\ emittedSignals'[m] = emittedSignals[m]
<1>1. CASE outbox[n].paths = {path}
  <2>1. /\ outbox[n].store \in DOMAIN sent /\ outbox[n].store \in Stores
        /\ DoneChanges(n, outbox[n].store, foreign[n], selected[n], mem[n])
    BY <1>1, EmitEffect, TypeFacts
  <2>2. emittedSignals' = [emittedSignals EXCEPT ![n] =
                 @ \cup {[ts |-> outbox[n].store, mustProcess |-> FALSE]}]
    BY <1>1, EmitEffect
  <2>3. \A m \in Managers \ {n} :
          /\ loaded'[m] = loaded[m] /\ foreign'[m] = foreign[m]
          /\ selected'[m] = selected[m] /\ mem'[m] = mem[m]
    <3>1. /\ ObjectTypes /\ sent \in Seq(Changes) /\ foreign[n] \in BOOLEAN
          /\ selected[n] \in SUBSET Types /\ mem[n] \in Values
      BY TypeFacts
    <3> QED
      BY <2>1, <3>1, DoneEffect
  <2>4. \A m \in Managers \ {n} : emittedSignals'[m] = emittedSignals[m]
    BY <2>2 DEF TypeOK
  <2> QED
    BY <2>3, <2>4
<1>2. CASE outbox[n].paths # {path}
  BY <1>2, EmitEffect DEF objectVars
<1> QED
  BY <1>1, <1>2

LEMMA LifeStep == TypeOK /\ SignalInv /\ LifeInv /\ [Next]_vars => LifeInv'
<1> SUFFICES ASSUME TypeOK, SignalInv, LifeInv, [Next]_vars PROVE LifeInv'
  OBVIOUS
<1>1. ASSUME UNCHANGED vars PROVE LifeInv'
  BY <1>1 DEF vars, dbVars, busVars, objectVars, LifeInv, Ready
<1>2. ASSUME NEW n \in Managers,
             Load(n) \/ Release(n) \/ \E t \in Types : Select(n, t)
      PROVE  LifeInv'
  <2>1. /\ UNCHANGED <<state, db, sent, outbox>> /\ Ready(n)
        /\ loaded'[n] = TRUE => loaded[n] = TRUE \/ state = "live"
        /\ \A m \in Managers \ {n} : loaded'[m] = loaded[m]
    BY <1>2, QuietEffect DEF SignalVars, dbVars, busVars
  <2>2. \A m \in Managers : loaded'[m] \in BOOLEAN
    BY StepTypes, TypeFacts DEF TypeOK
  <2> QED
    BY <2>1, <2>2 DEF LifeInv, Ready
<1>3. ASSUME NEW n \in Managers, NEW keys \in SUBSET Keys,
             Create(n, keys) \/ Update(n, keys) \/ Delete(n)
      PROVE  LifeInv'
  <2>1. PICK change \in Changes :
           /\ Commit(n, change)
           /\ \/ /\ state = "absent" /\ state' = "live" /\ ~change.deleted
                 /\ loaded'[n] = TRUE /\ mem'[n] = NoValues
                 /\ \A m \in Managers \ {n} : loaded'[m] = loaded[m]
              \/ /\ ~change.created /\ loaded[n] = TRUE
                 /\ state' = (IF change.deleted THEN "deleted" ELSE state)
                 /\ UNCHANGED objectVars
    BY <1>3, StoreEffect
  <2>2. PICK s : s = Len(sent) + 1
    OBVIOUS
  <2>3. /\ DOMAIN sent' = DOMAIN sent \cup {s} /\ sent'[s] = change
        /\ \A x \in DOMAIN sent : sent'[x] = sent[x]
        /\ s \notin DOMAIN sent
        /\ \A q \in Managers \ {n} : outbox'[q] = outbox[q]
    <3>1. s \notin DOMAIN sent
      BY <2>2, TypeFacts
    <3> QED
      BY <2>1, <2>2, <3>1, CommitEffect
  <2>4. \A q \in Managers \ {n} : Ready(q)' <=> Ready(q)
    BY <2>3 DEF Ready
  <2>5. CASE /\ state = "absent" /\ state' = "live" /\ ~change.deleted
             /\ loaded'[n] = TRUE
             /\ \A m \in Managers \ {n} : loaded'[m] = loaded[m]
    <3>1. DOMAIN sent = {} /\ s = 1
      <4>1. sent = <<>>
        BY <2>5 DEF LifeInv
      <4> QED
        BY <2>2, <4>1
    <3> QED
      BY <2>3, <2>4, <2>5, <3>1 DEF LifeInv
  <2>6. CASE /\ ~change.created /\ loaded[n] = TRUE
             /\ state' = (IF change.deleted THEN "deleted" ELSE state)
             /\ UNCHANGED objectVars
    <3>1. state # "absent" /\ state' # "absent" /\ UNCHANGED loaded
      BY <2>6 DEF LifeInv, objectVars
    <3>2. (\E d \in DOMAIN sent' : sent'[d].deleted) <=> state' = "deleted"
      BY <2>3, <2>6 DEF LifeInv
    <3>3. \A x \in DOMAIN sent' :
            sent'[x].created => x = 1 /\ ~sent'[x].deleted
      BY <2>3, <2>6 DEF LifeInv
    <3>4. \A m \in Managers : ~Ready(m)' => loaded'[m]
      BY <2>4, <2>6, <3>1 DEF LifeInv
    <3> QED
      BY <3>1, <3>2, <3>3, <3>4 DEF LifeInv
  <2> QED
    BY <2>1, <2>5, <2>6
<1>4. ASSUME UNCHANGED <<state, db, sent>>, state # "absent",
             \A m \in Managers : ~Ready(m)' => loaded'[m]
      PROVE  LifeInv'
  BY <1>4 DEF LifeInv
<1>5. ASSUME NEW n \in Managers, NEW path \in Types, Emit(n, path)
      PROVE  LifeInv'
  <2>1. OutboxInv
    BY DEF SignalInv
  <2>2. ~Ready(n) /\ outbox[n].store \in DOMAIN sent
        /\ UNCHANGED <<state, db, sent>>
    BY <1>5, <2>1, EmitEffect DEF dbVars
  <2>3. state # "absent"
    BY <2>2 DEF LifeInv
  <2>4. \A m \in Managers \ {n} : loaded'[m] = loaded[m]
                                  /\ (Ready(m)' <=> Ready(m))
    BY <1>5, <2>1, EmitObjects, EmitEffect DEF Ready
  <2>5. ~Ready(n)' => loaded'[n]
    <3>1. CASE outbox[n].paths = {path}
      BY <1>5, <2>1, <3>1, EmitEffect DEF Ready
    <3>2. CASE outbox[n].paths # {path}
      BY <1>5, <2>1, <2>2, <3>2, EmitEffect DEF LifeInv, objectVars
    <3> QED
      BY <3>1, <3>2
  <2> QED
    BY <1>4, <2>2, <2>3, <2>4, <2>5 DEF LifeInv
<1>6. ASSUME NEW n \in Managers, NEW ts \in Stores,
             Duplicate(n, ts) \/ SkipOwn(n, ts) \/ Process(n, ts)
      PROVE  LifeInv'
  <2>1. ts \in DOMAIN sent /\ Arrives(n, ts)
    BY <1>6, HandleEffect
  <2>2. UNCHANGED <<state, db, sent, outbox>> /\ Ready(n)
    BY <2>1 DEF Arrives, dbVars
  <2>3. state # "absent"
    BY <2>1 DEF LifeInv
  <2>4. \A m \in Managers \ {n} : loaded'[m] = loaded[m]
    BY <1>6, <2>1, ProcessEffect DEF Duplicate, SkipOwn, objectVars
  <2> QED
    BY <1>4, <2>2, <2>3, <2>4 DEF LifeInv, Ready
<1> QED
  BY <1>1, <1>2, <1>3, <1>5, <1>6 DEF Next, Client, Work, Receive

\* What the changes of a signal leave of the object that was in the hash.
LEMMA DoneToObject ==
  ASSUME TypeOK, NEW m \in Managers, NEW s \in DOMAIN sent,
         DoneChanges(m, s, foreign[m], selected[m], mem[m])
  PROVE  /\ loaded'[m] = ~sent[s].deleted
         /\ ~sent[s].deleted =>
              /\ foreign'[m] = foreign[m]
              /\ selected'[m] = Known(sent[s], foreign[m], selected[m])
              /\ mem'[m] = Overlay(mem[m], sent[s], s, selected'[m])
<1>1. /\ ObjectTypes /\ sent \in Seq(Changes) /\ foreign[m] \in BOOLEAN
      /\ selected[m] \in SUBSET Types /\ mem[m] \in Values /\ s \in Stores
  BY TypeFacts
<1> QED
  BY <1>1, DoneEffect

LEMMA EmitDone ==
  ASSUME TypeOK, SignalInv, NEW m \in Managers, NEW path \in Types,
         Emit(m, path), outbox[m].paths = {path}
  PROVE  /\ outbox[m].store \in DOMAIN sent
         /\ DoneChanges(m, outbox[m].store, foreign[m], selected[m], mem[m])
BY EmitEffect DEF SignalInv

\* An unmarked signal on the list of a manager was there before, or is the
\* one that the manager has just sent; nothing else was processed.
LEMMA UnmarkedOwn ==
  ASSUME TypeOK, SignalInv, [Next]_vars, NEW m \in Managers, NEW s,
         [ts |-> s, mustProcess |-> FALSE] \in emittedSignals'[m]
  PROVE  /\ \A ts \in Stores : ~Process(m, ts)
         /\ \/ [ts |-> s, mustProcess |-> FALSE] \in emittedSignals[m]
            \/ \E path \in Types : /\ Emit(m, path)
                                   /\ outbox[m].paths = {path}
                                   /\ outbox[m].store = s
<1> DEFINE e == [ts |-> s, mustProcess |-> FALSE]
<1>1. ASSUME NEW ts \in Stores, Process(m, ts) PROVE FALSE
  <2>1. MarkPending(m, ts)
    BY <1>1 DEF Process
  <2>2. e.mustProcess = TRUE
    BY <2>1, Marked
  <2> QED
    BY <2>2
<1>2. ASSUME UNCHANGED emittedSignals PROVE e \in emittedSignals[m]
  BY <1>2
<1>3. ASSUME NEW n \in Managers, NEW change \in Changes, Commit(n, change)
      PROVE  UNCHANGED emittedSignals
  BY <1>3 DEF Commit, signalVars
<1>4. ASSUME NEW n \in Managers, NEW path \in Types, Emit(n, path)
      PROVE  \/ e \in emittedSignals[m]
             \/ n = m /\ outbox[m].paths = {path} /\ outbox[m].store = s
  <2>1. OutboxInv
    BY DEF SignalInv
  <2>2. CASE n # m
    BY <1>4, <2>1, <2>2, EmitObjects
  <2>3. CASE n = m /\ outbox[m].paths # {path}
    BY <1>4, <2>1, <2>3, EmitEffect
  <2>4. CASE n = m /\ outbox[m].paths = {path}
    <3> DEFINE f == [ts |-> outbox[m].store, mustProcess |-> FALSE]
    <3>1. emittedSignals' = [emittedSignals EXCEPT ![m] = @ \cup {f}]
      BY <1>4, <2>1, <2>4, EmitEffect
    <3>2. e \in emittedSignals[m] \/ e = f
      <4> HIDE DEF e, f
      <4> QED
        BY <3>1 DEF TypeOK, e
    <3>3. e = f => e.ts = f.ts
      OBVIOUS
    <3> QED
      BY <2>4, <3>2, <3>3
  <2> QED
    BY <2>2, <2>3, <2>4
<1>5. ASSUME NEW n \in Managers, NEW ts \in Stores,
             Duplicate(n, ts) \/ SkipOwn(n, ts) \/ Process(n, ts)
      PROVE  e \in emittedSignals[m]
  <2>1. CASE n # m
    <3>1. emittedSignals'[m] = emittedSignals[m]
      BY <1>5, <2>1, HandleEffect
    <3> QED
      BY <3>1
  <2>2. CASE n = m /\ Duplicate(m, ts)
    BY <2>2 DEF Duplicate, signalVars
  <2>3. CASE n = m /\ SkipOwn(m, ts)
    BY <2>3, SkipEffect
  <2> QED
    BY <1>1, <1>5, <2>1, <2>2, <2>3
<1> QED
  BY <1>1, <1>2, <1>3, <1>4, <1>5, Kinds DEF SignalVars, signalVars

\* Once the row is deleted, a manager puts the account in its hash only when
\* it processes the signal of the creation.
LEMMA OnlyRevivals ==
  ASSUME TypeOK, SignalInv, LifeInv, [Next]_vars, state = "deleted",
         NEW m \in Managers, ~loaded[m]
  PROVE  \/ ~loaded'[m]
         \/ \E ts \in DOMAIN sent : /\ Process(m, ts)
                                    /\ sent[ts].created
                                    /\ ~sent[ts].deleted
<1>1. ASSUME UNCHANGED vars PROVE ~loaded'[m]
  BY <1>1 DEF vars, objectVars
<1>2. ASSUME NEW n \in Managers,
             Load(n) \/ Release(n) \/ \E t \in Types : Select(n, t)
      PROVE  ~loaded'[m]
  <2>1. /\ loaded'[n] = TRUE => loaded[n] = TRUE
        /\ n # m => loaded'[m] = loaded[m]
    BY <1>2, QuietEffect
  <2>2. loaded'[m] \in BOOLEAN
    BY StepTypes, TypeFacts DEF TypeOK
  <2> QED
    BY <2>1, <2>2
<1>3. ASSUME NEW n \in Managers, NEW keys \in SUBSET Keys,
             Create(n, keys) \/ Update(n, keys) \/ Delete(n)
      PROVE  ~loaded'[m]
  <2>1. \E change \in Changes : UNCHANGED objectVars
    BY <1>3, StoreEffect
  <2> QED
    BY <2>1 DEF objectVars
<1>4. ASSUME NEW n \in Managers, NEW path \in Types, Emit(n, path)
      PROVE  ~loaded'[m]
  <2>1. OutboxInv
    BY DEF SignalInv
  <2>2. ~Ready(n)
    BY <1>4, <2>1, EmitEffect
  <2>3. n # m
    BY <2>2 DEF LifeInv
  <2> QED
    BY <1>4, <2>1, <2>3, EmitObjects
<1>5. ASSUME NEW n \in Managers, NEW ts \in Stores,
             Duplicate(n, ts) \/ SkipOwn(n, ts)
      PROVE  ~loaded'[m]
  BY <1>5 DEF Duplicate, SkipOwn, objectVars
<1>6. ASSUME NEW n \in Managers, NEW ts \in Stores, Process(n, ts)
      PROVE  \/ ~loaded'[m]
             \/ n = m /\ ts \in DOMAIN sent
                /\ sent[ts].created /\ ~sent[ts].deleted
  <2>1. ts \in DOMAIN sent
    BY <1>6, HandleEffect
  <2>2. CASE n # m
    BY <1>6, <2>1, <2>2, ProcessEffect
  <2>3. CASE n = m
    <3>1. \/ DoneChanges(m, ts, sent[ts].created, {}, NoValues)
             /\ (sent[ts].created \/ sent[ts].deleted)
          \/ UNCHANGED objectVars
      BY <1>6, <2>1, <2>3, ProcessEffect
    <3>2. CASE UNCHANGED objectVars
      BY <3>2 DEF objectVars
    <3>3. CASE /\ DoneChanges(m, ts, sent[ts].created, {}, NoValues)
               /\ sent[ts].created \/ sent[ts].deleted
      <4>1. /\ ObjectTypes /\ sent \in Seq(Changes) /\ ts \in Stores
            /\ sent[ts].created \in BOOLEAN /\ {} \in SUBSET Types
            /\ NoValues \in Values
        BY <2>1, TypeFacts, NoValuesType DEF Changes
      <4>2. loaded'[m] = ~sent[ts].deleted
        BY <2>1, <3>3, <4>1, DoneEffect
      <4> QED
        BY <2>1, <2>3, <3>3, <4>2
    <3> QED
      BY <3>1, <3>2, <3>3
  <2> QED
    BY <2>2, <2>3
<1> QED
  BY <1>1, <1>2, <1>3, <1>4, <1>5, <1>6 DEF Next, Client, Work, Receive

\* A manager that has the account in its hash will get the signal of its
\* deletion, and has not sent it itself.
DroppedInv ==
  \A m \in Managers, d \in DOMAIN sent : sent[d].deleted =>
    /\ Coming(m, d, Global) \/ ~loaded[m]
    /\ [ts |-> d, mustProcess |-> FALSE] \in emittedSignals[m] => ~loaded[m]

LEMMA DroppedStep ==
  ASSUME TypeOK, SignalInv, DeliveredInv, LifeInv, DroppedInv, [Next]_vars
  PROVE  DroppedInv'
<1>1. ASSUME NEW m \in Managers, NEW d \in DOMAIN sent, sent[d].deleted
      PROVE  Coming(m, d, Global)' \/ ~loaded'[m]
  <2>1. /\ state = "deleted" /\ d \in Stores /\ ~sent[d].created
        /\ Global \in Paths(sent[d]) \cap Listens[m]
    BY <1>1, TypeFacts, ConstantsAssumption DEF LifeInv, Paths
  <2>2. CASE Coming(m, d, Global)
    <3>1. CASE SkipOwn(m, d)
      <4> DEFINE e == [ts |-> d, mustProcess |-> FALSE]
      <4>1. e \in emittedSignals[m]
        BY <3>1, SkipEffect
      <4>2. ~loaded[m]
        BY <1>1, <4>1 DEF DroppedInv
      <4> QED
        BY <3>1, <4>2 DEF SkipOwn, objectVars
    <3>2. CASE Process(m, d)
      <4>1. /\ ObjectTypes /\ sent \in Seq(Changes) /\ foreign[m] \in BOOLEAN
            /\ selected[m] \in SUBSET Types /\ mem[m] \in Values
            /\ sent[d].created \in BOOLEAN /\ {} \in SUBSET Types
            /\ NoValues \in Values
        BY TypeFacts, NoValuesType DEF Changes
      <4>2. \/ DoneChanges(m, d, foreign[m], selected[m], mem[m])
            \/ DoneChanges(m, d, sent[d].created, {}, NoValues)
            \/ UNCHANGED objectVars /\ ~loaded[m]
        BY <3>2, ProcessEffect
      <4>3. CASE UNCHANGED objectVars /\ ~loaded[m]
        BY <4>3 DEF objectVars
      <4>4. CASE \/ DoneChanges(m, d, foreign[m], selected[m], mem[m])
                 \/ DoneChanges(m, d, sent[d].created, {}, NoValues)
        <5>1. loaded'[m] = ~sent[d].deleted
          BY <2>1, <4>1, <4>4, DoneEffect
        <5> QED
          BY <1>1, <5>1
      <4> QED
        BY <4>2, <4>3, <4>4
    <3> QED
      BY <2>1, <2>2, <3>1, <3>2, ComingStays
  <2>3. CASE ~Coming(m, d, Global)
    <3>1. ~loaded[m] /\ AtLeast(inbox[m], d)
      BY <1>1, <2>1, <2>3 DEF DroppedInv, DeliveredInv
    <3>2. ASSUME NEW ts \in DOMAIN sent, Process(m, ts), sent[ts].created
          PROVE  FALSE
      <4>1. ts = 1
        BY <3>2 DEF LifeInv
      <4>2. Arrives(m, ts)
        BY <3>2 DEF Process
      <4>3. d <= ts
        BY <3>1, <4>2, ArriveEffect
      <4>4. d = 1
        BY <2>1, <4>1, <4>3 DEF Stores
      <4> QED
        BY <2>1, <3>2, <4>1, <4>4
    <3> QED
      BY <2>1, <3>1, <3>2, OnlyRevivals
  <2> QED
    BY <2>2, <2>3
<1>2. ASSUME NEW m \in Managers, NEW d \in DOMAIN sent, sent[d].deleted,
             [ts |-> d, mustProcess |-> FALSE] \in emittedSignals'[m]
      PROVE  ~loaded'[m]
  <2>1. state = "deleted"
    BY <1>2 DEF LifeInv
  <2>2. /\ \A ts \in Stores : ~Process(m, ts)
        /\ \/ [ts |-> d, mustProcess |-> FALSE] \in emittedSignals[m]
           \/ \E path \in Types : /\ Emit(m, path)
                                  /\ outbox[m].paths = {path}
                                  /\ outbox[m].store = d
    BY <1>2, UnmarkedOwn
  <2>3. CASE [ts |-> d, mustProcess |-> FALSE] \in emittedSignals[m]
    <3>1. ~loaded[m]
      BY <1>2, <2>3 DEF DroppedInv
    <3> QED
      BY <2>1, <2>2, <3>1, OnlyRevivals, TypeFacts
  <2>4. ASSUME NEW path \in Types, Emit(m, path), outbox[m].paths = {path},
               outbox[m].store = d
        PROVE  ~loaded'[m]
    <3>1. loaded'[m] = ~sent[d].deleted
      BY <2>4, EmitDone, DoneToObject
    <3> QED
      BY <1>2, <3>1
  <2> QED
    BY <2>2, <2>3, <2>4
<1>3. ASSUME NEW n \in Managers, NEW change \in Changes, Commit(n, change)
      PROVE  DroppedInv'
  <2>1. PICK s : s = Len(sent) + 1
    OBVIOUS
  <2>2. /\ DOMAIN sent' = DOMAIN sent \cup {s} /\ sent'[s] = change
        /\ \A x \in DOMAIN sent : sent'[x] = sent[x]
        /\ UNCHANGED emittedSignals
    BY <1>3, <2>1, CommitEffect DEF signalVars
  <2>3. ASSUME NEW m \in Managers, sent'[s].deleted
        PROVE  Coming(m, s, Global)'
    <3>1. Global \in Paths(change)
      BY <2>2, <2>3 DEF Paths
    <3> QED
      BY <1>3, <2>1, <3>1, CommitComing
  <2>4. ASSUME NEW m \in Managers,
               [ts |-> s, mustProcess |-> FALSE] \in emittedSignals[m]
        PROVE  FALSE
    <3> DEFINE e == [ts |-> s, mustProcess |-> FALSE]
    <3>1. e.ts \in DOMAIN sent
      BY <2>4 DEF SignalInv, OwnInv
    <3> QED
      BY <2>1, <3>1, TypeFacts
  <2>5. ASSUME NEW m \in Managers, NEW d \in DOMAIN sent', sent'[d].deleted
        PROVE  /\ Coming(m, d, Global)' \/ ~loaded'[m]
               /\ [ts |-> d, mustProcess |-> FALSE] \in emittedSignals'[m]
                    => ~loaded'[m]
    <3>1. CASE d = s
      BY <2>2, <2>3, <2>4, <2>5, <3>1
    <3>2. CASE d # s
      <4>1. d \in DOMAIN sent /\ sent[d].deleted
        BY <2>2, <2>5, <3>2
      <4> QED
        BY <1>1, <1>2, <4>1
    <3> QED
      BY <3>1, <3>2
  <2> QED
    BY <2>5 DEF DroppedInv
<1>4. ASSUME UNCHANGED sent PROVE DroppedInv'
  BY <1>1, <1>2, <1>4 DEF DroppedInv
<1>5. ASSUME NEW n \in Managers, NEW path \in Types, Emit(n, path)
      PROVE  UNCHANGED sent
  BY <1>5 DEF Emit, dbVars
<1>6. ASSUME NEW n \in Managers, NEW ts \in Stores,
             Duplicate(n, ts) \/ SkipOwn(n, ts) \/ Process(n, ts)
      PROVE  UNCHANGED sent
  BY <1>6 DEF Duplicate, SkipOwn, Process, Arrives, dbVars
<1> QED
  BY <1>3, <1>4, <1>5, <1>6, Kinds DEF SignalVars

OrderlyInv == /\ SignalsAreRight
              /\ OrderInv /\ DeliveredInv
              /\ LifeInv /\ DroppedInv

LEMMA OrderlyStays ==
  ASSUME NotOvertaken
  PROVE  /\ Init => OrderlyInv
         /\ OrderlyInv /\ [Next]_vars => OrderlyInv'
<1>1. Init => DeliveredInv /\ DroppedInv
  <2> SUFFICES ASSUME Init PROVE DeliveredInv /\ DroppedInv
    OBVIOUS
  <2>1. sent = <<>> /\ DOMAIN sent = {}
    BY DEF Init
  <2> QED
    BY <2>1 DEF DeliveredInv, DroppedInv
<1>2. OrderlyInv /\ [Next]_vars =>
        OrderInv' /\ DeliveredInv' /\ LifeInv' /\ DroppedInv'
  <2> SUFFICES ASSUME TypeOK, SignalInv, OrderInv, DeliveredInv, LifeInv,
                      DroppedInv, [Next]_vars
               PROVE  OrderInv' /\ DeliveredInv' /\ LifeInv' /\ DroppedInv'
    BY DEF OrderlyInv, SignalsAreRight
  <2> QED
    BY OrderStep, DeliveredStep, LifeStep, DroppedStep
<1> QED
  BY <1>1, <1>2, SignalsStayRight, OrderInit, LifeInit DEF OrderlyInv

LEMMA OrderlyDrops == OrderlyInv => DeletedAreDropped
<1> SUFFICES ASSUME OrderlyInv, NEW m \in Managers, AtRest(m), loaded[m]
             PROVE  state = "live"
  BY DEF DeletedAreDropped
<1>1. state # "absent" /\ TypeOK
  BY DEF OrderlyInv, LifeInv, SignalsAreRight
<1>2. ASSUME state = "deleted" PROVE FALSE
  <2>1. PICK d \in DOMAIN sent : sent[d].deleted
    BY <1>2 DEF OrderlyInv, LifeInv
  <2>2. inbox[m] = <<>> /\ \A n \in Managers : outbox[n].paths = {}
    BY IdleOutbox DEF AtRest
  <2>3. ~Coming(m, d, Global)
    BY <2>2 DEF Coming, In
  <2> QED
    BY <2>1, <2>3 DEF OrderlyInv, DroppedInv
<1> QED
  BY <1>1, <1>2 DEF TypeOK

\* A manager that has handled all signals does not have a deleted account in
\* its hash, not even one that it has only heard of by signals.
THEOREM DeletionsReachEveryHash ==
  ASSUME NotOvertaken PROVE Spec => []DeletedAreDropped
<1>1. Init => OrderlyInv
  BY OrderlyStays
<1>2. OrderlyInv /\ [Next]_vars => OrderlyInv'
  BY OrderlyStays
<1> QED
  BY <1>1, <1>2, OrderlyDrops, PTL DEF Spec
-----------------------------------------------------------------------------
(* The settings.                                                           *)

\* As long as the row exists, a setting has the value of the last store that
\* set it.
DbInv ==
  state # "deleted" => \A k \in Keys :
    /\ \A s \in DOMAIN sent : k \in sent[s].keys => s <= db[k]
    /\ db[k] # 0 => db[k] \in DOMAIN sent /\ k \in sent[db[k]].keys

LEMMA DbTypes ==
  ASSUME TypeOK
  PROVE  \A k \in Keys : /\ db[k] \in 0..MaxStores
                         /\ TypeOf[k] \in Types
BY ConstantsAssumption DEF TypeOK, Values

LEMMA DbCommit ==
  ASSUME TypeOK, NEW m \in Managers, NEW change \in Changes,
         Commit(m, change), ~change.deleted
  PROVE  \A k \in Keys : db'[k] = IF k \in change.keys THEN Len(sent) + 1
                                  ELSE db[k]
BY DEF Commit

\* The steps other than stores leave the database alone.
LEMMA DbStays ==
  ASSUME TypeOK, SignalInv, [Next]_vars,
         \A n \in Managers, keys \in SUBSET Keys :
           ~Create(n, keys) /\ ~Update(n, keys) /\ ~Delete(n)
  PROVE  UNCHANGED dbVars
<1>1. ASSUME UNCHANGED vars PROVE UNCHANGED dbVars
  BY <1>1 DEF vars, dbVars
<1>2. ASSUME NEW n \in Managers, NEW path \in Types, Emit(n, path)
      PROVE  UNCHANGED dbVars
  BY <1>2 DEF Emit
<1>3. ASSUME NEW n \in Managers, NEW ts \in Stores,
             Duplicate(n, ts) \/ SkipOwn(n, ts) \/ Process(n, ts)
      PROVE  UNCHANGED dbVars
  BY <1>3 DEF Duplicate, SkipOwn, Process, Arrives
<1>4. {} \in SUBSET Keys
  OBVIOUS
<1> QED
  BY <1>1, <1>2, <1>3, <1>4, QuietEffect DEF Next, Client, Work, Receive

LEMMA DbStep ==
  ASSUME TypeOK, SignalInv, LifeInv, DbInv, [Next]_vars PROVE DbInv'
<1>1. ASSUME UNCHANGED dbVars PROVE DbInv'
  BY <1>1 DEF dbVars, DbInv
<1>2. ASSUME NEW n \in Managers, NEW keys \in SUBSET Keys,
             Create(n, keys) \/ Update(n, keys) \/ Delete(n),
             state' # "deleted"
      PROVE  DbInv'
  <2>1. PICK change \in Changes :
           /\ Commit(n, change) /\ ~change.deleted /\ state # "deleted"
    <3>1. PICK change \in Changes :
            /\ Commit(n, change)
            /\ \/ state = "absent" /\ ~change.deleted
               \/ state' = (IF change.deleted THEN "deleted" ELSE state)
      BY <1>2, StoreEffect
    <3> QED
      BY <1>2, <3>1
  <2>2. PICK s : s = Len(sent) + 1
    OBVIOUS
  <2>3. /\ DOMAIN sent' = DOMAIN sent \cup {s} /\ sent'[s] = change
        /\ \A x \in DOMAIN sent : sent'[x] = sent[x]
        /\ s \in Stores /\ s \notin DOMAIN sent /\ DOMAIN sent = 1..Len(sent)
        /\ Len(sent) \in Nat
    <3>1. /\ s \notin DOMAIN sent /\ DOMAIN sent = 1..Len(sent)
          /\ Len(sent) \in Nat
      BY <2>2, TypeFacts
    <3> QED
      BY <2>1, <2>2, <3>1, CommitEffect
  <2> SUFFICES ASSUME NEW k \in Keys
               PROVE  /\ \A x \in DOMAIN sent' :
                           k \in sent'[x].keys => x <= db'[k]
                      /\ db'[k] # 0 => /\ db'[k] \in DOMAIN sent'
                                       /\ k \in sent'[db'[k]].keys
    BY DEF DbInv
  <2>4. /\ \A x \in DOMAIN sent : k \in sent[x].keys => x <= db[k]
        /\ db[k] # 0 => db[k] \in DOMAIN sent /\ k \in sent[db[k]].keys
    BY <2>1 DEF DbInv
  <2>5. CASE k \in change.keys
    <3>1. db'[k] = s
      BY <2>1, <2>2, <2>5, DbCommit
    <3>2. \A x \in DOMAIN sent' : x <= s
      BY <2>2, <2>3
    <3> QED
      BY <2>3, <2>5, <3>1, <3>2
  <2>6. CASE k \notin change.keys
    <3>1. db'[k] = db[k]
      BY <2>1, <2>6, DbCommit
    <3> QED
      BY <2>3, <2>4, <2>6, <3>1
  <2> QED
    BY <2>5, <2>6
<1>3. ASSUME state' = "deleted" PROVE DbInv'
  BY <1>3 DEF DbInv
<1> QED
  BY <1>1, <1>2, <1>3, DbStays

\* A setting whose changes the manager listens to and applies.
Follows(m, k) == /\ loaded[m]
                 /\ TypeOf[k] \in Listens[m]
                 /\ foreign[m] \/ TypeOf[k] \in selected[m]

\* The manager has the value w, or the signal of the store with that value is
\* coming; a store of its own that is not marked has not been overwritten.
Current(m, k, w) ==
  /\ mem[m][k] = w \/ Coming(m, w, TypeOf[k])
  /\ [ts |-> w, mustProcess |-> FALSE] \in emittedSignals[m] => mem[m][k] = w

CacheInv ==
  state = "live" => \A m \in Managers, k \in Keys :
    Follows(m, k) => \A w \in {db[k]} : Current(m, k, w)

LEMMA CacheQuiet ==
  ASSUME TypeOK, CacheInv, state = "live", NEW n \in Managers,
         Load(n) \/ Release(n) \/ \E t \in Types : Select(n, t),
         NEW m \in Managers, NEW k \in Keys, Follows(m, k)',
         NEW w, w = db[k]
  PROVE  Current(m, k, w)'
<1>1. UNCHANGED SignalVars
  BY QuietEffect
<1>2. ASSUME Follows(m, k), mem'[m][k] = mem[m][k] PROVE Current(m, k, w)'
  <2>1. Current(m, k, w)
    BY <1>2 DEF CacheInv
  <2>2. Coming(m, w, TypeOf[k]) => Coming(m, w, TypeOf[k])'
    BY <1>1, ComingIdle
  <2>3. emittedSignals' = emittedSignals
    BY <1>1 DEF SignalVars, signalVars
  <2> QED
    BY <1>2, <2>1, <2>2, <2>3 DEF Current
<1>3. ASSUME mem'[m][k] = w PROVE Current(m, k, w)'
  BY <1>3 DEF Current
<1>4. CASE m # n
  <2>1. /\ loaded'[m] = loaded[m] /\ foreign'[m] = foreign[m]
        /\ selected'[m] = selected[m] /\ mem'[m] = mem[m]
    BY <1>4, QuietEffect
  <2>2. Follows(m, k)
    BY <2>1 DEF Follows
  <2> QED
    BY <1>2, <2>1, <2>2
<1>5. /\ ObjectTypes /\ NoValues \in Values /\ {Global} \in SUBSET Types
      /\ {} \in SUBSET Types /\ mem[m] \in Values /\ foreign[m] \in BOOLEAN
      /\ loaded[m] \in BOOLEAN
  BY ConstantsAssumption, TypeFacts, NoValuesType
<1>6. CASE m = n /\ Load(n)
  <2>1. Read(NoValues, {Global}) \in Values
    BY <1>5, ReadTypes
  <2>2. Put(m, TRUE, FALSE, {Global}, Read(NoValues, {Global}))
    BY <1>6 DEF Load
  <2>3. /\ foreign'[m] = FALSE /\ selected'[m] = {Global}
        /\ mem'[m] = Read(NoValues, {Global})
    BY <1>5, <2>1, <2>2, PutEffect
  <2>4. TypeOf[k] = Global
    BY <2>3 DEF Follows
  <2> QED
    BY <1>3, <2>3, <2>4 DEF Read
<1>7. CASE m = n /\ Release(n)
  <2>1. Put(m, FALSE, FALSE, {}, NoValues)
    BY <1>7 DEF Release
  <2>2. loaded'[m] = FALSE
    BY <1>5, <2>1, PutEffect
  <2> QED
    BY <2>2 DEF Follows
<1>8. ASSUME m = n, NEW t \in Types, Select(n, t)
      PROVE  Current(m, k, w)'
  <2>1. /\ Read(mem[m], {t}) \in Values
        /\ selected[m] \cup {t} \in SUBSET Types
    BY <1>5, ReadTypes, TypeFacts
  <2>2. Put(m, TRUE, foreign[m], selected[m] \cup {t}, Read(mem[m], {t}))
    BY <1>8 DEF Select
  <2>3. /\ foreign'[m] = foreign[m]
        /\ selected'[m] = selected[m] \cup {t}
        /\ mem'[m] = Read(mem[m], {t})
    <3> DEFINE sel  == selected[m] \cup {t}
               vals == Read(mem[m], {t})
    <3>1. sel \in SUBSET Types /\ vals \in Values
      BY <2>1
    <3>2. Put(m, TRUE, foreign[m], sel, vals)
      BY <2>2
    <3> HIDE DEF sel, vals
    <3>3. foreign'[m] = foreign[m]
      BY <1>5, <3>2, Zenon DEF Put, ObjectTypes
    <3>4. selected'[m] = sel /\ mem'[m] = vals
      BY <1>5, <3>2 DEF Put, ObjectTypes
    <3> QED
      BY <3>3, <3>4 DEF sel, vals
  <2>4. CASE TypeOf[k] = t
    BY <1>3, <2>3, <2>4 DEF Read
  <2>5. CASE TypeOf[k] # t
    <3>1. Follows(m, k)
      BY <1>8, <2>3, <2>5 DEF Follows, Select
    <3>2. mem'[m][k] = mem[m][k]
      BY <2>3, <2>5 DEF Read
    <3> QED
      BY <1>2, <3>1, <3>2
  <2> QED
    BY <2>4, <2>5
<1> QED
  BY <1>4, <1>6, <1>7, <1>8

LEMMA CacheStore ==
  ASSUME TypeOK, SignalInv, LifeInv, CacheInv, NEW n \in Managers,
         NEW keys \in SUBSET Keys,
         Create(n, keys) \/ Update(n, keys) \/ Delete(n), state' = "live",
         NEW m \in Managers, NEW k \in Keys, Follows(m, k)',
         NEW w, w = db'[k]
  PROVE  Current(m, k, w)'
<1>1. PICK change \in Changes :
           /\ Commit(n, change) /\ ~change.deleted
           /\ \/ /\ state = "absent"
                 /\ loaded'[n] = TRUE /\ mem'[n] = NoValues
                 /\ \A q \in Managers \ {n} : loaded'[q] = loaded[q]
              \/ state = "live" /\ UNCHANGED objectVars
  <2>1. PICK change \in Changes :
           /\ Commit(n, change)
           /\ \/ /\ state = "absent" /\ state' = "live" /\ ~change.deleted
                 /\ loaded'[n] = TRUE /\ mem'[n] = NoValues
                 /\ \A q \in Managers \ {n} : loaded'[q] = loaded[q]
              \/ /\ ~change.created /\ loaded[n] = TRUE
                 /\ state' = (IF change.deleted THEN "deleted" ELSE state)
                 /\ UNCHANGED objectVars
    BY StoreEffect
  <2> QED
    BY <2>1
<1>2. UNCHANGED emittedSignals
  BY <1>1 DEF Commit, signalVars
<1>3. CASE k \in change.keys
  <2>1. w = Len(sent) + 1
    BY <1>1, <1>3, DbCommit
  <2>2. TypeOf[k] \in Paths(change)
    BY <1>3 DEF Paths, TypesOf
  <2>3. Coming(m, w, TypeOf[k])'
    BY <1>1, <2>1, <2>2, CommitComing
  <2>4. ASSUME [ts |-> w, mustProcess |-> FALSE] \in emittedSignals[m]
        PROVE  FALSE
    <3> DEFINE e == [ts |-> w, mustProcess |-> FALSE]
    <3>1. e.ts \in DOMAIN sent
      BY <2>4 DEF SignalInv, OwnInv
    <3> QED
      BY <2>1, <3>1, TypeFacts
  <2> QED
    BY <1>2, <2>3, <2>4 DEF Current
<1>4. CASE k \notin change.keys
  <2>1. w = db[k]
    BY <1>1, <1>4, DbCommit
  <2>2. CASE state = "live" /\ UNCHANGED objectVars
    <3>1. Follows(m, k) /\ mem'[m][k] = mem[m][k]
      BY <2>2 DEF Follows, objectVars
    <3>2. Current(m, k, w)
      BY <2>1, <2>2, <3>1 DEF CacheInv
    <3>3. Coming(m, w, TypeOf[k]) => Coming(m, w, TypeOf[k])'
      BY <1>1, ComingCommit
    <3> QED
      BY <1>2, <3>1, <3>2, <3>3 DEF Current
  <2>3. CASE /\ state = "absent"
             /\ loaded'[n] = TRUE /\ mem'[n] = NoValues
             /\ \A q \in Managers \ {n} : loaded'[q] = loaded[q]
    <3>1. m = n /\ db = NoValues
      BY <2>3 DEF LifeInv, Follows
    <3>2. mem'[m][k] = w
      BY <2>1, <2>3, <3>1
    <3> QED
      BY <3>2 DEF Current
  <2> QED
    BY <1>1, <2>2, <2>3
<1> QED
  BY <1>3, <1>4

\* The changes of a signal do not make an object that was in the hash follow
\* other settings, and set those it follows.
LEMMA DoneFollows ==
  ASSUME TypeOK, NEW m \in Managers, NEW s \in DOMAIN sent, loaded[m],
         DoneChanges(m, s, foreign[m], selected[m], mem[m]),
         NEW k \in Keys, Follows(m, k)'
  PROVE  /\ Follows(m, k)
         /\ k \in sent[s].keys => mem'[m][k] = s
         /\ k \notin sent[s].keys => mem'[m][k] = mem[m][k]
<1>1. /\ ~sent[s].deleted
      /\ foreign'[m] = foreign[m]
      /\ selected'[m] = Known(sent[s], foreign[m], selected[m])
      /\ mem'[m] = Overlay(mem[m], sent[s], s, selected'[m])
  <2>1. ~sent[s].deleted
    BY DoneToObject DEF Follows
  <2> QED
    BY <2>1, DoneToObject
<1>2. CASE foreign[m]
  <2>1. k \in sent[s].keys => TypeOf[k] \in selected'[m]
    BY <1>1, <1>2 DEF Known, TypesOf
  <2> QED
    BY <1>1, <1>2, <2>1 DEF Follows, Overlay
<1>3. CASE ~foreign[m]
  <2>1. selected'[m] = selected[m] /\ TypeOf[k] \in selected'[m]
    BY <1>1, <1>3 DEF Known, Follows
  <2> QED
    BY <1>1, <1>3, <2>1 DEF Follows, Overlay
<1> QED
  BY <1>2, <1>3

LEMMA CacheEmit ==
  ASSUME TypeOK, SignalInv, OrderInv, LifeInv, DbInv, CacheInv,
         [Next]_vars, state = "live",
         NEW n \in Managers, NEW path \in Types, Emit(n, path),
         NEW m \in Managers, NEW k \in Keys, Follows(m, k)',
         NEW w \in Nat, w = db[k]
  PROVE  Current(m, k, w)'
<1>1. OutboxInv /\ TypeOf[k] \in Listens[m]
  BY DEF SignalInv, Follows
<1>2. Coming(m, w, TypeOf[k]) => Coming(m, w, TypeOf[k])'
  BY <1>1, ComingEmit
<1>3. ASSUME Follows(m, k), mem'[m][k] = mem[m][k],
             [ts |-> w, mustProcess |-> FALSE] \in emittedSignals'[m]
               => [ts |-> w, mustProcess |-> FALSE] \in emittedSignals[m]
      PROVE  Current(m, k, w)'
  <2>1. Current(m, k, w)
    BY <1>3 DEF CacheInv
  <2> QED
    BY <1>2, <1>3, <2>1 DEF Current
<1>4. CASE m # n
  <2>1. /\ loaded'[m] = loaded[m] /\ foreign'[m] = foreign[m]
        /\ selected'[m] = selected[m] /\ mem'[m] = mem[m]
        /\ emittedSignals'[m] = emittedSignals[m]
    BY <1>1, <1>4, EmitObjects
  <2>2. Follows(m, k)
    BY <2>1 DEF Follows
  <2> QED
    BY <1>3, <2>1, <2>2
<1>5. CASE m = n /\ outbox[m].paths # {path}
  <2>1. UNCHANGED <<emittedSignals, objectVars>>
    BY <1>1, <1>5, EmitEffect
  <2>2. Follows(m, k) /\ mem'[m][k] = mem[m][k]
    BY <2>1 DEF Follows, objectVars
  <2> QED
    BY <1>3, <2>1, <2>2
<1>6. CASE m = n /\ outbox[m].paths = {path}
  <2>1. PICK s : s = outbox[m].store
    OBVIOUS
  <2>2. /\ s \in DOMAIN sent /\ s \in Stores /\ loaded[m] /\ ~Ready(m)
        /\ DoneChanges(m, s, foreign[m], selected[m], mem[m])
    <3>1. /\ s \in DOMAIN sent
          /\ DoneChanges(m, s, foreign[m], selected[m], mem[m])
      BY <1>6, <2>1, EmitDone
    <3>2. ~Ready(m)
      BY <1>1, <1>6, EmitEffect
    <3> QED
      BY <3>1, <3>2, TypeFacts DEF LifeInv
  <2>3. /\ Follows(m, k)
        /\ k \in sent[s].keys => mem'[m][k] = s
        /\ k \notin sent[s].keys => mem'[m][k] = mem[m][k]
    BY <2>2, DoneFollows
  <2>4. [ts |-> w, mustProcess |-> FALSE] \in emittedSignals'[m]
          => [ts |-> w, mustProcess |-> FALSE] \in emittedSignals[m] \/ w = s
    BY <2>1, UnmarkedOwn
  <2>5. /\ k \in sent[s].keys => s <= w
        /\ w # 0 => w \in DOMAIN sent /\ k \in sent[w].keys
    BY <2>2 DEF DbInv
  <2>6. CASE k \notin sent[s].keys
    <3>1. w # s
      BY <2>2, <2>5, <2>6, IdleOutbox
    <3> QED
      BY <1>3, <2>3, <2>4, <2>6, <3>1
  <2>7. CASE k \in sent[s].keys /\ s = w
    BY <2>3, <2>7 DEF Current
  <2>8. CASE k \in sent[s].keys /\ s # w
    <3>1. w > s /\ w # 0
      BY <2>2, <2>5, <2>8 DEF Stores
    <3>2. TypeOf[k] \in Paths(sent[w]) /\ w \in DOMAIN sent
      BY <2>5, <3>1 DEF Paths, TypesOf
    <3>3. /\ [ts |-> w, mustProcess |-> FALSE] \notin emittedSignals[m]
          /\ Coming(m, w, TypeOf[k])
      BY <2>1, <2>2, <3>1, <3>2, LaterComes
    <3> QED
      BY <1>2, <2>4, <2>8, <3>3 DEF Current
  <2> QED
    BY <2>6, <2>7, <2>8
<1> QED
  BY <1>4, <1>5, <1>6

LEMMA CacheProcess ==
  ASSUME TypeOK, SignalInv, DeliveredInv, LifeInv, DbInv, CacheInv,
         [Next]_vars, state = "live",
         NEW m \in Managers, NEW ts \in DOMAIN sent, Process(m, ts),
         NEW k \in Keys, Follows(m, k)', NEW w \in Nat, w = db[k]
  PROVE  Current(m, k, w)'
<1>1. /\ ts \in Stores /\ Arrives(m, ts) /\ ~Processed(m, ts)
      /\ TypeOf[k] \in Listens[m]
  BY TypeFacts DEF Process, Follows
<1>2. /\ k \in sent[ts].keys => ts <= w
      /\ w # 0 => w \in DOMAIN sent /\ k \in sent[w].keys
  BY DEF DbInv
<1>3. [ts |-> w, mustProcess |-> FALSE] \notin emittedSignals'[m]
  BY <1>1, UnmarkedOwn
<1>4. ASSUME w # ts, Coming(m, w, TypeOf[k])
      PROVE  Current(m, k, w)'
  <2>1. Coming(m, w, TypeOf[k])'
    BY <1>1, <1>4, ComingHandle
  <2> QED
    BY <1>3, <2>1 DEF Current
<1>5. ASSUME mem'[m][k] = w PROVE Current(m, k, w)'
  BY <1>5 DEF Current
\* A later store is still to come.
<1>6. ASSUME ts < w PROVE Current(m, k, w)'
  <2>1. w # ts /\ w # 0 /\ ~(w <= ts)
    BY <1>1, <1>6 DEF Stores
  <2>2. w \in DOMAIN sent /\ TypeOf[k] \in Paths(sent[w]) \cap Listens[m]
    BY <1>1, <1>2, <2>1 DEF Paths, TypesOf
  <2>3. ~AtLeast(inbox[m], w)
    BY <1>1, <2>1, ArriveEffect
  <2>4. Coming(m, w, TypeOf[k])
    BY <2>2, <2>3 DEF DeliveredInv
  <2> QED
    BY <1>4, <2>1, <2>4
<1>7. \/ DoneChanges(m, ts, foreign[m], selected[m], mem[m]) /\ loaded[m]
      \/ /\ DoneChanges(m, ts, sent[ts].created, {}, NoValues)
         /\ sent[ts].created \/ sent[ts].deleted
  <2>1. ~(UNCHANGED objectVars /\ ~loaded[m])
    BY DEF Follows, objectVars
  <2> QED
    BY <2>1, ProcessEffect
<1>8. CASE DoneChanges(m, ts, foreign[m], selected[m], mem[m]) /\ loaded[m]
  <2>1. /\ Follows(m, k)
        /\ k \in sent[ts].keys => mem'[m][k] = ts
        /\ k \notin sent[ts].keys => mem'[m][k] = mem[m][k]
    BY <1>8, DoneFollows
  <2>2. CASE k \in sent[ts].keys
    <3>1. ts = w \/ ts < w
      BY <1>1, <1>2, <2>2 DEF Stores
    <3> QED
      BY <1>5, <1>6, <2>1, <2>2, <3>1
  <2>3. CASE k \notin sent[ts].keys
    <3>1. mem[m][k] = w \/ Coming(m, w, TypeOf[k])
      BY <2>1 DEF CacheInv, Current
    <3>2. w # ts
      BY <1>1, <1>2, <2>3, IdleOutbox
    <3> QED
      BY <1>4, <1>5, <2>1, <2>3, <3>1, <3>2
  <2> QED
    BY <2>2, <2>3
<1>9. CASE /\ DoneChanges(m, ts, sent[ts].created, {}, NoValues)
           /\ sent[ts].created \/ sent[ts].deleted
  <2>1. /\ ObjectTypes /\ sent \in Seq(Changes)
        /\ sent[ts].created \in BOOLEAN /\ sent[ts].deleted \in BOOLEAN
        /\ {} \in SUBSET Types /\ NoValues \in Values
    BY TypeFacts, NoValuesType DEF Changes
  <2>2. ~sent[ts].deleted
    <3>1. loaded'[m] = ~sent[ts].deleted
      BY <1>1, <1>9, <2>1, DoneEffect
    <3> QED
      BY <2>1, <3>1 DEF Follows
  <2>3. sent[ts].created /\ ts = 1
    BY <1>9, <2>2 DEF LifeInv
  <2>4. /\ selected'[m] = Known(sent[ts], sent[ts].created, {})
        /\ mem'[m] = Overlay(NoValues, sent[ts], ts, selected'[m])
    <3>1. ASSUME NEW f \in BOOLEAN, DoneChanges(m, ts, f, {}, NoValues)
          PROVE  /\ selected'[m] = Known(sent[ts], f, {})
                 /\ mem'[m] = Overlay(NoValues, sent[ts], ts, selected'[m])
      BY <1>1, <2>1, <2>2, <3>1, DoneEffect
    <3> QED
      BY <1>9, <2>1, <3>1
  <2>5. k \in sent[ts].keys => TypeOf[k] \in selected'[m]
    BY <2>3, <2>4 DEF Known, TypesOf
  <2>6. mem'[m][k] = IF k \in sent[ts].keys THEN ts ELSE 0
    BY <2>4, <2>5 DEF Overlay, NoValues
  <2>7. CASE w > ts
    BY <1>6, <2>3, <2>7
  <2>8. CASE w = ts
    <3>1. k \in sent[ts].keys
      BY <1>1, <1>2, <2>8, IdleOutbox
    <3> QED
      BY <1>5, <2>6, <2>8, <3>1
  <2>9. CASE w = 0
    <3>1. k \notin sent[ts].keys
      BY <1>2, <2>3, <2>9
    <3> QED
      BY <1>5, <2>6, <2>9, <3>1
  <2> QED
    BY <2>3, <2>7, <2>8, <2>9
<1> QED
  BY <1>7, <1>8, <1>9

LEMMA CacheHandle ==
  ASSUME TypeOK, SignalInv, DeliveredInv, LifeInv, DbInv, CacheInv,
         [Next]_vars, state = "live",
         NEW n \in Managers, NEW ts \in Stores,
         Duplicate(n, ts) \/ SkipOwn(n, ts) \/ Process(n, ts),
         NEW m \in Managers, NEW k \in Keys, Follows(m, k)',
         NEW w \in Nat, w = db[k]
  PROVE  Current(m, k, w)'
<1>1. ts \in DOMAIN sent
  BY HandleEffect
<1>2. ASSUME loaded'[m] = loaded[m], foreign'[m] = foreign[m],
             selected'[m] = selected[m], mem'[m] = mem[m],
             emittedSignals'[m] \subseteq emittedSignals[m],
             \/ n # m \/ Processed(m, ts)
             \/ [ts |-> ts, mustProcess |-> FALSE] \in emittedSignals[m]
      PROVE  Current(m, k, w)'
  <2>1. Follows(m, k)
    BY <1>2 DEF Follows
  <2>2. Current(m, k, w)
    BY <2>1 DEF CacheInv
  <2>3. CASE mem[m][k] = w
    BY <1>2, <2>3 DEF Current
  <2>4. CASE mem[m][k] # w
    <3>1. /\ Coming(m, w, TypeOf[k])
          /\ [ts |-> w, mustProcess |-> FALSE] \notin emittedSignals[m]
      BY <2>2, <2>4 DEF Current
    <3>2. n # m \/ ts # w
      BY <1>2, <3>1 DEF Coming
    <3>3. Coming(m, w, TypeOf[k])'
      BY <3>1, <3>2, ComingHandle
    <3> QED
      BY <1>2, <3>1, <3>3 DEF Current
  <2> QED
    BY <2>3, <2>4
<1>3. CASE n # m
  <2>1. emittedSignals'[m] = emittedSignals[m]
    BY <1>3, HandleEffect
  <2>2. /\ loaded'[m] = loaded[m] /\ foreign'[m] = foreign[m]
        /\ selected'[m] = selected[m] /\ mem'[m] = mem[m]
    BY <1>1, <1>3, ProcessEffect DEF Duplicate, SkipOwn, objectVars
  <2> QED
    BY <1>2, <1>3, <2>1, <2>2
<1>4. CASE n = m /\ Duplicate(m, ts)
  BY <1>2, <1>4 DEF Duplicate, objectVars, signalVars
<1>5. CASE n = m /\ SkipOwn(m, ts)
  <2>1. /\ emittedSignals'[m] \subseteq emittedSignals[m]
        /\ [ts |-> ts, mustProcess |-> FALSE] \in emittedSignals[m]
    BY <1>5, SkipEffect
  <2>2. UNCHANGED objectVars
    BY <1>5 DEF SkipOwn
  <2> QED
    BY <1>2, <2>1, <2>2 DEF objectVars
<1>6. CASE n = m /\ Process(m, ts)
  BY <1>1, <1>6, CacheProcess
<1> QED
  BY <1>3, <1>4, <1>5, <1>6

LEMMA CacheStep ==
  ASSUME TypeOK, SignalInv, OrderInv, DeliveredInv, LifeInv, DbInv,
         CacheInv, [Next]_vars
  PROVE  CacheInv'
<1> SUFFICES ASSUME state' = "live", NEW m \in Managers, NEW k \in Keys,
                    Follows(m, k)', NEW w, w = db'[k]
             PROVE  Current(m, k, w)'
  BY DEF CacheInv
<1>1. ASSUME NEW n \in Managers, NEW keys \in SUBSET Keys,
             Create(n, keys) \/ Update(n, keys) \/ Delete(n)
      PROVE  Current(m, k, w)'
  BY <1>1, CacheStore
<1>2. ASSUME UNCHANGED dbVars PROVE state = "live" /\ w = db[k] /\ w \in Nat
  BY <1>2, DbTypes DEF dbVars
<1>3. ASSUME NEW n \in Managers,
             Load(n) \/ Release(n) \/ \E t \in Types : Select(n, t)
      PROVE  Current(m, k, w)'
  <2>1. UNCHANGED dbVars
    BY <1>3, QuietEffect
  <2> QED
    BY <1>2, <1>3, <2>1, CacheQuiet
<1>4. ASSUME NEW n \in Managers, NEW path \in Types, Emit(n, path)
      PROVE  Current(m, k, w)'
  <2>1. UNCHANGED dbVars
    BY <1>4 DEF Emit
  <2> QED
    BY <1>2, <1>4, <2>1, CacheEmit
<1>5. ASSUME NEW n \in Managers, NEW ts \in Stores,
             Duplicate(n, ts) \/ SkipOwn(n, ts) \/ Process(n, ts)
      PROVE  Current(m, k, w)'
  <2>1. UNCHANGED dbVars
    BY <1>5 DEF Duplicate, SkipOwn, Process, Arrives
  <2> QED
    BY <1>2, <1>5, <2>1, CacheHandle
<1>6. ASSUME UNCHANGED vars PROVE Current(m, k, w)'
  <2>1. /\ UNCHANGED dbVars /\ UNCHANGED objectVars
        /\ UNCHANGED SignalVars /\ UNCHANGED emittedSignals
    BY <1>6 DEF vars, SignalVars, dbVars, busVars, signalVars, historyVars
  <2>2. state = "live" /\ w = db[k]
    BY <1>2, <2>1
  <2>3. Follows(m, k) /\ mem' = mem
    BY <2>1 DEF Follows, objectVars
  <2>4. Current(m, k, w)
    BY <2>2, <2>3 DEF CacheInv
  <2>5. Coming(m, w, TypeOf[k]) => Coming(m, w, TypeOf[k])'
    BY <2>1, ComingIdle
  <2> QED
    BY <2>1, <2>3, <2>4, <2>5 DEF Current
<1>7. {} \in SUBSET Keys
  OBVIOUS
<1> QED
  BY <1>1, <1>3, <1>4, <1>5, <1>6, <1>7 DEF Next, Client, Work, Receive

\* A manager that has handled all signals shows, of the settings whose
\* changes it listens to, what the database holds, whichever processes stored
\* them and whether its object was loaded, created by it or made from signals.
THEOREM CachesAreRight ==
  ASSUME NotOvertaken PROVE Spec => []CachesConverge
<1> DEFINE Inv == OrderlyInv /\ DbInv /\ CacheInv
<1>1. Init => Inv
  <2> SUFFICES ASSUME Init PROVE DbInv /\ CacheInv
    BY OrderlyStays
  <2>1. /\ sent = <<>> /\ DOMAIN sent = {} /\ db = NoValues
        /\ \A m \in Managers : mem[m] = NoValues
    BY DEF Init
  <2>2. \A k \in Keys : db[k] = 0 /\ \A m \in Managers : mem[m][k] = 0
    BY <2>1 DEF NoValues
  <2> QED
    BY <2>1, <2>2 DEF DbInv, CacheInv, Current
<1>2. Inv /\ [Next]_vars => Inv'
  <2>1. OrderlyInv /\ DbInv /\ CacheInv /\ [Next]_vars => DbInv' /\ CacheInv'
    BY DbStep, CacheStep DEF OrderlyInv, SignalsAreRight
  <2> QED
    BY <2>1, OrderlyStays
<1>3. Inv => CachesConverge
  <2> SUFFICES ASSUME OrderlyInv, CacheInv, NEW m \in Managers, AtRest(m),
                      loaded[m], NEW k \in Keys,
                      TypeOf[k] \in selected[m] \cap Listens[m]
               PROVE  mem[m][k] = db[k]
    BY DEF CachesConverge
  <2>1. state = "live"
    BY OrderlyDrops DEF DeletedAreDropped
  <2>2. Follows(m, k)
    BY DEF Follows
  <2>3. inbox[m] = <<>> /\ \A n \in Managers : outbox[n].paths = {}
    BY IdleOutbox DEF AtRest
  <2>4. ~Coming(m, db[k], TypeOf[k])
    BY <2>3 DEF Coming, In
  <2> QED
    BY <2>1, <2>2, <2>4 DEF CacheInv, Current
<1> HIDE DEF Inv
<1> QED
  BY <1>1, <1>2, <1>3, PTL DEF Spec
=============================================================================
