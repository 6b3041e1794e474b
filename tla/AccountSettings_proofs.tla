----------------------- MODULE AccountSettings_proofs -----------------------
(***************************************************************************)
(* Theorems about AccountSettings: what is in memory is what is in the     *)
(* database, whichever process wrote it and whenever it was read.          *)
(*                                                                         *)
(* The properties speak of states at rest.  Between the commit of another  *)
(* process and the arrival of its signal memory and database differ by     *)
(* exactly what the signal says; that difference, what is loaded before it *)
(* is watched, and what a deleted account has left are the invariants.     *)
(***************************************************************************)
EXTENDS AccountSettings, FiniteSetTheorems, FunctionTheorems,
        SequenceTheorems, TLAPS

Edits == [Settings -> Values \cup {"same"}]
-----------------------------------------------------------------------------
(* Settings and their names.                                               *)

\* A setting is in a column or belongs to a service, never both.
LEMMA SettingsSplit ==
  /\ InServices \subseteq Settings
  /\ InColumns \subseteq Settings
  /\ GlobalName \in Settings /\ GlobalEnabled \in Settings
  /\ GlobalName # GlobalEnabled
  /\ GlobalName \notin InServices /\ GlobalEnabled \notin InServices
  /\ \A x \in InServices : x.service \in Services /\ x \notin InColumns
<1>1. \A s, k : Setting(s, k).service = s /\ Setting(s, k).key = k
  BY DEF Setting
<1>2. \A x \in InServices : x.service \in Services
  BY DEF InServices, Setting
<1>3. GlobalName \notin InServices /\ GlobalEnabled \notin InServices
  BY <1>1, <1>2, ConstantsAssumption DEF GlobalName, GlobalEnabled
<1>4. GlobalName # GlobalEnabled
  BY <1>1 DEF GlobalName, GlobalEnabled
<1> QED
  BY <1>2, <1>3, <1>4 DEF Settings, InColumns

\* The enabled flag of a service is a setting of that service.
LEMMA EnabledSetting ==
  \A s \in Services : /\ Setting(s, "enabled") \in InServices
                      /\ Setting(s, "enabled").service = s
                      /\ Setting(s, "enabled").key = "enabled"
BY DEF InServices, Setting

\* What is read or set as a value is one.
LEMMA ValuesOf ==
  /\ \A x : Of(x) \subseteq Values
  /\ \A x : "same" \notin Of(x) /\ "none" \notin Of(x)
  /\ Of(GlobalName) = {"value"}
  /\ Of(GlobalEnabled) = {"true", "false"}
BY DEF Of, Values, GlobalName, GlobalEnabled, Setting

LEMMA EmptyChanges ==
  /\ NoChange \in Edits
  /\ \A x \in Settings : NoChange[x] = "same"
  /\ NoMessage.vals = NoChange /\ NoMessage.deleted = FALSE
  /\ Nothing \in [Settings -> Values] /\ NotRead \in [InServices -> Values]
  /\ \A x \in Settings : Nothing[x] = "none"
  /\ \A x \in InServices : NotRead[x] = "none"
BY DEF NoChange, Edits, NoMessage, Nothing, NotRead, Values
-----------------------------------------------------------------------------
(* What the operators the actions share do to each setting.                *)

\* Settings of services in memory become what the changes say, all others
\* stay.
LEMMA UpdateEffect ==
  ASSUME NEW ch \in Edits, UpdateSettings(ch)
  PROVE  /\ \A x \in InServices :
              settings'[x] = IF x.service \in loaded /\ ch[x] # "same"
                             THEN ch[x] ELSE settings[x]
         /\ loaded' = loaded
         /\ displayName' = IF ch[GlobalName] = "same" THEN displayName
                           ELSE ch[GlobalName]
<1>1. \A x \in InServices :
        x \in Updated(ch) <=> x.service \in loaded /\ ch[x] # "same"
  BY SettingsSplit DEF Updated, Changed
<1> QED
  BY <1>1 DEF UpdateSettings

\* A service in memory keeps its settings when services are selected; one
\* that was not has those of the database afterwards.
LEMMA SelectEffect ==
  ASSUME NEW ss \in SUBSET Owners, NEW s, Select(ss, s),
         settings \in [InServices -> Values]
  PROVE  /\ \A x \in InServices :
              settings'[x] = IF stored /\ x.service \in ss \ loaded
                             THEN table[x] ELSE settings[x]
         /\ loaded' = loaded \cup ss
         /\ service' = s
BY DEF Select, Read

\* A write that does not delete leaves the account in the database, with
\* what was changed.
LEMMA WriteEffect ==
  ASSUME NEW ch \in Edits, Write(ch, FALSE)
  PROVE  /\ live' = TRUE
         /\ \A x \in Settings :
              table'[x] = IF ch[x] = "same" THEN table[x] ELSE ch[x]
         /\ nameColumn' = IF ch[GlobalName] \in Of(GlobalName)
                          THEN ch[GlobalName] ELSE nameColumn
         /\ enabledColumn' = IF ch[GlobalEnabled] \in Of(GlobalEnabled)
                             THEN ch[GlobalEnabled] = "true"
                             ELSE enabledColumn
BY DEF Write, WriteColumns, WriteRows
-----------------------------------------------------------------------------
(* Types.                                                                  *)

LEMMA WriteTypes ==
  ASSUME TypeOK, NEW ch \in Edits, NEW del \in BOOLEAN, Write(ch, del)
  PROVE  /\ live' \in BOOLEAN /\ nameColumn' \in Values
         /\ enabledColumn' \in BOOLEAN /\ table' \in [Settings -> Values]
<1>1. CASE del
  BY <1>1, EmptyChanges DEF Write, DeleteRows, Values
<1>2. CASE ~del
  <2>1. nameColumn' \in Values /\ enabledColumn' \in BOOLEAN
    BY <1>2, ValuesOf DEF Write, WriteColumns, TypeOK
  <2>2. table' \in [Settings -> Values]
    BY <1>2 DEF Write, WriteRows, TypeOK, Edits
  <2> QED
    BY <2>1, <2>2, <1>2 DEF Write
<1> QED
  BY <1>1, <1>2

\* The flags that followers have one after the other.
LEMMA LastOfThree ==
  ASSUME NEW S, NEW b \in S, NEW c \in S, NEW g \in Seq(S)
  PROVE  /\ (<<b>> \o g \o <<c>>)[Len(<<b>> \o g \o <<c>>)] = c
         /\ g = <<>> => (<<b>> \o g \o <<>>)[Len(<<b>> \o g \o <<>>)] = b
         /\ g # <<>> =>
              (<<b>> \o g \o <<>>)[Len(<<b>> \o g \o <<>>)] = g[Len(g)]
OBVIOUS

LEMMA SignalsAreFinite ==
  ASSUME NEW ch
  PROVE  Cardinality(EnabledIn(ch)) \in Nat
         /\ (Cardinality(EnabledIn(ch)) = 0 => EnabledIn(ch) = {})
<1> DEFINE E == {Setting(s, "enabled") : s \in Owners}
<1>1. IsFiniteSet(Owners)
  BY ConstantsAssumption, FS_AddElement DEF Owners
<1>2. IsFiniteSet(E)
  <2> DEFINE f == [s \in Owners |-> Setting(s, "enabled")]
  <2>1. f \in [Owners -> E]
    OBVIOUS
  <2>2. \A x \in E : \E s \in Owners : f[s] = x
    OBVIOUS
  <2> HIDE DEF f, E
  <2>3. f \in Surjection(Owners, E)
    BY <2>1, <2>2 DEF Surjection
  <2> QED
    BY <1>1, <2>3, FS_Surjection
<1>3. EnabledIn(ch) \subseteq E
  BY DEF EnabledIn, Changed, Settings, InColumns, InServices, GlobalName,
     GlobalEnabled, Setting, Owners
<1> HIDE DEF E
<1> QED
  BY <1>2, <1>3, FS_Subset, FS_CardinalityType, FS_EmptySet

LEMMA FlagTypes ==
  ASSUME TypeOK, NEW ch, NEW A, NEW s
  PROVE  FlagWith(ch, A, s) \in BOOLEAN
<1> DEFINE on == IF GlobalEnabled \in A THEN ch[GlobalEnabled] = "true"
                 ELSE enabled
           vals == [x \in InServices |-> IF x \in A \cap Updated(ch)
                                        THEN ch[x] ELSE settings[x]]
<1>1. on \in BOOLEAN
  BY DEF TypeOK
<1> HIDE DEF on, vals
<1>2. Enabled(s, on, vals) \in BOOLEAN
  BY <1>1 DEF Enabled
<1> QED
  BY <1>2 DEF FlagWith, on, vals

\* The last signal leaves the flag that all of the change gives.
LEMMA LastFlag ==
  ASSUME TypeOK, NEW ch \in Edits, NEW del \in BOOLEAN, FollowEnabled(ch, del)
  PROVE  /\ isEnabled' \in [Owners -> BOOLEAN] /\ service' \in Owners
         /\ \A s \in followers :
              /\ del => isEnabled'[s] = FALSE
              /\ ~del /\ EnabledIn(ch) = {} => isEnabled'[s] = isEnabled[s]
              /\ ~del /\ EnabledIn(ch) # {} =>
                   isEnabled'[s] = FlagWith(ch, EnabledIn(ch), s)
<1> DEFINE n == Cardinality(EnabledIn(ch))
<1>1. PICK order \in Orders(EnabledIn(ch)) :
        LET flags == [s \in followers |-> Flags(ch, del, order, s)]
        IN  /\ isEnabled' = [s \in Owners |->
                               IF s \in followers
                               THEN flags[s][Len(flags[s])] ELSE isEnabled[s]]
            /\ IF (del \/ EnabledIn(ch) # {}) /\ followers # {}
               THEN service' \in followers ELSE UNCHANGED service
  BY DEF FollowEnabled
<1>2. /\ n \in Nat /\ (n = 0 => EnabledIn(ch) = {})
      /\ order \in [1..n -> EnabledIn(ch)]
      /\ \A x \in EnabledIn(ch) : \E i \in 1..n : order[i] = x
  BY SignalsAreFinite DEF Orders
<1> HIDE DEF n
<1>3. Applied(order, n) = EnabledIn(ch)
  BY <1>2 DEF Applied
<1>4. ASSUME NEW s \in followers
      PROVE  LET f == Flags(ch, del, order, s)
             IN  /\ f[Len(f)] \in BOOLEAN
                 /\ del => f[Len(f)] = FALSE
                 /\ ~del /\ EnabledIn(ch) = {} => f[Len(f)] = isEnabled[s]
                 /\ ~del /\ EnabledIn(ch) # {} =>
                      f[Len(f)] = FlagWith(ch, EnabledIn(ch), s)
  <2> DEFINE g == [i \in DOMAIN order |-> FlagWith(ch, Applied(order, i), s)]
             b == isEnabled[s]
  <2>1. b \in BOOLEAN
    BY DEF TypeOK
  <2>2. g = [i \in 1..n |-> FlagWith(ch, Applied(order, i), s)]
    BY <1>2
  <2>3. \A i \in 1..n : FlagWith(ch, Applied(order, i), s) \in BOOLEAN
    BY FlagTypes
  <2>4. g \in [1..n -> BOOLEAN]
    BY <2>2, <2>3, Zenon
  <2>5. g \in Seq(BOOLEAN) /\ Len(g) = n
    BY <1>2, <2>4
  <2>6. n # 0 => g[n] = FlagWith(ch, EnabledIn(ch), s)
    BY <1>2, <1>3, <2>2
  <2>7. Flags(ch, del, order, s) =
          <<b>> \o g \o (IF del THEN <<FALSE>> ELSE <<>>)
    BY DEF Flags
  <2> HIDE DEF g, b
  <2>8. /\ (<<b>> \o g \o <<FALSE>>)[Len(<<b>> \o g \o <<FALSE>>)] = FALSE
        /\ g = <<>> => (<<b>> \o g \o <<>>)[Len(<<b>> \o g \o <<>>)] = b
        /\ g # <<>> =>
             (<<b>> \o g \o <<>>)[Len(<<b>> \o g \o <<>>)] = g[Len(g)]
    <3> DEFINE B == BOOLEAN
               c == FALSE
    <3>1. b \in B /\ c \in B /\ g \in Seq(B)
      BY <2>1, <2>5
    <3> HIDE DEF B, c
    <3>2. /\ (<<b>> \o g \o <<c>>)[Len(<<b>> \o g \o <<c>>)] = c
          /\ g = <<>> => (<<b>> \o g \o <<>>)[Len(<<b>> \o g \o <<>>)] = b
          /\ g # <<>> =>
               (<<b>> \o g \o <<>>)[Len(<<b>> \o g \o <<>>)] = g[Len(g)]
      BY <3>1, LastOfThree
    <3> QED
      BY <3>2 DEF c
  <2>9. (g = <<>> <=> n = 0) /\ (EnabledIn(ch) = {} => n = 0)
    <3>1. g = <<>> <=> n = 0
      <4>1. g # <<>> => n # 0
        BY <2>5, EmptySeq, SMT
      <4>2. g = <<>> => n = 0
        <5>1. Len(<<>>) = 0
          BY EmptySeq
        <5> QED
          BY <2>5, <5>1
      <4> QED
        BY <4>1, <4>2
    <3>2. EnabledIn(ch) = {} => n = 0
      BY FS_EmptySet DEF n
    <3> QED
      BY <3>1, <3>2
  <2>10. CASE del
    BY <2>7, <2>8, <2>10
  <2>11. CASE ~del
    <3>1. CASE n = 0
      BY <1>2, <2>1, <2>7, <2>8, <2>9, <2>11, <3>1 DEF b
    <3>2. CASE n # 0
      <4>1. FlagWith(ch, EnabledIn(ch), s) \in BOOLEAN
        BY FlagTypes
      <4> QED
        BY <2>5, <2>6, <2>7, <2>8, <2>9, <2>11, <3>2, <4>1
    <3> QED
      BY <3>1, <3>2
  <2> QED
    BY <2>10, <2>11
<1> DEFINE F(s) == Flags(ch, del, order, s)
<1>5. isEnabled' = [s \in Owners |-> IF s \in followers THEN F(s)[Len(F(s))]
                                     ELSE isEnabled[s]]
  BY <1>1
<1>6. \A s \in followers : isEnabled'[s] = F(s)[Len(F(s))]
  BY <1>5 DEF TypeOK
<1>7. \A s \in Owners : (IF s \in followers THEN F(s)[Len(F(s))]
                        ELSE isEnabled[s]) \in BOOLEAN
  BY <1>4 DEF TypeOK
<1> HIDE DEF F
<1>8. isEnabled' \in [Owners -> BOOLEAN]
  BY <1>5, <1>7, Zenon
<1>9. service' \in Owners
  BY <1>1 DEF TypeOK
<1> QED
  BY <1>4, <1>6, <1>8, <1>9, Zenon DEF F

LEMMA DoneTypes ==
  ASSUME TypeOK, NEW ch \in Edits, NEW del \in BOOLEAN, DoneChanges(ch, del)
  PROVE  /\ service' \in Owners /\ loaded' \subseteq Owners
         /\ settings' \in [InServices -> Values]
         /\ displayName' \in Values /\ enabled' \in BOOLEAN
         /\ deleted' \in BOOLEAN /\ watches' \subseteq Settings
         /\ followers' \subseteq Owners /\ isEnabled' \in [Owners -> BOOLEAN]
         /\ invoked' \subseteq Settings /\ noticed' \subseteq Owners
<1>1. settings' \in [InServices -> Values] /\ loaded' \subseteq Owners
  BY SettingsSplit DEF DoneChanges, UpdateSettings, Updated, Changed, TypeOK,
     Edits
<1>2. displayName' \in Values
  BY SettingsSplit DEF DoneChanges, UpdateSettings, TypeOK, Edits
<1>3. enabled' \in BOOLEAN /\ deleted' \in BOOLEAN
  <2>1. CASE del
    BY <2>1 DEF DoneChanges
  <2>2. CASE ~del /\ ch[GlobalEnabled] = "same"
    BY <2>2 DEF DoneChanges, TypeOK
  <2>3. CASE ~del /\ ch[GlobalEnabled] # "same"
    <3>1. enabled' = (ch[GlobalEnabled] = "true")
      BY <2>3 DEF DoneChanges
    <3> QED
      BY <3>1, Zenon DEF DoneChanges, TypeOK
  <2> QED
    BY <2>1, <2>2, <2>3
<1>4. invoked' \subseteq Settings /\ noticed' \subseteq Owners
  BY DEF DoneChanges, InvokeWatches, NoticeChanges, TypeOK
<1>5. service' \in Owners /\ isEnabled' \in [Owners -> BOOLEAN]
  BY LastFlag DEF DoneChanges
<1> QED
  BY <1>1, <1>2, <1>3, <1>4, <1>5 DEF DoneChanges, TypeOK

LEMMA InitTypes == Init => TypeOK
<1> SUFFICES ASSUME Init PROVE TypeOK
  OBVIOUS
<1>1. message \in [vals : [Settings -> Values \cup {"same"}],
                   deleted : BOOLEAN]
  BY EmptyChanges DEF Init, NoMessage, Edits
<1>2. /\ changes \in [Settings -> Values \cup {"same"}]
      /\ table \in [Settings -> Values] /\ settings \in [InServices -> Values]
  BY EmptyChanges DEF Init, Edits
<1>3. isEnabled \in [Owners -> BOOLEAN]
  BY DEF Init
<1> QED
  BY <1>1, <1>2, <1>3 DEF Init, TypeOK, Values, Owners

LEMMA StepTypes == TypeOK /\ [Next]_vars => TypeOK'
<1> SUFFICES ASSUME TypeOK, [Next]_vars PROVE TypeOK'
  OBVIOUS
<1>1. ASSUME NEW s \in Owners, SelectService(s) PROVE TypeOK'
  <2>1. settings' \in [InServices -> Values]
    BY <1>1, SettingsSplit DEF SelectService, Select, Read, TypeOK
  <2> QED
    BY <2>1, <1>1 DEF SelectService, Select, TypeOK, Quiet, dbVars, editVars,
       followerVars
<1>2. ASSUME NEW s \in Owners, NewFollower(s) PROVE TypeOK'
  <2>1. settings' \in [InServices -> Values]
    BY <1>2, SettingsSplit DEF NewFollower, Select, Read, TypeOK
  <2>2. Enabled(s, enabled, settings') \in BOOLEAN
    BY DEF Enabled, TypeOK
  <2>3. isEnabled' \in [Owners -> BOOLEAN]
    BY <2>2, <1>2, Zenon DEF NewFollower, TypeOK
  <2> QED
    BY <2>1, <2>3, <1>2 DEF NewFollower, Select, TypeOK, Quiet, dbVars,
       editVars, Owners
<1>3. ASSUME NEW s \in Owners, DropFollower(s) PROVE TypeOK'
  <2>1. isEnabled' \in [Owners -> BOOLEAN]
    BY <1>3, Zenon DEF DropFollower, TypeOK
  <2> QED
    BY <2>1, <1>3 DEF DropFollower, TypeOK, Quiet, dbVars, editVars, memVars
<1>4. ASSUME NEW k, WatchKey(k) PROVE TypeOK'
  BY <1>4 DEF WatchKey, TypeOK, Quiet, dbVars, editVars, memVars,
     followerVars
<1>5. ASSUME NEW x \in Settings, NEW v \in Values, Change(x, v) PROVE TypeOK'
  BY <1>5 DEF Change, TypeOK, Quiet, dbVars, memVars, followerVars
<1>6. ASSUME NEW x, RemoveWatch(x) PROVE TypeOK'
  BY <1>6 DEF RemoveWatch, TypeOK, Quiet, dbVars, editVars, memVars,
     followerVars
<1>7. ASSUME Delete PROVE TypeOK'
  BY <1>7 DEF Delete, TypeOK, Quiet, dbVars, memVars, followerVars
<1>8. ASSUME Store PROVE TypeOK'
  <2>1. changes \in Edits /\ deleting \in BOOLEAN
    BY DEF TypeOK, Edits
  <2>2. changes' \in Edits /\ deleting' \in BOOLEAN
    BY <1>8, EmptyChanges DEF Store
  <2> QED
    BY <2>1, <2>2, <1>8, WriteTypes, DoneTypes DEF Store, TypeOK, Edits
<1>9. ASSUME Reload PROVE TypeOK'
  BY <1>9, EmptyChanges DEF Reload, TypeOK, Quiet, dbVars, Owners, Edits
<1>10. ASSUME RemoteDelete PROVE TypeOK'
  <2>1. message' \in [vals : Edits, deleted : BOOLEAN]
    BY <1>10, EmptyChanges DEF RemoteDelete, NoMessage
  <2> QED
    BY <2>1, <1>10, WriteTypes, EmptyChanges DEF RemoteDelete, TypeOK, Quiet,
       editVars, memVars, followerVars, Edits
<1>11. ASSUME NEW x \in Settings, NEW v \in Values, RemoteStore(x, v)
       PROVE  TypeOK'
  <2>1. message' = [vals |-> [NoChange EXCEPT ![x] = v], deleted |-> FALSE]
    BY <1>11 DEF RemoteStore, NoMessage
  <2>2. [NoChange EXCEPT ![x] = v] \in Edits
    BY EmptyChanges DEF Edits
  <2> QED
    BY <2>1, <2>2, <1>11, WriteTypes DEF RemoteStore, TypeOK, Quiet, editVars,
       memVars, followerVars, Edits
<1>12. ASSUME Receive PROVE TypeOK'
  <2>1. message.vals \in Edits /\ message.deleted \in BOOLEAN
    BY DEF TypeOK, Edits
  <2>2. message' \in [vals : Edits, deleted : BOOLEAN]
    BY <1>12, EmptyChanges DEF Receive, NoMessage
  <2> QED
    BY <2>1, <2>2, <1>12, DoneTypes DEF Receive, TypeOK, dbVars, editVars,
       Edits
<1>13. CASE UNCHANGED vars
  BY <1>13 DEF vars, TypeOK, dbVars, editVars, memVars, followerVars
<1>14. ASSUME NEW k, NEW v \in Values, SetVariant(k, v) PROVE TypeOK'
  BY <1>14, <1>5 DEF SetVariant
<1>15. ASSUME NEW v \in Of(GlobalName), SetDisplayName(v) PROVE TypeOK'
  BY <1>15, <1>5, SettingsSplit, ValuesOf DEF SetDisplayName
<1> QED
  BY <1>1, <1>2, <1>3, <1>4, <1>6, <1>7, <1>8, <1>9, <1>10, <1>11, <1>12,
     <1>13, <1>14, <1>15 DEF Next, Client, Other

\* Every variable keeps its type, whatever is selected, changed, stored,
\* received or loaded again.
THEOREM TypeCorrect == Spec => []TypeOK
BY InitTypes, StepTypes, PTL DEF Spec
-----------------------------------------------------------------------------
(* What the properties do not say.                                         *)

\* What is selected, watched or followed is in memory, so that no step reads
\* it from the database behind the back of a watch or a follower.
LoadedInv ==
  /\ service \in loaded
  /\ followers \subseteq loaded
  /\ \A x \in watches : x.service \in loaded

LEMMA LoadedStep == TypeOK /\ LoadedInv /\ [Next]_vars => LoadedInv'
<1> SUFFICES ASSUME TypeOK, LoadedInv, [Next]_vars PROVE LoadedInv'
  OBVIOUS
<1>1. ASSUME NEW s \in Owners, SelectService(s) PROVE LoadedInv'
  BY <1>1 DEF SelectService, Select, LoadedInv, followerVars
<1>2. ASSUME NEW s \in Owners, NewFollower(s) PROVE LoadedInv'
  BY <1>2 DEF NewFollower, Select, LoadedInv
<1>3. ASSUME NEW s \in Owners, DropFollower(s) PROVE LoadedInv'
  BY <1>3 DEF DropFollower, LoadedInv, memVars
<1>4. ASSUME NEW k, WatchKey(k) PROVE LoadedInv'
  BY <1>4 DEF WatchKey, LoadedInv, memVars, followerVars, Setting
<1>5. ASSUME NEW x, NEW v, Change(x, v) PROVE LoadedInv'
  BY <1>5 DEF Change, LoadedInv, memVars, followerVars
<1>6. ASSUME NEW x, RemoveWatch(x) PROVE LoadedInv'
  BY <1>6 DEF RemoveWatch, LoadedInv, memVars, followerVars
<1>7. ASSUME Delete PROVE LoadedInv'
  BY <1>7 DEF Delete, LoadedInv, memVars, followerVars
<1>8. ASSUME NEW ch, NEW del, DoneChanges(ch, del) PROVE LoadedInv'
  BY <1>8 DEF DoneChanges, UpdateSettings, FollowEnabled, LoadedInv
<1>9. ASSUME Reload PROVE LoadedInv'
  BY <1>9 DEF Reload, LoadedInv
<1>10. ASSUME Other PROVE LoadedInv'
  BY <1>10 DEF Other, RemoteDelete, RemoteStore, LoadedInv, memVars,
     followerVars
<1>11. CASE UNCHANGED vars
  BY <1>11 DEF vars, LoadedInv, memVars, followerVars
<1> QED
  BY <1>1, <1>2, <1>3, <1>4, <1>5, <1>6, <1>7, <1>8, <1>9, <1>10, <1>11
  DEF Next, Client, Store, Receive, SetVariant, SetDisplayName

\* The signal of a deletion says nothing else.
Gone == [NoMessage EXCEPT !.deleted = TRUE]

\* An account that was never stored has nothing anywhere.
NewInv ==
  ~stored => /\ ~live /\ ~deleting /\ ~enabled
             /\ message = NoMessage
             /\ table = Nothing /\ settings = NotRead
             /\ nameColumn = "none" /\ displayName = "none"
             /\ ~enabledColumn

\* A deleted account is not in the database and disabled, and nothing more
\* comes for it; one that is gone without being seen as deleted has the
\* signal under way.
GoneInv ==
  /\ deleted => ~live /\ ~enabled /\ message = NoMessage
  /\ stored /\ ~live /\ ~deleted => message = Gone
  /\ message.deleted => ~live

LifeInv == NewInv /\ GoneInv

LEMMA NoMessageIsNotGone ==
  /\ Gone.vals = NoChange /\ Gone.deleted /\ ~NoMessage.deleted
  /\ NoMessage # Gone
<1>1. Gone.vals = NoChange
  BY DEF NoMessage, Gone
<1>2. Gone.deleted = TRUE /\ NoMessage.deleted = FALSE
  BY DEF NoMessage, Gone
<1> QED
  BY <1>1, <1>2

LEMMA LifeStep == TypeOK /\ LifeInv /\ [Next]_vars => LifeInv'
<1> SUFFICES ASSUME TypeOK, LifeInv, [Next]_vars PROVE LifeInv'
  OBVIOUS
<1> USE DEF LifeInv, NewInv, GoneInv
<1>1. ASSUME NEW ss, NEW s, Select(ss, s),
             UNCHANGED <<stored, dbVars, editVars, message>>
      PROVE  LifeInv'
  BY <1>1 DEF Select, dbVars, editVars
<1>2. ASSUME UNCHANGED <<stored, dbVars, memVars, message>>,
             deleting' => stored
      PROVE  LifeInv'
  BY <1>2, Zenon DEF dbVars, memVars
<1>3. ASSUME Store PROVE LifeInv'
  <2>1. message = NoMessage /\ ~message.deleted /\ message' = NoMessage
        /\ stored' /\ ~deleted
    BY <1>3, NoMessageIsNotGone DEF Store
  <2>2. CASE deleting
    BY <2>1, <2>2, <1>3, NoMessageIsNotGone
    DEF Store, Write, DeleteRows, DoneChanges
  <2>3. CASE ~deleting
    BY <2>1, <2>3, <1>3, NoMessageIsNotGone DEF Store, Write, DoneChanges
  <2> QED
    BY <2>2, <2>3
<1>4. ASSUME Reload PROVE LifeInv'
  BY <1>4 DEF Reload, dbVars
<1>5. ASSUME RemoteDelete PROVE LifeInv'
  BY <1>5, NoMessageIsNotGone
  DEF RemoteDelete, Write, DeleteRows, Gone, memVars, editVars
<1>6. ASSUME NEW x, NEW v, RemoteStore(x, v) PROVE LifeInv'
  <2>1. ~message'.deleted
    BY <1>6 DEF RemoteStore, NoMessage
  <2> QED
    BY <2>1, <1>6 DEF RemoteStore, Write, memVars, editVars
<1>7. ASSUME Receive PROVE LifeInv'
  <2>1. message # NoMessage /\ message' = NoMessage /\ ~deleted /\ stored
        /\ UNCHANGED <<stored, live, deleting>>
    BY <1>7 DEF Receive, dbVars, editVars
  <2>2. CASE message.deleted
    <3>1. deleted' /\ ~enabled'
      BY <2>2, <1>7 DEF Receive, DoneChanges
    <3> QED
      BY <2>1, <2>2, <3>1, NoMessageIsNotGone
  <2>3. CASE ~message.deleted
    <3>1. ~deleted'
      BY <2>1, <2>3, <1>7 DEF Receive, DoneChanges
    <3>2. live
      BY <2>1, <2>3, NoMessageIsNotGone
    <3> QED
      BY <2>1, <3>1, <3>2, NoMessageIsNotGone
  <2> QED
    BY <2>2, <2>3
<1>8. ASSUME UNCHANGED vars PROVE LifeInv'
  BY <1>8 DEF vars, dbVars, memVars, editVars
<1>9. ASSUME NEW s, SelectService(s) \/ NewFollower(s) \/ DropFollower(s)
      PROVE  LifeInv'
  BY <1>9, <1>1, <1>2 DEF SelectService, NewFollower, DropFollower, editVars
<1>10. ASSUME NEW k, NEW v, WatchKey(k) \/ SetVariant(k, v)
       PROVE  LifeInv'
  BY <1>10, <1>2 DEF WatchKey, SetVariant, Change, editVars
<1>11. ASSUME NEW v, SetDisplayName(v) PROVE LifeInv'
  BY <1>11, <1>2 DEF SetDisplayName, Change
<1>12. ASSUME NEW x, RemoveWatch(x) PROVE LifeInv'
  BY <1>12, <1>2 DEF RemoveWatch, editVars
<1>13. ASSUME Delete PROVE LifeInv'
  BY <1>13, <1>2 DEF Delete
<1> QED
  BY <1>3, <1>4, <1>5, <1>6, <1>7, <1>8, <1>9, <1>10, <1>11, <1>12, <1>13
  DEF Next, Client, Other
-----------------------------------------------------------------------------
(* Memory and database.                                                    *)

\* While the account lives, a setting in memory is that of the database but
\* for what the signal under way says, and that is what the database has.
MemoryInv ==
  live => \A x \in InServices :
            IF message.vals[x] = "same"
            THEN x.service \in loaded => settings[x] = table[x]
            ELSE table[x] = message.vals[x]

\* Selecting services in memory or not.
LEMMA SelectKeepsMemory ==
  ASSUME TypeOK, LifeInv, MemoryInv, NEW ss \in SUBSET Owners, NEW s,
         Select(ss, s), UNCHANGED <<stored, dbVars, message>>
  PROVE  MemoryInv'
<1>1. \A x \in InServices :
        settings'[x] = IF stored /\ x.service \in ss \ loaded
                       THEN table[x] ELSE settings[x]
  BY SelectEffect DEF TypeOK
<1>2. loaded' = loaded \cup ss
  BY SelectEffect DEF TypeOK
<1>3. live => stored
  BY DEF LifeInv, NewInv
<1> QED
  BY <1>1, <1>2, <1>3 DEF MemoryInv, dbVars

\* A store writes to the database what it puts in memory.
LEMMA StoreKeepsMemory ==
  ASSUME TypeOK, LifeInv, MemoryInv, Store
  PROVE  MemoryInv'
<1>1. changes \in Edits
  BY DEF TypeOK, Edits
<1>2. CASE deleting
  BY <1>2 DEF Store, Write, DeleteRows, MemoryInv
<1>3. CASE ~deleting
  <2>1. /\ UpdateSettings(changes) /\ Write(changes, FALSE)
        /\ message = NoMessage /\ message' = NoMessage
    BY <1>3 DEF Store, DoneChanges, Write
  <2>2. \A x \in InServices : x.service \in loaded => settings[x] = table[x]
    <3>1. CASE ~stored
      BY <3>1, EmptyChanges, SettingsSplit DEF LifeInv, NewInv
    <3>2. CASE stored
      <4>1. live
        BY <3>2, <2>1, NoMessageIsNotGone DEF Store, LifeInv, GoneInv
      <4> QED
        BY <4>1, <2>1, EmptyChanges, SettingsSplit DEF MemoryInv
    <3> QED
      BY <3>1, <3>2
  <2>3. \A x \in InServices :
          table'[x] = IF changes[x] = "same" THEN table[x] ELSE changes[x]
    BY <2>1, <1>1, WriteEffect, SettingsSplit
  <2>4. \A x \in InServices :
          settings'[x] = IF x.service \in loaded /\ changes[x] # "same"
                         THEN changes[x] ELSE settings[x]
    BY <2>1, <1>1, UpdateEffect
  <2>5. loaded' = loaded
    BY <2>1 DEF UpdateSettings
  <2>6. \A x \in InServices : message'.vals[x] = "same"
    BY <2>1, EmptyChanges, SettingsSplit
  <2> QED
    BY <2>2, <2>3, <2>4, <2>5, <2>6 DEF MemoryInv
<1> QED
  BY <1>2, <1>3

\* Another process writes to the database what its signal will say.
LEMMA RemoteStoreKeepsMemory ==
  ASSUME TypeOK, LifeInv, MemoryInv,
         NEW y \in Settings, NEW v \in Values, RemoteStore(y, v)
  PROVE  MemoryInv'
<1> DEFINE ch == [NoChange EXCEPT ![y] = v]
<1>1. ch \in Edits
  BY EmptyChanges DEF Edits
<1>2. message' = [vals |-> ch, deleted |-> FALSE]
  BY DEF RemoteStore, NoMessage
<1>3. Write(ch, FALSE)
  BY <1>2 DEF RemoteStore
<1>4. live /\ message = NoMessage /\ UNCHANGED <<settings, loaded>>
  BY DEF RemoteStore, memVars
<1>5. \A x \in InServices :
        table'[x] = IF ch[x] = "same" THEN table[x] ELSE ch[x]
  BY <1>1, <1>3, WriteEffect, SettingsSplit
<1>6. \A x \in InServices : x.service \in loaded => settings[x] = table[x]
  BY <1>4, EmptyChanges, SettingsSplit DEF MemoryInv
<1>7. message'.vals = ch
  BY <1>2
<1> HIDE DEF ch
<1> QED
  BY <1>4, <1>5, <1>6, <1>7 DEF MemoryInv

\* The signal brings to memory what the other process has written.
LEMMA ReceiveKeepsMemory ==
  ASSUME TypeOK, LifeInv, MemoryInv, Receive
  PROVE  MemoryInv'
<1> SUFFICES ASSUME live' PROVE MemoryInv'
  BY DEF MemoryInv
<1>1. /\ UpdateSettings(message.vals) /\ message' = NoMessage
      /\ UNCHANGED <<table, live>>
  BY DEF Receive, DoneChanges, dbVars
<1>2. message.vals \in Edits
  BY DEF TypeOK, Edits
<1>3. \A x \in InServices :
        settings'[x] = IF x.service \in loaded /\ message.vals[x] # "same"
                       THEN message.vals[x] ELSE settings[x]
  BY <1>1, <1>2, UpdateEffect
<1>4. loaded' = loaded
  BY <1>1 DEF UpdateSettings
<1>5. \A x \in InServices : message'.vals[x] = "same"
  BY <1>1, EmptyChanges, SettingsSplit
<1> QED
  BY <1>1, <1>3, <1>4, <1>5 DEF MemoryInv

LEMMA MemoryStep ==
  TypeOK /\ LifeInv /\ MemoryInv /\ [Next]_vars => MemoryInv'
<1> SUFFICES ASSUME TypeOK, LifeInv, MemoryInv, [Next]_vars
             PROVE  MemoryInv'
  OBVIOUS
<1>1. ASSUME UNCHANGED <<dbVars, memVars, message>> PROVE MemoryInv'
  BY <1>1 DEF MemoryInv, dbVars, memVars
<1>2. ASSUME NEW s \in Owners, SelectService(s) PROVE MemoryInv'
  BY <1>2, SelectKeepsMemory DEF SelectService
<1>3. ASSUME NEW s \in Owners, NewFollower(s) PROVE MemoryInv'
  <2>1. {Global, s} \in SUBSET Owners
    BY DEF Owners
  <2> QED
    BY <2>1, <1>3, SelectKeepsMemory DEF NewFollower
<1>4. ASSUME NEW s \in Owners, DropFollower(s) PROVE MemoryInv'
  BY <1>4, <1>1 DEF DropFollower
<1>5. ASSUME NEW k, NEW v, WatchKey(k) \/ SetVariant(k, v) PROVE MemoryInv'
  BY <1>5, <1>1 DEF WatchKey, SetVariant, Change
<1>6. ASSUME NEW v, SetDisplayName(v) PROVE MemoryInv'
  BY <1>6, <1>1 DEF SetDisplayName, Change
<1>7. ASSUME NEW x, RemoveWatch(x) PROVE MemoryInv'
  BY <1>7, <1>1 DEF RemoveWatch
<1>8. ASSUME Delete PROVE MemoryInv'
  BY <1>8, <1>1 DEF Delete
<1>9. ASSUME Reload PROVE MemoryInv'
  <2>1. \A x \in InServices : message'.vals[x] = "same"
    BY <1>9, EmptyChanges, SettingsSplit DEF Reload
  <2>2. \A x \in InServices : x.service \notin loaded'
    BY <1>9, SettingsSplit, ConstantsAssumption DEF Reload
  <2> QED
    BY <2>1, <2>2 DEF MemoryInv
<1>10. ASSUME RemoteDelete PROVE MemoryInv'
  BY <1>10 DEF RemoteDelete, Write, DeleteRows, MemoryInv
<1>11. CASE UNCHANGED vars
  BY <1>11, <1>1 DEF vars
<1> QED
  BY <1>2, <1>3, <1>4, <1>5, <1>6, <1>7, <1>8, <1>9, <1>10, <1>11,
     StoreKeepsMemory, RemoteStoreKeepsMemory, ReceiveKeepsMemory
  DEF Next, Client, Other

MemoryIsRight == TypeOK /\ LifeInv /\ MemoryInv

\* Once the signals have arrived, every setting in memory is that of the
\* database, whatever was selected, changed or loaded again in between.
THEOREM SettingsAreThoseStored == Spec => []SettingsMatchDatabase
<1>1. Init => MemoryIsRight
  <2>1. Init => LifeInv /\ MemoryInv
    BY EmptyChanges DEF Init, LifeInv, NewInv, GoneInv, MemoryInv
  <2> QED
    BY <2>1, InitTypes DEF MemoryIsRight
<1>2. MemoryIsRight /\ [Next]_vars => MemoryIsRight'
  BY StepTypes, LifeStep, MemoryStep DEF MemoryIsRight
<1>3. MemoryIsRight => SettingsMatchDatabase
  BY EmptyChanges, SettingsSplit
  DEF MemoryIsRight, MemoryInv, SettingsMatchDatabase, AtRest
<1> QED
  BY <1>1, <1>2, <1>3, PTL DEF Spec

LifeIsRight == TypeOK /\ LifeInv

\* Once the signal of a deletion has arrived, the account is known to be
\* deleted and disabled, and stays so.
THEOREM DeletionsAreSeen == Spec => []DeletionIsSeen
<1>1. Init => LifeIsRight
  BY InitTypes, EmptyChanges
  DEF Init, LifeInv, NewInv, GoneInv, LifeIsRight
<1>2. LifeIsRight /\ [Next]_vars => LifeIsRight'
  BY StepTypes, LifeStep DEF LifeIsRight
<1>3. LifeIsRight => DeletionIsSeen
  BY NoMessageIsNotGone DEF LifeIsRight, LifeInv, GoneInv, DeletionIsSeen
<1> QED
  BY <1>1, <1>2, <1>3, PTL DEF Spec
-----------------------------------------------------------------------------
(* Watches and followers.                                                  *)

\* A setting that is watched changes only where its watch is invoked.
LEMMA WatchedStep ==
  ASSUME TypeOK, LoadedInv, [Next]_vars,
         NEW x \in watches \cap watches' \cap InServices
  PROVE  settings'[x] # settings[x] => x \in invoked'
<1>1. x.service \in loaded
  BY DEF LoadedInv
<1>2. ASSUME NEW ss \in SUBSET Owners, NEW s, Select(ss, s)
      PROVE  settings'[x] = settings[x]
  BY <1>1, <1>2, SelectEffect DEF TypeOK
<1>3. ASSUME NEW ch, NEW del, DoneChanges(ch, del),
             settings'[x] # settings[x]
      PROVE  x \in invoked'
  BY <1>3 DEF DoneChanges, UpdateSettings, InvokeWatches
<1>4. ASSUME NEW s \in Owners, NewFollower(s)
      PROVE  settings'[x] = settings[x]
  <2>1. {Global, s} \in SUBSET Owners
    BY DEF Owners
  <2> QED
    BY <2>1, <1>4, <1>2 DEF NewFollower
<1>5. ASSUME NEW s \in Owners, SelectService(s)
      PROVE  settings'[x] = settings[x]
  BY <1>5, <1>2 DEF SelectService
<1>6. ASSUME \/ \E s \in Owners : DropFollower(s)
             \/ \E k, v : WatchKey(k) \/ SetVariant(k, v)
             \/ \E v : SetDisplayName(v)
             \/ \E y : RemoveWatch(y)
             \/ Delete \/ Other
      PROVE  settings'[x] = settings[x]
  BY <1>6 DEF DropFollower, WatchKey, SetVariant, SetDisplayName, Change,
     RemoveWatch, Delete, Other, RemoteDelete, RemoteStore, memVars
<1>7. ~Reload
  BY DEF Reload
<1>8. ASSUME UNCHANGED vars PROVE settings'[x] = settings[x]
  BY <1>8 DEF vars, memVars
<1> QED
  BY <1>3, <1>4, <1>5, <1>6, <1>7, <1>8 DEF Next, Client, Store, Receive

LoadedIsRight == TypeOK /\ LoadedInv

\* A watch on a setting of a service is invoked in every step that changes
\* the setting, or removes it: what is watched is in memory, and is not read
\* again.
THEOREM WatchesOfServicesAreTold == Spec => ServiceWatchesAreTold
<1>1. Init => LoadedIsRight
  BY InitTypes DEF Init, LoadedInv, LoadedIsRight
<1>2. LoadedIsRight /\ [Next]_vars => LoadedIsRight'
  BY StepTypes, LoadedStep DEF LoadedIsRight
<1>3. LoadedIsRight /\ [Next]_vars =>
        [\A x \in watches \cap watches' \cap InServices :
           settings'[x] # settings[x] => x \in invoked']_vars
  BY WatchedStep DEF LoadedIsRight
<1> QED
  BY <1>1, <1>2, <1>3, PTL DEF Spec, ServiceWatchesAreTold

\* FollowersAreRight in terms of equivalence.
FollowersInv ==
  \A s \in followers :
    isEnabled[s] <=> /\ enabled /\ ~deleted
                     /\ s = Global \/ settings[Setting(s, "enabled")] = "true"

LEMMA FollowersInvIsRight == TypeOK /\ FollowersInv => FollowersAreRight
<1> SUFFICES ASSUME TypeOK, FollowersInv, NEW s \in followers
             PROVE  isEnabled[s] = Enabled(s, enabled /\ ~deleted, settings)
  BY DEF FollowersAreRight
<1>1. isEnabled[s] \in BOOLEAN
  BY Zenon DEF TypeOK
<1>2. isEnabled[s] <=> Enabled(s, enabled /\ ~deleted, settings)
  BY DEF FollowersInv, Enabled
<1>3. Enabled(s, enabled /\ ~deleted, settings) \in BOOLEAN
  BY DEF Enabled
<1> QED
  BY <1>1, <1>2, <1>3, Zenon

\* The handlers of a store or of a signal leave every follower right: they
\* run whenever the flag of the account or of a service changes.
LEMMA DoneKeepsFollowers ==
  ASSUME TypeOK, FollowersInv, ~deleted,
         NEW ch \in Edits, NEW del \in BOOLEAN, DoneChanges(ch, del)
  PROVE  FollowersInv'
<1> SUFFICES ASSUME NEW s \in followers
             PROVE  isEnabled'[s] <=>
                      /\ enabled' /\ ~deleted'
                      /\ \/ s = Global
                         \/ settings'[Setting(s, "enabled")] = "true"
  BY DEF FollowersInv, DoneChanges
<1>1. s \in Owners
  BY DEF TypeOK
<1> DEFINE E == EnabledIn(ch)
           x == Setting(s, "enabled")
<1>2. /\ del => isEnabled'[s] = FALSE
      /\ ~del /\ E = {} => isEnabled'[s] = isEnabled[s]
      /\ ~del /\ E # {} => isEnabled'[s] = FlagWith(ch, E, s)
  BY LastFlag DEF DoneChanges
<1>3. CASE del
  BY <1>2, <1>3 DEF DoneChanges
<1>4. CASE ~del
  <2>1. /\ ~deleted'
        /\ enabled' <=> IF GlobalEnabled \in E THEN ch[GlobalEnabled] = "true"
                        ELSE enabled
    <3>1. GlobalEnabled \in E <=> ch[GlobalEnabled] # "same"
      BY SettingsSplit DEF EnabledIn, Changed, GlobalEnabled, Setting
    <3> QED
      BY <1>4, <3>1 DEF DoneChanges
  <2>2. s \in Services => settings'[x] = IF x \in E \cap Updated(ch)
                                         THEN ch[x] ELSE settings[x]
    <3>1. UpdateSettings(ch)
      BY DEF DoneChanges
    <3> QED
      BY <3>1, EnabledSetting
      DEF UpdateSettings, EnabledIn, Updated, Changed
  <2>3. FlagWith(ch, E, s) <=>
          enabled' /\ (s = Global \/ settings'[x] = "true")
    <3>1. s # Global => s \in Services /\ x \in InServices
      BY <1>1, EnabledSetting DEF Owners
    <3> QED
      BY <2>1, <2>2, <3>1 DEF FlagWith, Enabled
  <2>4. CASE E # {}
    BY <1>2, <1>4, <2>1, <2>3, <2>4
  <2>5. CASE E = {}
    <3>1. isEnabled[s] <=> enabled' /\ (s = Global \/ settings'[x] = "true")
      BY <1>1, <2>1, <2>2, <2>5 DEF FollowersInv, Owners
    <3> QED
      BY <1>2, <1>4, <2>1, <2>5, <3>1
  <2> QED
    BY <2>4, <2>5
<1> QED
  BY <1>3, <1>4

\* The flag of a follower is not disturbed by services read later.
LEMMA SelectKeepsFollowers ==
  ASSUME TypeOK, LoadedInv, NEW ss \in SUBSET Owners, NEW t, Select(ss, t)
  PROVE  /\ enabled' = enabled /\ deleted' = deleted
         /\ \A s \in followers :
              s # Global => settings'[Setting(s, "enabled")] =
                              settings[Setting(s, "enabled")]
<1>1. \A s \in followers : s \in loaded /\ (s # Global => s \in Services)
  BY DEF LoadedInv, TypeOK, Owners
<1>2. \A x \in InServices :
        settings'[x] = IF stored /\ x.service \in ss \ loaded
                       THEN table[x] ELSE settings[x]
  BY SelectEffect DEF TypeOK
<1>3. \A s \in followers :
        s # Global => settings'[Setting(s, "enabled")] =
                        settings[Setting(s, "enabled")]
  BY <1>1, <1>2, EnabledSetting
<1> QED
  BY <1>3 DEF Select

LEMMA FollowersStep ==
  TypeOK /\ LoadedInv /\ LifeInv /\ FollowersInv /\ [Next]_vars
    => FollowersInv'
<1> SUFFICES ASSUME TypeOK, LoadedInv, LifeInv, FollowersInv, [Next]_vars
             PROVE  FollowersInv'
  OBVIOUS
<1>1. ASSUME UNCHANGED <<enabled, deleted, settings, followerVars>>
      PROVE  FollowersInv'
  BY <1>1 DEF FollowersInv, followerVars
<1>2. ASSUME NEW s \in Owners, SelectService(s) PROVE FollowersInv'
  <2>1. Select({s}, s) /\ UNCHANGED followerVars
    BY <1>2 DEF SelectService
  <2> QED
    BY <2>1, SelectKeepsFollowers DEF FollowersInv, followerVars
<1>3. ASSUME NEW s \in Owners, NewFollower(s) PROVE FollowersInv'
  <2>1. Select({Global, s}, s) /\ {Global, s} \in SUBSET Owners
    BY <1>3 DEF NewFollower, Owners
  <2>2. /\ followers' = followers \cup {s} /\ s \notin followers
        /\ isEnabled'[s] = Enabled(s, enabled, settings')
        /\ \A q \in followers : isEnabled'[q] = isEnabled[q]
    BY <1>3 DEF NewFollower, TypeOK
  <2>3. enabled => ~deleted
    BY DEF LifeInv, GoneInv
  <2>4. enabled' = enabled /\ deleted' = deleted
    BY <2>1 DEF Select
  <2>5. isEnabled'[s] <=>
          /\ enabled' /\ ~deleted'
          /\ s = Global \/ settings'[Setting(s, "enabled")] = "true"
    BY <2>2, <2>3, <2>4 DEF Enabled
  <2>6. ASSUME NEW q \in followers
        PROVE  isEnabled'[q] <=>
                 /\ enabled' /\ ~deleted'
                 /\ q = Global \/ settings'[Setting(q, "enabled")] = "true"
    BY <2>1, <2>2, SelectKeepsFollowers DEF FollowersInv
  <2> QED
    BY <2>2, <2>5, <2>6 DEF FollowersInv
<1>4. ASSUME NEW s \in Owners, DropFollower(s) PROVE FollowersInv'
  <2>1. /\ followers' = followers \ {s}
        /\ \A q \in followers \ {s} : isEnabled'[q] = isEnabled[q]
        /\ UNCHANGED <<enabled, deleted, settings>>
    BY <1>4 DEF DropFollower, TypeOK, memVars
  <2> QED
    BY <2>1 DEF FollowersInv
<1>5. ASSUME NEW k, NEW v, WatchKey(k) \/ SetVariant(k, v)
      PROVE  FollowersInv'
  BY <1>5, <1>1 DEF WatchKey, SetVariant, Change, memVars
<1>6. ASSUME NEW v, SetDisplayName(v) PROVE FollowersInv'
  BY <1>6, <1>1 DEF SetDisplayName, Change, memVars
<1>7. ASSUME NEW x, RemoveWatch(x) PROVE FollowersInv'
  BY <1>7, <1>1 DEF RemoveWatch, memVars
<1>8. ASSUME Delete \/ Other PROVE FollowersInv'
  BY <1>8, <1>1 DEF Delete, Other, RemoteDelete, RemoteStore, memVars
<1>9. ASSUME Store PROVE FollowersInv'
  BY <1>9, DoneKeepsFollowers DEF Store, TypeOK, Edits
<1>10. ASSUME Receive PROVE FollowersInv'
  <2>1. ~deleted /\ message.vals \in Edits /\ message.deleted \in BOOLEAN
    BY <1>10 DEF Receive, LifeInv, GoneInv, TypeOK, Edits
  <2> QED
    BY <2>1, <1>10, DoneKeepsFollowers DEF Receive
<1>11. ASSUME Reload PROVE FollowersInv'
  BY <1>11 DEF Reload, FollowersInv
<1>12. CASE UNCHANGED vars
  BY <1>12, <1>1 DEF vars, memVars
<1> QED
  BY <1>2, <1>3, <1>4, <1>5, <1>6, <1>7, <1>8, <1>9, <1>10, <1>11, <1>12
  DEF Next, Client

FollowingIsRight == TypeOK /\ LoadedInv /\ LifeInv /\ FollowersInv

\* An AgAccountService is enabled when its account and its service are, and
\* never once the account is deleted, although only signals tell it.
THEOREM FollowersFollow == Spec => []FollowersAreRight
<1>1. Init => FollowingIsRight
  BY InitTypes, EmptyChanges
  DEF Init, LoadedInv, LifeInv, NewInv, GoneInv, FollowersInv,
      FollowingIsRight
<1>2. FollowingIsRight /\ [Next]_vars => FollowingIsRight'
  BY StepTypes, LoadedStep, LifeStep, FollowersStep DEF FollowingIsRight
<1>3. FollowingIsRight => FollowersAreRight
  BY FollowersInvIsRight DEF FollowingIsRight
<1> QED
  BY <1>1, <1>2, <1>3, PTL DEF Spec
-----------------------------------------------------------------------------
(* Columns, rows and fields.                                               *)

\* What is changed, here or elsewhere, sets the name and the enabled flag,
\* and never unsets them.
SetsColumns(ch) == \A x \in InColumns : ch[x] \in Of(x) \cup {"same"}

ColumnsInv == SetsColumns(changes) /\ SetsColumns(message.vals)
              /\ ColumnsMatchRows

\* While the account lives, its fields are its columns but for what the
\* signal under way says, and that is what the columns have.
FieldsInv ==
  live =>
    /\ IF message.vals[GlobalName] = "same" THEN displayName = nameColumn
       ELSE nameColumn = message.vals[GlobalName]
    /\ IF message.vals[GlobalEnabled] = "same"
       THEN enabled <=> enabledColumn
       ELSE enabledColumn <=> message.vals[GlobalEnabled] = "true"

\* What SetsColumns says of the two columns.
LEMMA SetsColumnsOf ==
  ASSUME NEW ch, SetsColumns(ch)
  PROVE  /\ ch[GlobalName] = "same" \/ ch[GlobalName] \in Of(GlobalName)
         /\ ch[GlobalEnabled] = "same"
            \/ ch[GlobalEnabled] \in Of(GlobalEnabled)
BY DEF SetsColumns, InColumns

\* The columns get what the rows get.
LEMMA WriteKeepsColumns ==
  ASSUME ColumnsMatchRows, NEW ch \in Edits, SetsColumns(ch),
         Write(ch, FALSE)
  PROVE  ColumnsMatchRows'
<1>1. /\ table'[GlobalName] = IF ch[GlobalName] = "same"
                              THEN table[GlobalName] ELSE ch[GlobalName]
      /\ table'[GlobalEnabled] = IF ch[GlobalEnabled] = "same"
                                 THEN table[GlobalEnabled]
                                 ELSE ch[GlobalEnabled]
  BY WriteEffect, SettingsSplit
<1>2. table'[GlobalName] = nameColumn'
  BY <1>1, WriteEffect, SetsColumnsOf, ValuesOf DEF ColumnsMatchRows
<1>3. enabledColumn' <=> table'[GlobalEnabled] = "true"
  <2>1. CASE ch[GlobalEnabled] = "same"
    <3>1. enabledColumn' = enabledColumn
      BY <2>1, WriteEffect, ValuesOf
    <3> QED
      BY <2>1, <3>1, <1>1 DEF ColumnsMatchRows
  <2>2. CASE ch[GlobalEnabled] # "same"
    <3>1. enabledColumn' = (ch[GlobalEnabled] = "true")
      BY <2>2, WriteEffect, SetsColumnsOf
    <3> QED
      BY <2>2, <3>1, <1>1
  <2> QED
    BY <2>1, <2>2
<1> QED
  BY <1>2, <1>3 DEF ColumnsMatchRows

LEMMA DeleteKeepsColumns ==
  ASSUME NEW ch, Write(ch, TRUE)
  PROVE  ColumnsMatchRows' /\ ~live'
BY EmptyChanges, SettingsSplit DEF Write, DeleteRows, ColumnsMatchRows

LEMMA NoChangeSetsColumns == SetsColumns(NoChange)
BY EmptyChanges, SettingsSplit DEF SetsColumns

LEMMA ColumnsStep ==
  ASSUME "unset_columns" \notin Env, TypeOK, ColumnsInv, [Next]_vars
  PROVE  ColumnsInv'
<1>1. ASSUME UNCHANGED <<dbVars, message>>, SetsColumns(changes')
      PROVE  ColumnsInv'
  BY <1>1 DEF ColumnsInv, ColumnsMatchRows, SetsColumns, dbVars
<1>2. SetsColumns(changes) /\ SetsColumns(message.vals)
  BY DEF ColumnsInv
<1>3. ASSUME NEW x \in Settings, NEW v \in Values, Change(x, v),
             x \in InColumns => v \in Of(x)
      PROVE  ColumnsInv'
  <2>1. \A y \in InColumns :
          changes'[y] = IF y = x THEN v ELSE changes[y]
    BY <1>3, SettingsSplit DEF Change, TypeOK
  <2>2. SetsColumns(changes')
    BY <2>1, <1>2, <1>3 DEF SetsColumns
  <2> QED
    BY <2>2, <1>1, <1>3 DEF Change
<1>4. ASSUME NEW s, SelectService(s) \/ NewFollower(s) \/ DropFollower(s)
      PROVE  ColumnsInv'
  BY <1>4, <1>1, <1>2 DEF SelectService, NewFollower, DropFollower, editVars
<1>5. ASSUME NEW k, WatchKey(k) PROVE ColumnsInv'
  BY <1>5, <1>1, <1>2 DEF WatchKey, editVars
<1>6. ASSUME NEW k, NEW v \in Values, SetVariant(k, v) PROVE ColumnsInv'
  BY <1>6, <1>3 DEF SetVariant
<1>7. ASSUME NEW v \in Of(GlobalName), SetDisplayName(v) PROVE ColumnsInv'
  BY <1>7, <1>3, SettingsSplit, ValuesOf DEF SetDisplayName
<1>8. ASSUME NEW x, RemoveWatch(x) PROVE ColumnsInv'
  BY <1>8, <1>1, <1>2 DEF RemoveWatch, editVars
<1>9. ASSUME Delete PROVE ColumnsInv'
  BY <1>9, <1>1, <1>2 DEF Delete
<1>10. ASSUME Store PROVE ColumnsInv'
  <2>1. SetsColumns(changes') /\ SetsColumns(message'.vals)
    BY <1>10, NoChangeSetsColumns, EmptyChanges DEF Store
  <2>2. CASE deleting
    BY <2>1, <2>2, <1>10, DeleteKeepsColumns DEF Store, Write, ColumnsInv,
       SetsColumns
  <2>3. CASE ~deleting
    <3>1. Write(changes, FALSE) /\ changes \in Edits
      BY <2>3, <1>10 DEF Store, Write, TypeOK, Edits
    <3>2. ColumnsMatchRows'
      BY <3>1, <1>2, WriteKeepsColumns DEF ColumnsInv
    <3> QED
      BY <2>1, <3>2 DEF ColumnsInv, SetsColumns
  <2> QED
    BY <2>2, <2>3
<1>11. ASSUME Reload PROVE ColumnsInv'
  BY <1>11, <1>1, NoChangeSetsColumns DEF Reload
<1>12. ASSUME RemoteDelete PROVE ColumnsInv'
  <2>1. Write(NoChange, TRUE) /\ message'.vals = NoChange
    BY <1>12, EmptyChanges DEF RemoteDelete, NoMessage
  <2>2. ColumnsMatchRows' /\ SetsColumns(message'.vals)
    BY <2>1, DeleteKeepsColumns, NoChangeSetsColumns
  <2> QED
    BY <2>2, <1>2, <1>12 DEF RemoteDelete, ColumnsInv, SetsColumns, editVars
<1>13. ASSUME NEW x \in Settings, NEW v \in Values, RemoteStore(x, v)
       PROVE  ColumnsInv'
  <2> DEFINE ch == [NoChange EXCEPT ![x] = v]
  <2>1. ch \in Edits /\ \A y \in Settings :
                          ch[y] = IF y = x THEN v ELSE NoChange[y]
    BY EmptyChanges DEF Edits
  <2>2. message'.vals = ch /\ Write(ch, FALSE) /\ UNCHANGED editVars
        /\ v \in Of(x) \cup {"none"} /\ (v = "none" => x \notin InColumns)
    <3>1. message' = [vals |-> ch, deleted |-> FALSE]
      BY <1>13 DEF RemoteStore, NoMessage
    <3> QED
      BY <3>1, <1>13 DEF RemoteStore
  <2> HIDE DEF ch
  <2>3. SetsColumns(ch)
    BY <2>1, <2>2, EmptyChanges, SettingsSplit DEF SetsColumns
  <2>4. ColumnsMatchRows'
    BY <2>1, <2>2, <2>3, WriteKeepsColumns DEF ColumnsInv
  <2> QED
    BY <2>2, <2>3, <2>4, <1>2 DEF ColumnsInv, SetsColumns, editVars
<1>14. ASSUME Receive PROVE ColumnsInv'
  BY <1>14, <1>2, NoChangeSetsColumns, EmptyChanges
  DEF Receive, ColumnsInv, ColumnsMatchRows, SetsColumns, dbVars, editVars
<1>15. CASE UNCHANGED vars
  BY <1>15, <1>1, <1>2 DEF vars, editVars
<1> QED
  BY <1>4, <1>5, <1>6, <1>7, <1>8, <1>9, <1>10, <1>11, <1>12, <1>13, <1>14,
     <1>15 DEF Next, Client, Other

ColumnsAreRight == TypeOK /\ ColumnsInv

\* Where clients never unset the name or the enabled flag, the columns of
\* the Accounts table and the rows of Settings say the same of both, so that
\* a process that reads the one agrees with one that reads the other.
THEOREM ColumnsAgreeWithRows ==
  ASSUME "unset_columns" \notin Env
  PROVE  Spec => []ColumnsMatchRows
<1>1. Init => ColumnsAreRight
  BY InitTypes, EmptyChanges, SettingsSplit, NoChangeSetsColumns
  DEF Init, ColumnsInv, ColumnsMatchRows, ColumnsAreRight
<1>2. ColumnsAreRight /\ [Next]_vars => ColumnsAreRight'
  BY StepTypes, ColumnsStep DEF ColumnsAreRight
<1>3. ColumnsAreRight => ColumnsMatchRows
  BY DEF ColumnsAreRight, ColumnsInv
<1> QED
  BY <1>1, <1>2, <1>3, PTL DEF Spec
-----------------------------------------------------------------------------
\* The fields get what the columns get.
LEMMA StoreKeepsFields ==
  ASSUME "unset_columns" \notin Env, TypeOK, LifeInv, ColumnsInv, FieldsInv,
         Store
  PROVE  FieldsInv'
<1> SUFFICES ASSUME live' PROVE FieldsInv'
  BY DEF FieldsInv
<1>1. ~deleting
  BY DEF Store, Write, DeleteRows
<1>2. /\ Write(changes, FALSE) /\ changes \in Edits
      /\ UpdateSettings(changes) /\ SetsColumns(changes)
      /\ message = NoMessage /\ message' = NoMessage
      /\ \A x \in Settings : message.vals[x] = "same"
  BY <1>1, EmptyChanges DEF Store, Write, DoneChanges, TypeOK, Edits,
     ColumnsInv
<1>3. /\ enabled' = IF changes[GlobalEnabled] = "same" THEN enabled
                    ELSE changes[GlobalEnabled] = "true"
      /\ displayName' = IF changes[GlobalName] = "same" THEN displayName
                        ELSE changes[GlobalName]
  BY <1>1, <1>2 DEF Store, DoneChanges, UpdateSettings
<1>4. displayName = nameColumn /\ (enabled <=> enabledColumn)
  <2>1. CASE ~stored
    BY <2>1 DEF LifeInv, NewInv
  <2>2. CASE stored
    <3>1. live
      BY <2>2, <1>2, NoMessageIsNotGone DEF Store, LifeInv, GoneInv
    <3> QED
      BY <3>1, <1>2, SettingsSplit DEF FieldsInv
  <2> QED
    BY <2>1, <2>2
<1>5. displayName' = nameColumn'
  BY <1>2, <1>3, <1>4, WriteEffect, SetsColumnsOf, ValuesOf
<1>6. enabled' <=> enabledColumn'
  <2>1. CASE changes[GlobalEnabled] = "same"
    <3>1. enabledColumn' = enabledColumn /\ enabled' = enabled
      BY <2>1, <1>2, <1>3, WriteEffect, ValuesOf
    <3> QED
      BY <3>1, <1>4
  <2>2. CASE changes[GlobalEnabled] # "same"
    <3>1. /\ enabledColumn' = (changes[GlobalEnabled] = "true")
          /\ enabled' = (changes[GlobalEnabled] = "true")
      BY <2>2, <1>2, <1>3, WriteEffect, SetsColumnsOf
    <3> QED
      BY <3>1
  <2> QED
    BY <2>1, <2>2
<1> QED
  BY <1>2, <1>5, <1>6, SettingsSplit DEF FieldsInv

LEMMA RemoteStoreKeepsFields ==
  ASSUME "unset_columns" \notin Env, TypeOK, FieldsInv,
         NEW x \in Settings, NEW v \in Values, RemoteStore(x, v)
  PROVE  FieldsInv'
<1> DEFINE ch == [NoChange EXCEPT ![x] = v]
<1>1. ch \in Edits /\ \A y \in Settings :
                        ch[y] = IF y = x THEN v ELSE NoChange[y]
  BY EmptyChanges DEF Edits
<1>2. message'.vals = ch /\ Write(ch, FALSE)
  <2>1. message' = [vals |-> ch, deleted |-> FALSE]
    BY DEF RemoteStore, NoMessage
  <2> QED
    BY <2>1 DEF RemoteStore
<1> HIDE DEF ch
<1>3. /\ live /\ UNCHANGED <<displayName, enabled>>
      /\ \A y \in Settings : message.vals[y] = "same"
      /\ v \in Of(x) \cup {"none"} /\ (v = "none" => x \notin InColumns)
  BY EmptyChanges DEF RemoteStore, memVars
<1>4. SetsColumns(ch)
  BY <1>1, <1>3, EmptyChanges, SettingsSplit DEF SetsColumns
<1>5. displayName = nameColumn /\ (enabled <=> enabledColumn)
  BY <1>3, SettingsSplit DEF FieldsInv
<1>6. IF ch[GlobalName] = "same" THEN displayName' = nameColumn'
      ELSE nameColumn' = ch[GlobalName]
  BY <1>1, <1>2, <1>3, <1>4, <1>5, WriteEffect, SetsColumnsOf, ValuesOf
<1>7. CASE ch[GlobalEnabled] = "same"
  <2>1. enabledColumn' = enabledColumn /\ enabled' = enabled
    BY <1>7, <1>1, <1>2, <1>3, WriteEffect, ValuesOf
  <2> QED
    BY <2>1, <1>2, <1>5, <1>6, <1>7 DEF FieldsInv
<1>8. CASE ch[GlobalEnabled] # "same"
  <2>1. enabledColumn' = (ch[GlobalEnabled] = "true")
    BY <1>8, <1>1, <1>2, <1>4, WriteEffect, SetsColumnsOf
  <2> QED
    BY <2>1, <1>2, <1>6, <1>8 DEF FieldsInv
<1> QED
  BY <1>7, <1>8

LEMMA ReceiveKeepsFields ==
  ASSUME TypeOK, LifeInv, FieldsInv, Receive
  PROVE  FieldsInv'
<1> SUFFICES ASSUME live' PROVE FieldsInv'
  BY DEF FieldsInv
<1>1. live /\ ~message.deleted /\ UNCHANGED <<nameColumn, enabledColumn>>
  BY DEF Receive, dbVars, LifeInv, GoneInv
<1>2. \A x \in Settings : message'.vals[x] = "same"
  BY EmptyChanges DEF Receive
<1>3. displayName' = IF message.vals[GlobalName] = "same" THEN displayName
                     ELSE message.vals[GlobalName]
  BY DEF Receive, DoneChanges, UpdateSettings
<1>4. enabled' = IF message.vals[GlobalEnabled] = "same" THEN enabled
                 ELSE message.vals[GlobalEnabled] = "true"
  BY <1>1 DEF Receive, DoneChanges
<1>5. displayName' = nameColumn'
  BY <1>1, <1>3 DEF FieldsInv
<1>6. CASE message.vals[GlobalEnabled] = "same"
  <2>1. enabled' = enabled /\ (enabled <=> enabledColumn)
    BY <1>1, <1>4, <1>6 DEF FieldsInv
  <2> QED
    BY <2>1, <1>1, <1>2, <1>5, SettingsSplit DEF FieldsInv
<1>7. CASE message.vals[GlobalEnabled] # "same"
  <2>1. /\ enabled' = (message.vals[GlobalEnabled] = "true")
        /\ enabledColumn <=> message.vals[GlobalEnabled] = "true"
    BY <1>1, <1>4, <1>7 DEF FieldsInv
  <2> QED
    BY <2>1, <1>1, <1>2, <1>5, SettingsSplit DEF FieldsInv
<1> QED
  BY <1>6, <1>7

LEMMA FieldsStep ==
  ASSUME "unset_columns" \notin Env, TypeOK, LifeInv, ColumnsInv, FieldsInv,
         [Next]_vars
  PROVE  FieldsInv'
<1>1. ASSUME UNCHANGED <<dbVars, displayName, enabled, message>>
      PROVE  FieldsInv'
  BY <1>1 DEF FieldsInv, dbVars
<1>2. ASSUME NEW s, SelectService(s) \/ NewFollower(s) \/ DropFollower(s)
      PROVE  FieldsInv'
  BY <1>2, <1>1
  DEF SelectService, NewFollower, DropFollower, Select, memVars
<1>3. ASSUME NEW k, NEW v, WatchKey(k) \/ SetVariant(k, v)
      PROVE  FieldsInv'
  BY <1>3, <1>1 DEF WatchKey, SetVariant, Change, memVars
<1>4. ASSUME NEW v, SetDisplayName(v) PROVE FieldsInv'
  BY <1>4, <1>1 DEF SetDisplayName, Change, memVars
<1>5. ASSUME NEW x, RemoveWatch(x) PROVE FieldsInv'
  BY <1>5, <1>1 DEF RemoveWatch, memVars
<1>6. ASSUME Delete PROVE FieldsInv'
  BY <1>6, <1>1 DEF Delete, memVars
<1>7. ASSUME Reload PROVE FieldsInv'
  <2>1. \A x \in Settings : message'.vals[x] = "same"
    BY <1>7, EmptyChanges DEF Reload
  <2>2. displayName' = nameColumn' /\ enabled' = enabledColumn'
    BY <1>7 DEF Reload, dbVars
  <2> QED
    BY <2>1, <2>2, SettingsSplit DEF FieldsInv
<1>8. ASSUME RemoteDelete PROVE FieldsInv'
  BY <1>8 DEF RemoteDelete, Write, DeleteRows, FieldsInv
<1>9. CASE UNCHANGED vars
  BY <1>9, <1>1 DEF vars, memVars
<1> QED
  BY <1>2, <1>3, <1>4, <1>5, <1>6, <1>7, <1>8, <1>9, StoreKeepsFields,
     RemoteStoreKeepsFields, ReceiveKeepsFields DEF Next, Client, Other

FieldsAreRight == TypeOK /\ LifeInv /\ ColumnsInv /\ FieldsInv

\* Where clients never unset the name or the enabled flag, those of the
\* object are, once the signals have arrived, those the next process to load
\* the account reads from the Accounts table.
THEOREM FieldsAreThoseStored ==
  ASSUME "unset_columns" \notin Env
  PROVE  Spec => []FieldsMatchDatabase
<1>1. Init => FieldsAreRight
  BY InitTypes, EmptyChanges, SettingsSplit, NoChangeSetsColumns
  DEF Init, LifeInv, NewInv, GoneInv, ColumnsInv, ColumnsMatchRows, FieldsInv,
      FieldsAreRight
<1>2. FieldsAreRight /\ [Next]_vars => FieldsAreRight'
  BY StepTypes, LifeStep, ColumnsStep, FieldsStep DEF FieldsAreRight
<1>3. FieldsAreRight => FieldsMatchDatabase
  <2> SUFFICES ASSUME FieldsAreRight, AtRest
               PROVE  displayName = nameColumn /\ enabled = enabledColumn
    BY DEF FieldsMatchDatabase
  <2>1. displayName = nameColumn /\ (enabled <=> enabledColumn)
    BY EmptyChanges, SettingsSplit DEF AtRest, FieldsAreRight, FieldsInv
  <2>2. enabled \in BOOLEAN /\ enabledColumn \in BOOLEAN
    BY DEF FieldsAreRight, TypeOK
  <2> QED
    BY <2>1, <2>2, Zenon
<1> QED
  BY <1>1, <1>2, <1>3, PTL DEF Spec
=============================================================================
