----------------------- MODULE AccountListings_proofs ------------------------
(***************************************************************************)
(* Proofs about AccountListings, for every value of its constants.         *)
(*                                                                         *)
(* A listing of what is enabled keeps, of everything that has been enabled *)
(* since it began, what is still to be looked at and what it has put in    *)
(* its list.  It rests on what ServiceRegistry_proofs shows about the      *)
(* Services table: a service that a setting names has a row for ever.      *)
(* Of a foreign account, the last signal on its way that tells of a        *)
(* setting says what the row says, and where there is none, the memory of  *)
(* the manager does.                                                       *)
(***************************************************************************)
EXTENDS AccountListings, ServiceRegistry_proofs, SequenceTheorems

-----------------------------------------------------------------------------
(* The services, which listings change only by calls of ServiceRegistry.   *)

RowsKept == \A s \in Services : InTable(s) => InTable(s)'

LEMMA RegistryStays ==
  ASSUME RegistryIsTyped, UNCHANGED <<registryVars, openVars>>, locks' \in Nat
  PROVE  RegistryIsTyped' /\ RowsKept
<1>1. UNCHANGED registryVars /\ UNCHANGED openVars
  OBVIOUS
<1>2. IndInv'
  BY <1>1, Unchanged DEF RegistryIsTyped, IndInv, RegistryInv, registryVars
<1>3. TypeInv'
  BY <1>1, TypesUnchanged DEF RegistryIsTyped, TypeInv, registryVars
<1> QED
  BY <1>1, <1>2, <1>3 DEF RegistryIsTyped, RowsKept, InTable, registryVars

LEMMA RegistrySteps ==
  ASSUME RegistryIsTyped, RegistryNext
  PROVE  RegistryIsTyped' /\ RowsKept
<1>1. RegistryIsTyped'
  BY TypesInvariant
<1>2. ASSUME NEW m \in Managers, InsertRow(m)
      PROVE  RowsKept
  <2>1. lastId \in Nat /\ row = [s \in Services |-> row[s]]
    BY DEF RegistryIsTyped, IndInv, RegistryInv, RowsInv
  <2>2. CASE UNCHANGED row
    BY <2>2 DEF RowsKept, InTable
  <2>3. CASE row' = [row EXCEPT ![call[m].name] =
                       [id |-> lastId + 1, from |-> call[m].object.type]]
    <3>1. \A s \in Services : row'[s].id = row[s].id
                                \/ row'[s].id = lastId + 1
      BY <2>1, <2>3
    <3> QED
      BY <2>1, <3>1 DEF RowsKept, InTable
  <2> QED
    BY <1>2, <2>2, <2>3 DEF InsertRow
<1>3. ASSUME UNCHANGED row
      PROVE  RowsKept
  BY <1>3 DEF RowsKept, InTable
<1>4. ASSUME NEW m \in Managers, Serving(m)
      PROVE  RowsKept
  BY <1>2, <1>3, <1>4
  DEF Serving, GetService, Consult, StoreSettings, SelectRow, SelectId,
      AbortOnTimeout, Vanish, HandleMessage, CloseManager
<1>5. RowsKept
  BY <1>3, <1>4 DEF RegistryNext, registryVars, Install
<1> QED
  BY <1>1, <1>5

\* A service that an application stores a setting of has a row.
LEMMA KnownServices ==
  ASSUME RegistryIsTyped, NEW m \in Managers, NEW s \in Services, Has(m, s)
  PROVE  InTable(s)
BY DEF RegistryIsTyped, IndInv, RegistryInv, ServicesInv, Knows

LEMMA TakingIsConsulting ==
  ASSUME RegistryIsTyped, NEW m \in Managers, NEW s \in Services,
         TakeService(m, s)
  PROVE  RegistryIsTyped' /\ RowsKept
<1> DEFINE o   == services[m][s]
           new == LoadFromFile(m, o, s)
<1>1. /\ Free(m) /\ Has(m, s) /\ locks' = locks /\ UNCHANGED openVars
      /\ UNCHANGED <<row, lastId, files, call, inbox>>
  BY DEF TakeService
<1>2. services \in [Managers -> [Services -> ServiceObject \cup {NoService}]]
  BY DEF RegistryIsTyped, TypeInv, ObjectTypes
<1>3. locks' \in Nat
  BY <1>1 DEF RegistryIsTyped, TypeInv, OpenTypeOK
<1>4. CASE UNCHANGED services
  <2>1. UNCHANGED <<registryVars, openVars>>
    BY <1>1, <1>4 DEF registryVars
  <2> QED
    BY <1>3, <2>1, RegistryStays
<1>5. CASE /\ Lacks(o, "names")
           /\ services' = [services EXCEPT ![m][s] = LoadFromFile(m, @, s)]
  <2>1. services' = [services EXCEPT ![m] = [@ EXCEPT ![s] = new]]
    BY <1>5
  <2>2. CASE Found(m, s) = NoPlace
    <3>1. new = o
      BY <2>2 DEF LoadFromFile
    <3> HIDE DEF new
    <3>2. UNCHANGED services
      BY <1>2, <2>1, <3>1
    <3> QED
      BY <1>4, <3>2
  <2>3. CASE Found(m, s) # NoPlace
    <3>1. Consult(m, s)
      BY <1>1, <1>5, <2>1, <2>3 DEF Consult, Put
    <3>2. RegistryNext
      BY <3>1 DEF RegistryNext, Serving
    <3> QED
      BY <3>2, RegistrySteps
  <2> QED
    BY <2>2, <2>3
<1> QED
  BY <1>4, <1>5 DEF TakeService

LEMMA ServicesKeep ==
  ASSUME RegistryIsTyped, [Next]_allVars
  PROVE  RegistryIsTyped' /\ RowsKept
<1>1. locks \in Nat
  BY DEF RegistryIsTyped, TypeInv, OpenTypeOK
<1>2. ASSUME UNCHANGED registryVars, UNCHANGED openVars,
             Locked \/ NotLocked \/ UNCHANGED locks
      PROVE  RegistryIsTyped' /\ RowsKept
  BY <1>1, <1>2, RegistryStays DEF Locked, NotLocked
<1>3. ASSUME NEW m \in Managers, NEW l, Locals(m, l),
             Locked \/ NotLocked \/ UNCHANGED locks
      PROVE  RegistryIsTyped' /\ RowsKept
  BY <1>2, <1>3 DEF Locals, registryVars
<1>4. ASSUME NEW m \in Managers, Serving(m)
      PROVE  RegistryIsTyped' /\ RowsKept
  BY <1>4, RegistrySteps DEF RegistryNext
<1>5. ASSUME NEW m \in Managers, Opening(m), UNCHANGED registryVars
      PROVE  RegistryIsTyped' /\ RowsKept
  BY <1>5, RegistrySteps DEF RegistryNext
<1>6. ASSUME NEW m \in Managers, BetweenCalls(m) \/ Answer(m) \/ Gone(m)
      PROVE  RegistryIsTyped' /\ RowsKept
  BY <1>4, <1>6 DEF BetweenCalls, Answer, Gone, Serving
<1>7. ASSUME NEW m \in Managers, NEW op, BeginListing(m, op)
      PROVE  RegistryIsTyped' /\ RowsKept
  BY <1>2, <1>7 DEF BeginListing
<1>8. ASSUME NEW m \in Managers,
             \/ \E op \in {"services", "application"} : BeginReading(m, op)
             \/ \E a \in Accounts : NextAccount(m, a)
             \/ ReadDirectory(m) \/ AddNamed(m)
      PROVE  RegistryIsTyped' /\ RowsKept
  BY <1>3, <1>8 DEF BeginReading, NextAccount, ReadDirectory, AddNamed
<1>9. ASSUME NEW m \in Managers, EndListing(m)
      PROVE  RegistryIsTyped' /\ RowsKept
  BY <1>2, <1>9 DEF EndListing
<1>10. ASSUME NEW m \in Managers, NEW s \in Services, AskForService(m, s)
       PROVE  RegistryIsTyped' /\ RowsKept
  BY <1>4, <1>10 DEF AskForService, Serving
<1>11. ASSUME NEW m \in Managers, NEW a, NEW s \in Services, NEW on,
              StoreService(m, a, s, on)
       PROVE  RegistryIsTyped' /\ RowsKept
  <2>1. StoreSettings(m, s)
    BY <1>11 DEF StoreService, Storing, Change, StoreSettings
  <2> QED
    BY <1>4, <2>1 DEF Serving
<1>12. ASSUME NEW m \in Managers, NEW a, NEW on, StoreAccount(m, a, on)
       PROVE  RegistryIsTyped' /\ RowsKept
  BY <1>2, <1>12 DEF StoreAccount, Change, registryVars
<1>15. ASSUME NEW m \in Managers, NEW a, NEW on, NEW enabled,
              CreateAccount(m, a, on, enabled)
       PROVE  RegistryIsTyped' /\ RowsKept
  <2>1. CASE UNCHANGED inbox
    BY <1>2, <1>15, <2>1 DEF CreateAccount, Change, registryVars
  <2>2. CASE \E s \in Services : Has(m, s) /\ Tell(m, s)
    <3>1. \E s \in Services : StoreSettings(m, s)
      BY <1>15, <2>2 DEF CreateAccount, Storing, Change, StoreSettings
    <3> QED
      BY <1>4, <3>1 DEF Serving
  <2> QED
    BY <1>15, <2>1, <2>2 DEF CreateAccount
<1>16. ASSUME NEW m \in Managers, Receive(m)
       PROVE  RegistryIsTyped' /\ RowsKept
  <2>1. CASE \E msg \in inbox[m] : HandleMessage(m, msg)
    BY <1>4, <2>1 DEF Serving
  <2>2. CASE UNCHANGED <<registryVars, openVars, locks>>
    BY <1>2, <2>2
  <2> QED
    BY <1>16, <2>1, <2>2 DEF Receive, HandleServices
<1>17. ASSUME NEW m \in Managers, NEW a, Release(m, a)
       PROVE  RegistryIsTyped' /\ RowsKept
  BY <1>2, <1>17 DEF Release
<1>13. ASSUME NEW s \in Services, NEW in \in Installed, Install(s, in)
       PROVE  RegistryIsTyped' /\ RowsKept
  BY <1>13, RegistrySteps DEF RegistryNext
<1>14. CASE UNCHANGED allVars
  BY <1>2, <1>14 DEF allVars
<1> QED
  BY <1>5, <1>6, <1>7, <1>8, <1>9, <1>10, <1>11, <1>12, <1>13, <1>14, <1>15,
     <1>16, <1>17, TakingIsConsulting DEF Next
-----------------------------------------------------------------------------
(* The types of listings.                                                  *)

Dirs == {SubSeq(PlacesToList(e), i, Len(PlacesToList(e))) :
           e \in BOOLEAN, i \in 1..Len(SystemPlaces) + 2}

Listings ==
  [op : {"none", "enabled", "all", "services", "application", "named"},
   ids : SUBSET Accounts, of : Accounts \cup {AnyAccount}, dirs : Dirs,
   names : SUBSET Services, loaded : SUBSET Services, out : SUBSET Entries,
   failed : BOOLEAN]

Watched == [accounts : SUBSET Accounts, rows : SUBSET (Accounts \X Services),
            always : SUBSET (Accounts \X Services),
            unheard : SUBSET Accounts]

States == {"unborn", "absent", "disabled", "enabled"}

ForeignTyped ==
  /\ foreign \in [Managers -> SUBSET Accounts]
  /\ memory \in [Managers -> SUBSET (Accounts \X Services)]
  /\ news \in [Managers -> Seq(News)]

ListingsTyped ==
  /\ account \in [Accounts -> States]
  /\ enabledRows \subseteq Accounts \X Services
  /\ listing \in [Managers -> Listings]
  /\ during \in [Managers -> Watched]
  /\ ForeignTyped

\* The directories that are left to read.
LEMMA DirsToRead ==
  /\ <<>> \in Dirs
  /\ \A e \in BOOLEAN : PlacesToList(e) \in Dirs
  /\ \A d \in Dirs : d # <<>> => Tail(d) \in Dirs
<1> DEFINE n == Len(SystemPlaces)
<1>1. SystemPlaces \in Seq(Places) /\ n \in Nat
  BY DataFilesAssumption DEF Places
<1>2. \A e \in BOOLEAN : /\ PlacesToList(e) \in Seq(Places)
                         /\ Len(PlacesToList(e)) \in 1..n + 1
  <2>1. <<EnvPlace>> \in Seq(Places) /\ <<UserPlace>> \in Seq(Places)
    BY DEF Places
  <2> QED
    BY <1>1, <2>1 DEF PlacesToList
<1>3. Len(PlacesToList(FALSE)) = n + 1
  BY <1>1 DEF PlacesToList
<1>4. <<>> \in Dirs
  <2>1. SubSeq(PlacesToList(FALSE), n + 2, n + 1) = <<>>
    BY <1>1, <1>2
  <2>2. n + 2 \in 1..n + 2
    BY <1>1
  <2>3. SubSeq(PlacesToList(FALSE), n + 2, Len(PlacesToList(FALSE))) = <<>>
    BY <1>3, <2>1
  <2>4. \A e \in BOOLEAN, i \in 1..n + 2 :
          SubSeq(PlacesToList(e), i, Len(PlacesToList(e))) \in Dirs
    BY DEF Dirs
  <2>5. SubSeq(PlacesToList(FALSE), n + 2, Len(PlacesToList(FALSE))) \in Dirs
    BY <2>2, <2>4
  <2> QED
    BY <2>3, <2>5
<1>5. ASSUME NEW e \in BOOLEAN
      PROVE  PlacesToList(e) \in Dirs
  <2> DEFINE p == PlacesToList(e)
  <2>1. p \in Seq(Places)
    BY <1>2
  <2> HIDE DEF p
  <2>2. SubSeq(p, 1, Len(p)) = p
    BY <2>1
  <2>3. 1 \in 1..n + 2
    BY <1>1
  <2> QED
    BY <2>2, <2>3 DEF Dirs, p
<1>6. ASSUME NEW d \in Dirs, d # <<>>
      PROVE  Tail(d) \in Dirs
  <2>1. PICK e \in BOOLEAN, i \in 1..n + 2 :
          d = SubSeq(PlacesToList(e), i, Len(PlacesToList(e)))
    BY DEF Dirs
  <2> DEFINE p == PlacesToList(e)
  <2>2. p \in Seq(Places) /\ Len(p) <= n + 1 /\ Len(p) \in Nat /\ i \in Nat
    BY <1>1, <1>2
  <2>3. d = SubSeq(p, i, Len(p))
    BY <2>1
  <2> HIDE DEF p
  <2>4. i <= Len(p)
    BY <1>6, <2>2, <2>3
  <2>5. Tail(d) = SubSeq(p, i + 1, Len(p))
    BY <2>2, <2>3, <2>4
  <2>6. i + 1 \in 1..n + 2
    BY <1>1, <2>2, <2>4
  <2> QED
    BY <2>5, <2>6 DEF Dirs, p
<1> QED
  BY <1>4, <1>5, <1>6

LEMMA ListingShapes ==
  /\ NoListing \in Listings /\ NotWatched \in Watched
  /\ NoListing.op = "none" /\ NoListing.dirs = <<>>
BY DirsToRead DEF NoListing, NotWatched, Listings, Watched

\* A manager goes to another step of its listing.
LEMMA LocalsTypes ==
  ASSUME ListingsTyped, NEW m \in Managers, NEW l \in Listings,
         listing' = [listing EXCEPT ![m] = l],
         UNCHANGED <<account, enabledRows, foreignVars>>,
         during' \in [Managers -> Watched]
  PROVE  ListingsTyped'
BY DEF ListingsTyped, ForeignTyped, foreignVars

LEMMA AccountsToList ==
  ASSUME NEW m \in Managers, NEW op \in {"all", "enabled"}
  PROVE  ListIds(m, op) \subseteq Accounts
BY DEF ListIds, IdsByType, EnabledIdsByType

LEMMA ChosenTypes ==
  ASSUME NEW m, NEW l \in Listings
  PROVE  Chosen(m, l) \subseteq Entries
<1>1. l.of \in Accounts \cup {AnyAccount} /\ l.loaded \subseteq Services
  BY DEF Listings
<1> QED
  BY <1>1 DEF Chosen, Entries

LEMMA TookTypes ==
  ASSUME NEW l \in Listings, NEW s \in Services, NEW found \in BOOLEAN
  PROVE  Took(l, s, found) \in Listings
<1> DEFINE o == IF found THEN s ELSE NoService
           t == [l EXCEPT !.names = @ \ {s}]
<1>1. l.of \in Accounts \cup {AnyAccount} /\ o \in Services \cup {NoService}
  BY DEF Listings
<1>2. /\ <<l.of, o>> \in Entries
      /\ <<l.of, s>> \in Entries
  BY <1>1 DEF Entries
<1>3. /\ [t EXCEPT !.out = @ \cup {<<l.of, o>>}] \in Listings
      /\ [t EXCEPT !.out = @ \cup {<<l.of, s>>}] \in Listings
      /\ [t EXCEPT !.loaded = @ \cup {s}] \in Listings
      /\ t \in Listings
  BY <1>2 DEF Listings
<1> QED
  BY <1>3 DEF Took

LEMMA ChangeTypes ==
  ASSUME ListingsTyped, NEW on, NEW rows, Change(on, rows),
         on \in [Accounts -> States],
         rows \subseteq Accounts \X Services, ForeignTyped'
  PROVE  ListingsTyped'
<1>1. /\ EnabledAccounts(on) \subseteq Accounts
      /\ UNCHANGED listing
  BY DEF EnabledAccounts, Change
<1>2. during' \in [Managers -> Watched]
  <2> DEFINE w(m) == [accounts |-> during[m].accounts \cup EnabledAccounts(on),
                      rows     |-> during[m].rows \cup rows,
                      always   |-> during[m].always \cap Enabled(on, rows),
                      unheard  |-> during[m].unheard]
  <2>1. ASSUME NEW m \in Managers
        PROVE  w(m) \in Watched /\ NotWatched \in Watched
    BY <1>1, ListingShapes DEF ListingsTyped, Watched
  <2>2. during' = [m \in Managers |-> IF listing[m].op # "enabled"
                                      THEN NotWatched ELSE w(m)]
    BY DEF Change
  <2> HIDE DEF w
  <2> QED
    BY <2>1, <2>2
<1> QED
  BY <1>1, <1>2 DEF ListingsTyped, Change

\* What a manager goes on with is a listing.
LEMMA StepTypes ==
  ASSUME ListingsTyped, NEW m \in Managers
  PROVE  /\ \A l : Locals(m, l) /\ l \in Listings => ListingsTyped'
         /\ \A op : BeginListing(m, op) => ListingsTyped'
         /\ \A op : BeginReading(m, op) => ListingsTyped'
         /\ \A a \in Accounts : NextAccount(m, a) => ListingsTyped'
         /\ \A s \in Services : TakeService(m, s) => ListingsTyped'
         /\ ReadDirectory(m) => ListingsTyped'
         /\ AddNamed(m) => ListingsTyped'
         /\ Answer(m) /\ RegistryIsTyped => ListingsTyped'
<1>1. /\ listing[m] \in Listings /\ during \in [Managers -> Watched]
      /\ (m \in WithEnv) \in BOOLEAN
  BY DEF ListingsTyped
<1>2. ASSUME NEW l \in Listings, Locals(m, l)
      PROVE  ListingsTyped'
  BY <1>1, <1>2, LocalsTypes DEF Locals
<1>3. ASSUME NEW op, BeginListing(m, op)
      PROVE  ListingsTyped'
  <2> DEFINE l == [NoListing EXCEPT !.op = op]
             k == [l EXCEPT !.ids = ListIds(m, op)]
             f == [l EXCEPT !.failed = TRUE]
             u == {a \in foreign[m] : \E i \in DOMAIN news[m] :
                                        news[m][i].account = a}
             w == [accounts |-> EnabledAccounts(account),
                   rows |-> enabledRows,
                   always |-> Enabled(account, enabledRows),
                   unheard |-> u]
  <2>1. op \in {"all", "enabled"}
    BY <1>3 DEF BeginListing
  <2>2. l \in Listings
    BY <2>1, ListingShapes DEF Listings
  <2>3. k \in Listings /\ f \in Listings
    BY <2>1, <2>2, AccountsToList DEF Listings
  <2>8. u \subseteq Accounts
    BY DEF ListingsTyped, ForeignTyped
  <2> HIDE DEF u
  <2>4. w \in Watched /\ NotWatched \in Watched
    BY <2>8, ListingShapes
    DEF ListingsTyped, Watched, EnabledAccounts, Enabled
  <2>5. \/ listing' = [listing EXCEPT ![m] = k]
        \/ listing' = [listing EXCEPT ![m] = f]
    BY <1>3 DEF BeginListing
  <2>6. /\ during' = [during EXCEPT ![m] = IF op = "all" THEN NotWatched
                                           ELSE w]
        /\ UNCHANGED <<account, enabledRows, foreignVars>>
    BY <1>3 DEF BeginListing, u
  <2> HIDE DEF k, f, w
  <2>7. during' \in [Managers -> Watched]
    BY <1>1, <2>4, <2>6
  <2> QED
    BY <2>3, <2>5, <2>6, <2>7, LocalsTypes
<1>4. ASSUME NEW op, BeginReading(m, op)
      PROVE  ListingsTyped'
  <2> DEFINE l == [NoListing EXCEPT !.op = op,
                                    !.dirs = PlacesToList(m \in WithEnv)]
  <2>1. l \in Listings
    BY <1>1, <1>4, ListingShapes, DirsToRead DEF BeginReading, Listings
  <2>2. Locals(m, l)
    BY <1>4 DEF BeginReading
  <2> HIDE DEF l
  <2> QED
    BY <1>2, <2>1, <2>2
<1>5. ASSUME NEW a \in Accounts, NextAccount(m, a)
      PROVE  ListingsTyped'
  <2> DEFINE l    == listing[m]
             rest == [l EXCEPT !.ids = @ \ {a}, !.of = a, !.loaded = {},
                               !.out = @ \cup Chosen(m, l)]
  <2>1. Chosen(m, l) \subseteq Entries
    BY <1>1, ChosenTypes
  <2>2. rest \in Listings
    BY <1>1, <2>1 DEF Listings
  <2>3. EnabledServices(m, a) \subseteq Services
    BY DEF EnabledServices, OfType
  <2>6. {a} \X FromMemory(m, a) \subseteq Entries
    BY DEF FromMemory, OfType, Entries
  <2>4. /\ [rest EXCEPT !.names = EnabledServices(m, a)] \in Listings
        /\ [rest EXCEPT !.dirs = PlacesToList(m \in WithEnv)] \in Listings
        /\ [rest EXCEPT !.failed = TRUE] \in Listings
        /\ [rest EXCEPT !.out = @ \cup ({a} \X FromMemory(m, a))] \in Listings
    <3> HIDE DEF rest
    <3> QED
      BY <1>1, <2>2, <2>3, <2>6, DirsToRead DEF Listings
  <2>5. \/ Locals(m, rest)
        \/ Locals(m, [rest EXCEPT !.out = @ \cup ({a} \X FromMemory(m, a))])
        \/ Locals(m, [rest EXCEPT !.names = EnabledServices(m, a)])
        \/ Locals(m, [rest EXCEPT !.dirs = PlacesToList(m \in WithEnv)])
        \/ Locals(m, [rest EXCEPT !.failed = TRUE])
    BY <1>5 DEF NextAccount
  <2> HIDE DEF rest
  <2> QED
    BY <1>2, <2>2, <2>4, <2>5
<1>6. ASSUME NEW s \in Services, TakeService(m, s)
      PROVE  ListingsTyped'
  <2>1. Took(listing[m], s, TRUE) \in Listings
    BY <1>1, TookTypes
  <2> QED
    BY <1>1, <1>6, <2>1, LocalsTypes DEF TakeService
<1>7. ASSUME ReadDirectory(m)
      PROVE  ListingsTyped'
  <2> DEFINE l == listing[m]
             N == {s \in Services : Head(l.dirs) \in files[s]} \ l.loaded
             k == [l EXCEPT !.dirs = Tail(@), !.names = N]
  <2>1. Tail(l.dirs) \in Dirs /\ N \subseteq Services
    BY <1>1, <1>7, DirsToRead DEF ReadDirectory, Listings
  <2>2. Locals(m, k)
    BY <1>7 DEF ReadDirectory
  <2> HIDE DEF N
  <2>3. k \in Listings
    BY <1>1, <2>1 DEF Listings
  <2> HIDE DEF k
  <2> QED
    BY <1>2, <2>2, <2>3
<1>8. ASSUME AddNamed(m)
      PROVE  ListingsTyped'
  <2> DEFINE l == listing[m]
             C == Chosen(m, l)
             N == {s \in AppServices : <<AnyAccount, s>> \notin C}
             k == [l EXCEPT !.op = "named", !.out = C, !.names = N]
  <2>1. C \subseteq Entries /\ N \subseteq Services
    BY <1>1, ChosenTypes, ListingsAssumption
  <2>2. Locals(m, k)
    BY <1>8 DEF AddNamed
  <2> HIDE DEF C, N
  <2>3. k \in Listings
    BY <1>1, <2>1 DEF Listings
  <2> HIDE DEF k
  <2> QED
    BY <1>2, <2>2, <2>3
<1>9. ASSUME Answer(m), RegistryIsTyped
      PROVE  ListingsTyped'
  <2> DEFINE s == call[m].name
             l == [listing[m] EXCEPT
                     !.failed = @ \/ (listing[m].op # "none" /\ locks' # locks)]
             found == services'[m][s] # NoService
  <2>1. call[m].step # "idle"
    BY <1>9 DEF Answer, SelectRow, InsertRow, SelectId, Stay
  <2>2. s \in Services
    BY <1>9, <2>1, InvIsAsking DEF RegistryIsTyped, Asking
  <2> DEFINE b == listing[m].failed
                    \/ (listing[m].op # "none" /\ locks' # locks)
  <2>3. l = [listing[m] EXCEPT !.failed = b] /\ b \in BOOLEAN
    BY <1>1 DEF Listings
  <2> HIDE DEF b
  <2>4. [listing[m] EXCEPT !.failed = b] \in Listings
    BY <1>1, <2>3 DEF Listings
  <2>5. l \in Listings
    BY <2>3, <2>4
  <2>6. found \in BOOLEAN
    OBVIOUS
  <2>7. \/ listing' = [listing EXCEPT ![m] = l]
        \/ listing' = [listing EXCEPT ![m] = Took(l, s, found)]
    BY <1>9 DEF Answer
  <2>8. UNCHANGED <<account, enabledRows, during, foreignVars>>
    BY <1>9 DEF Answer
  <2> HIDE DEF l, found
  <2>9. Took(l, s, found) \in Listings
    BY <2>2, <2>5, <2>6, TookTypes
  <2> QED
    BY <1>1, <2>5, <2>7, <2>8, <2>9, LocalsTypes
<1> QED
  BY <1>2, <1>3, <1>4, <1>5, <1>6, <1>7, <1>8, <1>9

\* What a manager tells, hears and forgets about foreign accounts.
LEMMA UpdatedTypes ==
  ASSUME NEW known \in SUBSET (Accounts \X Services), NEW c \in News
  PROVE  Updated(known, c) \in SUBSET (Accounts \X Services)
BY DEF Updated, News

LEMMA AnnounceTypes ==
  ASSUME ForeignTyped, NEW m \in Managers, NEW c \in News, Announce(m, c)
  PROVE  ForeignTyped'
<1>1. /\ memory' = [memory EXCEPT ![m] = IF c.account \in foreign[m]
                                        THEN Updated(@, c) ELSE @]
      /\ \A n \in Managers : news'[n] = news[n] \/ news'[n] = Append(news[n], c)
      /\ DOMAIN news' = Managers /\ news' = [n \in Managers |-> news'[n]]
      /\ UNCHANGED foreign
  BY DEF Announce
<1>2. Updated(memory[m], c) \in SUBSET (Accounts \X Services)
  BY UpdatedTypes DEF ForeignTyped
<1>3. ASSUME NEW n \in Managers
      PROVE  news'[n] \in Seq(News)
  <2>1. news[n] \in Seq(News)
    BY DEF ForeignTyped
  <2>2. Append(news[n], c) \in Seq(News)
    BY <2>1, AppendProperties
  <2> QED
    BY <1>1, <2>1, <2>2
<1> QED
  BY <1>1, <1>2, <1>3 DEF ForeignTyped

LEMMA ReceiveTypes ==
  ASSUME ListingsTyped, NEW m \in Managers, Receive(m)
  PROVE  ListingsTyped'
<1> DEFINE c == Head(news[m])
<1>1. news[m] \in Seq(News) /\ news[m] # <<>>
  BY DEF ListingsTyped, ForeignTyped, Receive
<1>2. c \in News /\ Tail(news[m]) \in Seq(News)
  BY <1>1, HeadTailProperties
<1>3. /\ foreign' = foreign
           \/ foreign' = [foreign EXCEPT ![m] = @ \cup {c.account}]
      /\ memory' = [memory EXCEPT ![m] = IF c.account \in foreign'[m]
                                        THEN Updated(@, c) ELSE @]
      /\ news' = [news EXCEPT ![m] = Tail(@)]
      /\ UNCHANGED <<account, enabledRows, listing, during>>
  BY DEF Receive
<1> HIDE DEF c
<1>4. Updated(memory[m], c) \in SUBSET (Accounts \X Services)
  BY <1>2, UpdatedTypes DEF ListingsTyped, ForeignTyped
<1>5. c.account \in Accounts
  BY <1>2 DEF News
<1>6. foreign' \in [Managers -> SUBSET Accounts]
  <2>1. foreign \in [Managers -> SUBSET Accounts]
    BY DEF ListingsTyped, ForeignTyped
  <2>2. CASE foreign' = [foreign EXCEPT ![m] = @ \cup {c.account}]
    BY <1>5, <2>1, <2>2
  <2> QED
    BY <1>3, <2>1, <2>2
<1>7. memory' \in [Managers -> SUBSET (Accounts \X Services)]
  BY <1>3, <1>4 DEF ListingsTyped, ForeignTyped
<1>8. news' \in [Managers -> Seq(News)]
  BY <1>2, <1>3 DEF ListingsTyped, ForeignTyped
<1> QED
  BY <1>3, <1>6, <1>7, <1>8 DEF ListingsTyped, ForeignTyped

LEMMA ListingsStayTyped ==
  ASSUME ListingsTyped, RegistryIsTyped, [Next]_allVars
  PROVE  ListingsTyped'
<1>1. ASSUME UNCHANGED listingVars
      PROVE  ListingsTyped'
  BY <1>1 DEF ListingsTyped, ForeignTyped, listingVars, foreignVars
<1>2. ASSUME NEW m \in Managers,
             EndListing(m) \/ Gone(m)
      PROVE  ListingsTyped'
  <2>1. /\ listing' = [listing EXCEPT ![m] = NoListing]
        /\ during' = [during EXCEPT ![m] = NotWatched]
        /\ UNCHANGED <<account, enabledRows>>
    BY <1>2 DEF EndListing, Gone
  <2>2. ForeignTyped'
    <3>1. CASE EndListing(m)
      BY <3>1 DEF EndListing, ListingsTyped, ForeignTyped, foreignVars
    <3>2. CASE Gone(m)
      BY <3>2 DEF Gone, ListingsTyped, ForeignTyped
    <3> QED
      BY <1>2, <3>1, <3>2
  <2> QED
    BY <2>1, <2>2, ListingShapes DEF ListingsTyped
<1>3. ASSUME NEW m \in Managers, NEW a \in Accounts, NEW s \in Services,
             NEW on, StoreService(m, a, s, on)
      PROVE  ListingsTyped'
  <2> DEFINE c == [by |-> m, account |-> a, created |-> FALSE, names |-> {s},
                   on |-> IF on THEN {s} ELSE {}]
  <2>1. PICK rows \in SUBSET (Accounts \X Services) : Change(account, rows)
    BY <1>3 DEF StoreService, ListingsTyped
  <2>2. c \in News /\ Announce(m, c)
    BY <1>3 DEF StoreService, News
  <2> HIDE DEF c
  <2>3. ForeignTyped'
    BY <2>2, AnnounceTypes DEF ListingsTyped
  <2> QED
    BY <2>1, <2>3, ChangeTypes DEF ListingsTyped
<1>4. ASSUME NEW m \in Managers, NEW a \in Accounts,
             NEW on \in {"absent", "disabled", "enabled"},
             StoreAccount(m, a, on)
      PROVE  ListingsTyped'
  <2>1. PICK rows \in SUBSET (Accounts \X Services) :
          Change([account EXCEPT ![a] = on], rows)
    BY <1>4 DEF StoreAccount, ListingsTyped
  <2>2. ForeignTyped'
    BY <1>4 DEF StoreAccount, ListingsTyped, ForeignTyped, foreignVars
  <2>3. [account EXCEPT ![a] = on] \in [Accounts -> States]
    BY <1>4 DEF ListingsTyped, States
  <2> QED
    BY <2>1, <2>2, <2>3, ChangeTypes
<1>5. ASSUME NEW m \in Managers, NEW a \in Accounts, NEW on,
             NEW enabled \in SUBSET Services,
             CreateAccount(m, a, on, enabled)
      PROVE  ListingsTyped'
  <2> DEFINE c == [by |-> m, account |-> a, created |-> TRUE,
                   names |-> enabled, on |-> enabled]
  <2>1. PICK rows \in SUBSET (Accounts \X Services) :
          Change([account EXCEPT ![a] = on], rows)
    BY <1>5 DEF CreateAccount, ListingsTyped
  <2>2. c \in News /\ Announce(m, c)
    BY <1>5 DEF CreateAccount, News
  <2> HIDE DEF c
  <2>3. ForeignTyped'
    BY <2>2, AnnounceTypes DEF ListingsTyped
  <2>4. [account EXCEPT ![a] = on] \in [Accounts -> States]
    BY <1>5 DEF ListingsTyped, States, CreateAccount
  <2> QED
    BY <2>1, <2>3, <2>4, ChangeTypes
<1>6. ASSUME NEW m \in Managers, NEW a \in Accounts, Release(m, a)
      PROVE  ListingsTyped'
  BY <1>6 DEF Release, ListingsTyped, ForeignTyped
<1> QED
  BY <1>1, <1>2, <1>3, <1>4, <1>5, <1>6, StepTypes, ReceiveTypes
  DEF Next, BetweenCalls, AskForService, allVars
-----------------------------------------------------------------------------
(* What is enabled.                                                        *)

\* A setting of a service has the id of its row, and is that of an account
\* which exists.
SettingsInv == \A e \in enabledRows : InTable(e[2]) /\ Exists(e[1])

\* The signals of a queue that tell of a setting, and what the last of them
\* says of it.
Told(q, e) == {i \in DOMAIN q : Concerns(q[i], e)}

LastIsRight(q, e, rows) ==
  \A i \in Told(q, e) : (\A j \in Told(q, e) : j <= i) =>
    (e[2] \in q[i].on <=> e \in rows)

\* A signal of a store says nothing of services that it does not name.
SaysOfNamed(c) == c.created \/ c.on \subseteq c.names

\* What a manager hears about, and what it knows when all signals have come.
HeardInv(m) ==
  /\ phase[m] # "open" => foreign[m] = {} /\ news[m] = <<>>
  /\ \A a \in foreign[m] : account[a] # "unborn"
  /\ \A e \in memory[m] : e[1] \in foreign[m]
  /\ \A i \in DOMAIN news[m] :
       account[news[m][i].account] # "unborn" /\ SaysOfNamed(news[m][i])

KnownInv(m) ==
  \A e \in Accounts \X Services : Exists(e[1]) =>
    /\ LastIsRight(news[m], e, enabledRows)
    /\ e[1] \in foreign[m] /\ Told(news[m], e) = {} =>
         (e \in memory[m] <=> e \in enabledRows)

\* The list that is being made, and what it still needs.
Pending(m, e) ==
  \/ e[1] \in listing[m].ids
  \/ e[1] = listing[m].of /\ e[2] \in listing[m].names

WatchInv(m) ==
  /\ during[m].always \subseteq Enabled(account, enabledRows)
  /\ enabledRows \subseteq during[m].rows

TodoInv(m) ==
  /\ listing[m].dirs = <<>>
  /\ listing[m].ids \subseteq during[m].accounts
  /\ \A s \in listing[m].names :
       /\ InTable(s) /\ listing[m].of \in during[m].accounts
       /\ <<listing[m].of, s>> \in during[m].rows

\* What is known of the foreign accounts that are still to be looked at.
MemoryInv(m) ==
  \A a \in listing[m].ids \cap foreign[m] : a \notin during[m].unheard =>
    \A s \in Services :
      /\ <<a, s>> \in memory[m] => <<a, s>> \in during[m].rows
      /\ <<a, s>> \in during[m].always => <<a, s>> \in memory[m]

ListInv(m) ==
  ~listing[m].failed =>
    /\ \A e \in listing[m].out :
         /\ e[1] \in during[m].accounts
         /\ e[1] \in during[m].unheard \/ e \in during[m].rows
    /\ \A e \in during[m].always :
         e[2] \in OfType(ServiceType[m]) /\ e[1] \notin during[m].unheard =>
           Pending(m, e) \/ e \in listing[m].out

EnabledInv(m) ==
  listing[m].op = "enabled" =>
    WatchInv(m) /\ TodoInv(m) /\ MemoryInv(m) /\ ListInv(m)

MemoryKept(m) == foreign'[m] = foreign[m] /\ memory'[m] = memory[m]

LEMMA OtherListings ==
  ASSUME ListingsTyped, RowsKept, NEW m \in Managers, EnabledInv(m),
         UNCHANGED <<account, enabledRows>>,
         listing'[m] = listing[m], during'[m] = during[m],
         listing[m].op = "enabled" => MemoryKept(m)
  PROVE  EnabledInv(m)'
<1> SUFFICES ASSUME listing[m].op = "enabled"
             PROVE  (WatchInv(m) /\ TodoInv(m) /\ MemoryInv(m)
                       /\ ListInv(m))'
  BY DEF EnabledInv
<1>1. WatchInv(m) /\ TodoInv(m) /\ MemoryInv(m) /\ ListInv(m)
  BY DEF EnabledInv
<1>2. WatchInv(m)'
  BY <1>1 DEF WatchInv, Enabled, EnabledAccounts
<1>3. TodoInv(m)'
  BY <1>1 DEF TodoInv, RowsKept, ListingsTyped, Listings
<1>4. ListInv(m)'
  BY <1>1 DEF ListInv, Pending
<1>5. MemoryInv(m)'
  BY <1>1 DEF MemoryInv, MemoryKept
<1> QED
  BY <1>2, <1>3, <1>4, <1>5

\* A store, by a manager that lists nothing.
LEMMA ListingsSeeStores ==
  ASSUME ListingsTyped, NEW on, NEW rows, Change(on, rows),
         NEW m \in Managers, EnabledInv(m),
         listing[m].op = "enabled" => MemoryKept(m)
  PROVE  EnabledInv(m)'
<1> SUFFICES ASSUME listing[m].op = "enabled"
             PROVE  (WatchInv(m) /\ TodoInv(m) /\ MemoryInv(m)
                       /\ ListInv(m))'
  BY DEF EnabledInv, Change
<1>1. WatchInv(m) /\ TodoInv(m) /\ MemoryInv(m) /\ ListInv(m)
  BY DEF EnabledInv
<1>2. /\ account' = on /\ enabledRows' = rows /\ UNCHANGED <<listing, row>>
      /\ during'[m].accounts = during[m].accounts \cup EnabledAccounts(on)
      /\ during'[m].rows = during[m].rows \cup rows
      /\ during'[m].always = during[m].always \cap Enabled(on, rows)
      /\ during'[m].unheard = during[m].unheard
  BY DEF Change
<1>3. WatchInv(m)'
  BY <1>2 DEF WatchInv, Enabled, EnabledAccounts
<1>4. TodoInv(m)'
  BY <1>1, <1>2 DEF TodoInv, InTable
<1>5. ListInv(m)'
  BY <1>1, <1>2 DEF ListInv, Pending
<1>6. MemoryInv(m)'
  BY <1>1, <1>2 DEF MemoryInv, MemoryKept
<1> QED
  BY <1>3, <1>4, <1>5, <1>6
-----------------------------------------------------------------------------
(* The steps of a listing.                                                 *)

LEMMA BeginEnabled ==
  ASSUME ListingsTyped, NEW m \in Managers, NEW op, BeginListing(m, op),
         KnownInv(m)
  PROVE  EnabledInv(m)'
<1> DEFINE l == [NoListing EXCEPT !.op = op]
           k == [l EXCEPT !.ids = ListIds(m, op)]
           f == [l EXCEPT !.failed = TRUE]
           u == {a \in foreign[m] : \E i \in DOMAIN news[m] :
                                      news[m][i].account = a}
           w == [accounts |-> EnabledAccounts(account),
                 rows |-> enabledRows,
                 always |-> Enabled(account, enabledRows),
                 unheard |-> u]
<1>1. /\ op \in {"all", "enabled"} /\ UNCHANGED <<account, enabledRows>>
      /\ UNCHANGED <<foreign, memory>>
  BY DEF BeginListing, foreignVars
<1>2. listing'[m] = k \/ listing'[m] = f
  BY DEF BeginListing, ListingsTyped
<1>3. op = "enabled" => during'[m] = w
  BY DEF BeginListing, ListingsTyped
<1>4. /\ k.op = op /\ k.dirs = <<>> /\ k.names = {} /\ k.out = {}
      /\ k.ids = ListIds(m, op)
      /\ f.op = op /\ f.dirs = <<>> /\ f.names = {} /\ f.ids = {}
      /\ f.failed
  BY DEF NoListing
<1>5. /\ w.accounts = EnabledAccounts(account) /\ w.rows = enabledRows
      /\ w.always = Enabled(account, enabledRows) /\ w.unheard = u
  OBVIOUS
<1> HIDE DEF k, f, w
<1>6. CASE op = "all"
  BY <1>2, <1>4, <1>6 DEF EnabledInv
<1>7. CASE op = "enabled"
  <2>1. ListIds(m, op) \subseteq EnabledAccounts(account)
    BY <1>7 DEF ListIds, EnabledIdsByType, EnabledAccounts
  <2>2. \A e \in Enabled(account, enabledRows) :
          e[2] \in OfType(ServiceType[m]) => e[1] \in ListIds(m, op)
    <3> SUFFICES ASSUME NEW e \in Enabled(account, enabledRows),
                        e[2] \in OfType(ServiceType[m])
                 PROVE  e[1] \in ListIds(m, op)
      OBVIOUS
    <3>1. /\ e[1] \in Accounts /\ account[e[1]] = "enabled"
          /\ e = <<e[1], e[2]>> /\ e \in enabledRows
      BY DEF Enabled, EnabledAccounts, ListingsTyped
    <3> QED
      BY <1>7, <3>1 DEF ListIds, EnabledIdsByType
  <2>3. WatchInv(m)'
    BY <1>1, <1>3, <1>5, <1>7 DEF WatchInv, Enabled, EnabledAccounts
  <2>4. TodoInv(m)'
    BY <1>2, <1>3, <1>4, <1>5, <1>7, <2>1 DEF TodoInv
  <2>5. ListInv(m)'
    BY <1>2, <1>3, <1>4, <1>5, <1>7, <2>2 DEF ListInv, Pending
  <2>6. ASSUME NEW a \in ListIds(m, op), a \in foreign[m], a \notin u,
               NEW s \in Services
        PROVE  <<a, s>> \in memory[m] <=> <<a, s>> \in enabledRows
    <3> DEFINE e == <<a, s>>
    <3>1. a \in Accounts /\ Exists(a)
      BY <2>1 DEF EnabledAccounts, Exists
    <3>2. Told(news[m], e) = {}
      BY <2>6 DEF Told, Concerns
    <3>3. e \in Accounts \X Services /\ e[1] = a
      BY <3>1
    <3> HIDE DEF e
    <3>4. e \in memory[m] <=> e \in enabledRows
      BY <2>6, <3>1, <3>2, <3>3 DEF KnownInv
    <3> QED
      BY <3>4 DEF e
  <2>7. Enabled(account, enabledRows) \subseteq enabledRows
    BY DEF Enabled
  <2> HIDE DEF u
  <2>8. MemoryInv(m)'
    BY <1>1, <1>2, <1>3, <1>4, <1>5, <1>7, <2>6, <2>7 DEF MemoryInv
  <2> QED
    BY <2>3, <2>4, <2>5, <2>8 DEF EnabledInv
<1> QED
  BY <1>1, <1>6, <1>7

\* A listing of what is enabled chooses nothing from data files.
LEMMA NothingChosen ==
  ASSUME NEW m, NEW l, l.op = "enabled"
  PROVE  Chosen(m, l) = {}
BY DEF Chosen

LEMMA NextOfEnabled ==
  ASSUME ListingsTyped, SettingsInv, NEW m \in Managers, EnabledInv(m),
         NEW a \in Accounts, NextAccount(m, a), UNCHANGED row
  PROVE  EnabledInv(m)'
<1> DEFINE l == listing[m]
           rest == [l EXCEPT !.ids = @ \ {a}, !.of = a, !.loaded = {},
                             !.out = @ \cup Chosen(m, l)]
           known == [rest EXCEPT !.out = @ \cup ({a} \X FromMemory(m, a))]
           named == [rest EXCEPT !.names = EnabledServices(m, a)]
           read == [rest EXCEPT !.dirs = PlacesToList(m \in WithEnv)]
           failed == [rest EXCEPT !.failed = TRUE]
<1>1. l \in Listings /\ Chosen(m, l) \subseteq Entries
  BY ChosenTypes DEF ListingsTyped
<1>2. /\ rest.op = l.op /\ rest.ids = l.ids \ {a} /\ rest.of = a
      /\ rest.out = l.out \cup Chosen(m, l) /\ rest.names = l.names
      /\ rest.dirs = l.dirs /\ rest.failed = l.failed
      /\ rest \in Listings
  BY <1>1 DEF Listings
<1>3. /\ l.names = {} /\ a \in l.ids
      /\ UNCHANGED <<account, enabledRows, during>>
      /\ UNCHANGED <<foreign, memory>>
  BY DEF NextAccount, Between, Locals, foreignVars
<1>4. \/ account[a] = "absent" /\ listing'[m] = rest
      \/ a \in foreign[m] /\ listing'[m] = known
      \/ l.op = "enabled" /\ listing'[m] = named
      \/ l.op = "all" /\ listing'[m] = read
      \/ listing'[m] = failed
  BY DEF NextAccount, Locals, ListingsTyped
<1> HIDE DEF rest
<1>5. /\ named.op = rest.op /\ named.ids = rest.ids /\ named.of = rest.of
      /\ named.out = rest.out /\ named.names = EnabledServices(m, a)
      /\ named.dirs = rest.dirs /\ named.failed = rest.failed
  BY <1>2 DEF Listings
<1>6. /\ failed.op = rest.op /\ failed.ids = rest.ids
      /\ failed.names = rest.names
      /\ failed.dirs = rest.dirs /\ failed.failed
  BY <1>2 DEF Listings
<1>7. /\ read.op = rest.op
      /\ known.op = rest.op /\ known.ids = rest.ids /\ known.of = rest.of
      /\ known.names = rest.names /\ known.dirs = rest.dirs
      /\ known.failed = rest.failed
      /\ known.out = rest.out \cup ({a} \X FromMemory(m, a))
  BY <1>2 DEF Listings
<1> HIDE DEF named, read, failed, known
<1> SUFFICES ASSUME l.op = "enabled"
             PROVE  EnabledInv(m)'
  BY <1>2, <1>4, <1>5, <1>6, <1>7 DEF EnabledInv
<1>8. /\ WatchInv(m) /\ TodoInv(m) /\ MemoryInv(m) /\ ListInv(m)
      /\ rest.out = l.out
  BY <1>2, NothingChosen DEF EnabledInv
<1>9. WatchInv(m)'
  BY <1>3, <1>8 DEF WatchInv, Enabled, EnabledAccounts
<1>10. a \in during[m].accounts
  BY <1>3, <1>8 DEF TodoInv
<1>11. \A s \in EnabledServices(m, a) : /\ InTable(s)
                                        /\ <<a, s>> \in during[m].rows
  <2> SUFFICES ASSUME NEW s \in EnabledServices(m, a)
               PROVE  InTable(s) /\ <<a, s>> \in during[m].rows
    OBVIOUS
  <2>1. <<a, s>> \in enabledRows
    BY DEF EnabledServices
  <2>2. InTable(<<a, s>>[2])
    BY <2>1 DEF SettingsInv
  <2> QED
    BY <1>8, <2>1, <2>2 DEF WatchInv
<1>12. TodoInv(m)'
  BY <1>2, <1>3, <1>4, <1>5, <1>6, <1>7, <1>8, <1>10, <1>11
  DEF TodoInv, InTable
<1>13. \A e \in during[m].always :
         e[2] \in OfType(ServiceType[m]) /\ e[1] = a =>
           /\ account[a] # "absent"
           /\ e[2] \in EnabledServices(m, a)
  <2> SUFFICES ASSUME NEW e \in during[m].always,
                      e[2] \in OfType(ServiceType[m]), e[1] = a
               PROVE  /\ account[a] # "absent"
                      /\ e[2] \in EnabledServices(m, a)
    OBVIOUS
  <2>1. e \in enabledRows /\ account[a] = "enabled"
    BY <1>8 DEF WatchInv, Enabled, EnabledAccounts
  <2>2. e = <<e[1], e[2]>>
    BY <2>1 DEF ListingsTyped
  <2> QED
    BY <2>1, <2>2 DEF EnabledServices
<1>14. ListInv(m)'
  <2>1. CASE listing'[m] = failed
    BY <1>6, <2>1 DEF ListInv
  <2>2. CASE account[a] = "absent" /\ listing'[m] = rest
    BY <1>2, <1>3, <1>8, <1>13, <2>2 DEF ListInv, Pending
  <2>3. CASE listing'[m] = named
    BY <1>2, <1>3, <1>5, <1>8, <1>13, <2>3 DEF ListInv, Pending
  <2>4. CASE a \in foreign[m] /\ listing'[m] = known
    <3> DEFINE F == {a} \X FromMemory(m, a)
    <3>1. ASSUME NEW e \in F
          PROVE  /\ e[1] \in during[m].accounts
                 /\ e[1] \in during[m].unheard \/ e \in during[m].rows
      <4>1. PICK s \in Services : e = <<a, s>> /\ <<a, s>> \in memory[m]
        BY DEF FromMemory, OfType
      <4>2. a \in during[m].unheard \/ <<a, s>> \in during[m].rows
        BY <1>3, <1>8, <2>4, <4>1 DEF MemoryInv
      <4> QED
        BY <1>10, <4>1, <4>2
    <3>2. ASSUME NEW e \in during[m].always, e[1] = a,
                 e[2] \in OfType(ServiceType[m]), a \notin during[m].unheard
          PROVE  e \in F
      <4>1. e = <<a, e[2]>> /\ e[2] \in Services
        BY <3>2 DEF ListingsTyped, Watched
      <4>2. <<a, e[2]>> \in memory[m]
        BY <1>3, <1>8, <2>4, <3>2, <4>1 DEF MemoryInv
      <4> QED
        BY <3>2, <4>1, <4>2 DEF FromMemory
    <3>3. known.out = l.out \cup F
      BY <1>7, <1>8
    <3> HIDE DEF F
    <3>4. ASSUME ~l.failed
          PROVE  \A e \in known.out :
                   /\ e[1] \in during[m].accounts
                   /\ e[1] \in during[m].unheard \/ e \in during[m].rows
      BY <1>8, <3>1, <3>3, <3>4 DEF ListInv
    <3>5. ASSUME ~l.failed, NEW e \in during[m].always,
                 e[2] \in OfType(ServiceType[m]),
                 e[1] \notin during[m].unheard
          PROVE  e[1] \in known.ids \/ e \in known.out
      BY <1>2, <1>3, <1>7, <1>8, <3>2, <3>3, <3>5 DEF ListInv, Pending
    <3> QED
      BY <1>2, <1>3, <1>7, <2>4, <3>4, <3>5 DEF ListInv, Pending
  <2> QED
    BY <1>4, <2>1, <2>2, <2>3, <2>4
<1>15. MemoryInv(m)'
  BY <1>2, <1>3, <1>4, <1>5, <1>6, <1>7, <1>8 DEF MemoryInv
<1> QED
  BY <1>9, <1>12, <1>14, <1>15 DEF EnabledInv

\* A manager finds its lock, or not, in a step of a listing that goes on.
LEMMA FailureKeeps ==
  ASSUME ListingsTyped, RowsKept, NEW m \in Managers, EnabledInv(m),
         NEW b \in BOOLEAN, listing[m].failed => b,
         listing'[m] = [listing[m] EXCEPT !.failed = b],
         UNCHANGED <<account, enabledRows, during, foreignVars>>
  PROVE  EnabledInv(m)'
<1> SUFFICES ASSUME listing[m].op = "enabled"
             PROVE  (WatchInv(m) /\ TodoInv(m) /\ MemoryInv(m)
                       /\ ListInv(m))'
  BY DEF EnabledInv, ListingsTyped, Listings
<1>1. WatchInv(m) /\ TodoInv(m) /\ MemoryInv(m) /\ ListInv(m)
  BY DEF EnabledInv
<1>2. /\ listing'[m].dirs = listing[m].dirs
      /\ listing'[m].ids = listing[m].ids
      /\ listing'[m].of = listing[m].of
      /\ listing'[m].names = listing[m].names
      /\ listing'[m].out = listing[m].out
      /\ listing'[m].failed = b /\ listing[m].names \subseteq Services
  BY DEF ListingsTyped, Listings
<1>3. WatchInv(m)'
  BY <1>1 DEF WatchInv, Enabled, EnabledAccounts
<1>4. TodoInv(m)'
  BY <1>1, <1>2 DEF TodoInv, RowsKept
<1>5. ListInv(m)'
  BY <1>1, <1>2 DEF ListInv, Pending
<1>6. MemoryInv(m)'
  BY <1>1, <1>2 DEF MemoryInv, foreignVars
<1> QED
  BY <1>3, <1>4, <1>5, <1>6

\* A service that has been looked for goes in the list, unless a query has
\* failed.
LEMMA TookKeeps ==
  ASSUME ListingsTyped, RowsKept, NEW m \in Managers, EnabledInv(m),
         NEW b \in BOOLEAN, listing[m].failed => b,
         NEW s \in listing[m].names, NEW found \in BOOLEAN,
         listing[m].op = "enabled" => found \/ b,
         listing'[m] = Took([listing[m] EXCEPT !.failed = b], s, found),
         UNCHANGED <<account, enabledRows, during, foreignVars>>
  PROVE  EnabledInv(m)'
<1> DEFINE l == [listing[m] EXCEPT !.failed = b]
           t == [l EXCEPT !.names = @ \ {s}]
           o == IF found THEN s ELSE NoService
           k == [t EXCEPT !.out = @ \cup {<<l.of, o>>}]
<1>1. listing[m] \in Listings
  BY DEF ListingsTyped
<1>2. l \in Listings /\ l.op = listing[m].op
  BY <1>1 DEF Listings
<1>3. CASE listing[m].op # "enabled"
  <2>1. Took(l, s, found).op = listing[m].op
    <3> HIDE DEF l
    <3>1. \A x : /\ [t EXCEPT !.out = x].op = l.op
                 /\ [t EXCEPT !.loaded = x].op = l.op
                 /\ t.op = l.op
      BY <1>2 DEF Listings
    <3> QED
      BY <1>2, <3>1 DEF Took
  <2> QED
    BY <1>3, <2>1 DEF EnabledInv
<1>4. CASE listing[m].op = "enabled"
  <2>1. WatchInv(m) /\ TodoInv(m) /\ MemoryInv(m) /\ ListInv(m)
    BY <1>4 DEF EnabledInv
  <2>2. listing'[m] = k
    BY <1>2, <1>4 DEF Took
  <2>3. /\ k.dirs = listing[m].dirs /\ k.ids = listing[m].ids
        /\ k.of = listing[m].of /\ k.names = listing[m].names \ {s}
        /\ k.out = listing[m].out \cup {<<listing[m].of, o>>}
        /\ k.failed = b /\ listing[m].names \subseteq Services
    BY <1>1 DEF Listings
  <2>4. /\ listing[m].of \in during[m].accounts
        /\ <<listing[m].of, s>> \in during[m].rows
    BY <2>1 DEF TodoInv
  <2>5. ~b => o = s
    BY <1>4
  <2> HIDE DEF k, o
  <2>6. WatchInv(m)'
    BY <2>1 DEF WatchInv, Enabled, EnabledAccounts
  <2>7. TodoInv(m)'
    BY <2>1, <2>2, <2>3 DEF TodoInv, RowsKept
  <2>8. ListInv(m)'
    <3> SUFFICES ASSUME ~b
                 PROVE  ListInv(m)'
      BY <2>2, <2>3 DEF ListInv
    <3>1. k.out = listing[m].out \cup {<<listing[m].of, s>>}
      BY <2>3, <2>5
    <3>2. \A e \in k.out :
            /\ e[1] \in during[m].accounts
            /\ e[1] \in during[m].unheard \/ e \in during[m].rows
      BY <2>1, <2>4, <3>1 DEF ListInv
    <3>3. ASSUME NEW e \in during[m].always,
                 e[2] \in OfType(ServiceType[m]),
                 e[1] \notin during[m].unheard
          PROVE  \/ e[1] \in k.ids
                 \/ e[1] = k.of /\ e[2] \in k.names
                 \/ e \in k.out
      <4>1. Pending(m, e) \/ e \in listing[m].out
        BY <2>1, <3>3 DEF ListInv
      <4>2. e = <<e[1], e[2]>>
        BY DEF ListingsTyped, Watched
      <4> QED
        BY <2>3, <3>1, <4>1, <4>2 DEF Pending
    <3> QED
      BY <2>2, <3>2, <3>3 DEF ListInv, Pending
  <2>9. MemoryInv(m)'
    BY <2>1, <2>2, <2>3 DEF MemoryInv, foreignVars
  <2> QED
    BY <2>6, <2>7, <2>8, <2>9 DEF EnabledInv
<1> QED
  BY <1>3, <1>4

\* A service with a row is found, unless the query fails.
LEMMA RowIsFound ==
  ASSUME RegistryIsTyped, NEW m \in Managers, InTable(call[m].name),
         SelectRow(m) \/ SelectId(m), call'[m].step = "idle"
  PROVE  services'[m][call[m].name] # NoService \/ locks' # locks
<1> DEFINE s == call[m].name
<1>1. /\ s \in Services /\ call[m].object \in ServiceObject
      /\ ObjectTypes /\ TableTypes /\ locks \in Nat
      /\ call[m].step \in {"insert", "id"} => call[m].object.type # NoPlace
  BY InvIsAsking
  DEF RegistryIsTyped, TypeInv, CallTypes, Asking, OpenTypeOK, SelectRow,
      SelectId, Stay
<1>2. CASE Locked
  BY <1>1, <1>2 DEF Locked
<1>3. ASSUME NEW o \in ServiceObject, o.type # NoPlace, Return(m, o)
      PROVE  services'[m][s] # NoService
  BY <1>1, <1>3, PutTypes, NoServiceAssumption DEF Return
<1>4. CASE SelectRow(m) /\ NotLocked
  <2>1. Return(m, FromRow(s))
    BY <1>1, <1>4 DEF SelectRow, Locked, NotLocked
  <2> QED
    BY <1>1, <1>3, <2>1, ObjectsAreTyped
<1>5. CASE SelectId(m) /\ NotLocked
  <2> DEFINE o == [call[m].object EXCEPT !.id = row[s].id]
  <2>1. Return(m, o)
    BY <1>1, <1>5 DEF SelectId, Locked, NotLocked
  <2>2. call[m].object.type # NoPlace
    BY <1>1, <1>5 DEF SelectId
  <2>3. row[s].id \in Ids
    BY <1>1 DEF TableTypes
  <2>4. o \in ServiceObject /\ o.type # NoPlace
    BY <1>1, <2>2, <2>3, ObjectsAreTyped
  <2> HIDE DEF o
  <2> QED
    BY <1>3, <2>1, <2>4
<1> QED
  BY <1>2, <1>4, <1>5 DEF SelectRow, SelectId

LEMMA AnswerToEnabled ==
  ASSUME ListingsTyped, RegistryIsTyped, RowsKept,
         NEW m \in Managers, EnabledInv(m), Answer(m)
  PROVE  EnabledInv(m)'
<1> DEFINE s == call[m].name
           b == listing[m].failed
                  \/ (listing[m].op # "none" /\ locks' # locks)
           l == [listing[m] EXCEPT !.failed = b]
<1>1. /\ listing[m] \in Listings /\ b \in BOOLEAN
      /\ listing[m].failed => b
  BY DEF ListingsTyped, Listings
<1>2. l.names = listing[m].names
  BY <1>1 DEF Listings
<1>3. [listing[m] EXCEPT
         !.failed = @ \/ (listing[m].op # "none" /\ locks' # locks)] = l
  OBVIOUS
<1>4. listing'[m] = IF call'[m].step = "idle" /\ s \in listing[m].names
                    THEN Took(l, s, services'[m][s] # NoService) ELSE l
  <2> HIDE DEF l
  <2> QED
    BY <1>2, <1>3 DEF Answer, ListingsTyped
<1>5. UNCHANGED <<account, enabledRows, during, foreignVars>>
  BY DEF Answer
<1>6. CASE ~(call'[m].step = "idle" /\ s \in listing[m].names)
  BY <1>1, <1>4, <1>5, <1>6, FailureKeeps DEF ListingsTyped, Listings
<1>7. CASE call'[m].step = "idle" /\ s \in listing[m].names
  <2> DEFINE found == services'[m][s] # NoService
  <2>1. SelectRow(m) \/ SelectId(m)
    <3>1. ASSUME InsertRow(m)
          PROVE  call'[m].step # "idle"
      BY <3>1 DEF InsertRow, Asks, RegistryIsTyped, TypeInv, CallTypes
    <3> QED
      BY <1>7, <3>1 DEF Answer
  <2>2. ASSUME listing[m].op = "enabled"
        PROVE  found \/ b
    <3>1. InTable(s)
      BY <1>7, <2>2 DEF EnabledInv, TodoInv
    <3> QED
      BY <1>7, <2>1, <2>2, <3>1, RowIsFound
  <2>3. found \in BOOLEAN /\ listing'[m] = Took(l, s, found)
    BY <1>4, <1>7
  <2>4. s \in listing[m].names
    BY <1>7
  <2> HIDE DEF found, b, s
  <2> QED
    BY <1>1, <1>5, <2>2, <2>3, <2>4, TookKeeps
<1> QED
  BY <1>6, <1>7

\* The other steps of a manager end its listing, or are none of one of what is
\* enabled.
LEMMA OtherSteps ==
  ASSUME ListingsTyped, NEW m \in Managers, EnabledInv(m),
         \/ \E op \in {"services", "application"} : BeginReading(m, op)
         \/ ReadDirectory(m) \/ AddNamed(m) \/ EndListing(m) \/ Gone(m)
  PROVE  EnabledInv(m)'
<1>1. listing[m] \in Listings /\ NoListing.op = "none"
  BY ListingShapes DEF ListingsTyped
<1>2. ASSUME NEW op \in {"services", "application"}, BeginReading(m, op)
      PROVE  listing'[m].op # "enabled"
  <2> DEFINE l == [NoListing EXCEPT !.op = op,
                                    !.dirs = PlacesToList(m \in WithEnv)]
  <2>1. listing'[m] = l
    BY <1>2 DEF BeginReading, Locals, ListingsTyped
  <2>2. l.op = op
    BY DEF NoListing
  <2> QED
    BY <2>1, <2>2
<1>3. ASSUME ReadDirectory(m)
      PROVE  listing'[m].op # "enabled"
  <2> DEFINE N == {s \in Services : Head(listing[m].dirs) \in files[s]}
                    \ listing[m].loaded
             k == [listing[m] EXCEPT !.dirs = Tail(@), !.names = N]
  <2>1. listing'[m] = k
    BY <1>3 DEF ReadDirectory, Locals, ListingsTyped
  <2>2. listing[m].op # "enabled"
    BY <1>3 DEF ReadDirectory, EnabledInv, TodoInv
  <2> HIDE DEF N
  <2>3. k.op = listing[m].op
    BY <1>1 DEF Listings
  <2> QED
    BY <2>1, <2>2, <2>3
<1>4. ASSUME AddNamed(m)
      PROVE  listing'[m].op # "enabled"
  <2> DEFINE C == Chosen(m, listing[m])
             N == {s \in AppServices : <<AnyAccount, s>> \notin C}
             k == [listing[m] EXCEPT !.op = "named", !.out = C, !.names = N]
  <2>1. listing'[m] = k
    BY <1>4 DEF AddNamed, Locals, ListingsTyped
  <2> HIDE DEF C, N
  <2>2. k.op = "named"
    BY <1>1 DEF Listings
  <2> QED
    BY <2>1, <2>2
<1>5. ASSUME EndListing(m) \/ Gone(m)
      PROVE  listing'[m].op # "enabled"
  BY <1>1, <1>5 DEF EndListing, Gone, ListingsTyped
<1> QED
  BY <1>2, <1>3, <1>4, <1>5 DEF EnabledInv

LEMMA EnabledKeeps ==
  ASSUME ListingsTyped, RegistryIsTyped, SettingsInv, RowsKept,
         [Next]_allVars, NEW m \in Managers, EnabledInv(m), KnownInv(m)
  PROVE  EnabledInv(m)'
<1>1. ASSUME UNCHANGED listingVars
      PROVE  EnabledInv(m)'
  BY <1>1, OtherListings DEF listingVars, foreignVars, MemoryKept
<1>2. ASSUME NEW n \in Managers, n # m,
             \/ Answer(n) \/ Gone(n) \/ ReadDirectory(n) \/ AddNamed(n)
             \/ EndListing(n)
             \/ \E op \in {"enabled", "all"} : BeginListing(n, op)
             \/ \E op \in {"services", "application"} : BeginReading(n, op)
             \/ \E a \in Accounts : NextAccount(n, a)
             \/ \E s \in Services : TakeService(n, s)
      PROVE  EnabledInv(m)'
  <2>1. ASSUME NEW l, Locals(n, l)
        PROVE  /\ UNCHANGED <<account, enabledRows>>
               /\ listing'[m] = listing[m] /\ during'[m] = during[m]
               /\ MemoryKept(m)
    BY <1>2, <2>1 DEF Locals, ListingsTyped, foreignVars, MemoryKept
  <2>2. /\ UNCHANGED <<account, enabledRows>>
        /\ listing'[m] = listing[m] /\ during'[m] = during[m]
        /\ MemoryKept(m)
    BY <1>2, <2>1
    DEF ListingsTyped, ForeignTyped, Answer, Gone, ReadDirectory, AddNamed,
        EndListing, BeginListing, BeginReading, NextAccount, TakeService,
        foreignVars, MemoryKept
  <2> QED
    BY <2>2, OtherListings
<1>3. ASSUME NEW s \in Services, TakeService(m, s)
      PROVE  EnabledInv(m)'
  <2> DEFINE b == listing[m].failed
  <2>1. listing[m] \in Listings /\ b \in BOOLEAN /\ s \in listing[m].names
    BY <1>3 DEF ListingsTyped, Listings, TakeService
  <2>2. [listing[m] EXCEPT !.failed = b] = listing[m]
    BY <2>1 DEF Listings
  <2>3. listing'[m] = Took([listing[m] EXCEPT !.failed = b], s, TRUE)
    BY <1>3, <2>2 DEF ListingsTyped, TakeService
  <2>4. UNCHANGED <<account, enabledRows, during, foreignVars>>
    BY <1>3 DEF TakeService
  <2> QED
    BY <2>1, <2>3, <2>4, TookKeeps
<1>4. ASSUME NEW a \in Accounts, NextAccount(m, a)
      PROVE  EnabledInv(m)'
  <2>1. UNCHANGED row
    BY <1>4 DEF NextAccount, Locals
  <2> QED
    BY <1>4, <2>1, NextOfEnabled
<1>5. ASSUME NEW n \in Managers, NEW a \in Accounts,
             \/ \E s \in Services, on \in BOOLEAN : StoreService(n, a, s, on)
             \/ \E on \in {"absent", "disabled", "enabled"} :
                  StoreAccount(n, a, on)
             \/ \E on \in {"disabled", "enabled"} :
                  \E enabled \in SUBSET Services :
                    CreateAccount(n, a, on, enabled)
      PROVE  EnabledInv(m)'
  <2>1. ASSUME NEW c, Announce(n, c), n # m
        PROVE  MemoryKept(m)
    BY <2>1 DEF Announce, ListingsTyped, ForeignTyped, MemoryKept
  <2>2. listing[m].op = "enabled" => n # m
    BY <1>5 DEF StoreService, StoreAccount, CreateAccount, Storing
  <2>3. listing[m].op = "enabled" => MemoryKept(m)
    BY <1>5, <2>1, <2>2
    DEF StoreService, StoreAccount, CreateAccount, foreignVars, MemoryKept
  <2>4. \E on, rows : Change(on, rows)
    BY <1>5 DEF StoreService, StoreAccount, CreateAccount
  <2> QED
    BY <2>3, <2>4, ListingsSeeStores
<1>6. ASSUME NEW n \in Managers,
             Receive(n) \/ \E a \in Accounts : Release(n, a)
      PROVE  EnabledInv(m)'
  <2>1. UNCHANGED <<account, enabledRows, listing, during>>
    BY <1>6 DEF Receive, Release
  <2>2. listing[m].op = "enabled" => n # m
    BY <1>6 DEF Receive, Release
  <2>3. n # m => MemoryKept(m)
    BY <1>6 DEF Receive, Release, ListingsTyped, ForeignTyped, MemoryKept
  <2> QED
    BY <2>1, <2>2, <2>3, OtherListings
<1> QED
  BY <1>1, <1>2, <1>3, <1>4, <1>5, <1>6, BeginEnabled, AnswerToEnabled, OtherSteps
  DEF Next, BetweenCalls, AskForService, allVars

LEMMA SettingsKeep ==
  ASSUME ListingsTyped, RegistryIsTyped, SettingsInv, RowsKept, [Next]_allVars
  PROVE  SettingsInv'
<1>1. \A e \in enabledRows : /\ e = <<e[1], e[2]>> /\ e[1] \in Accounts
                             /\ e[2] \in Services /\ InTable(e[2])
                             /\ Exists(e[1])
  BY DEF ListingsTyped, SettingsInv
<1>2. ASSUME UNCHANGED <<account, enabledRows>>
      PROVE  SettingsInv'
  BY <1>1, <1>2 DEF SettingsInv, RowsKept, Exists
<1>3. ASSUME NEW n \in Managers, NEW a, NEW s \in Services, NEW on,
             StoreService(n, a, s, on)
      PROVE  SettingsInv'
  <2>1. InTable(s) /\ Exists(a)
    BY <1>3, KnownServices DEF StoreService
  <2>2. /\ enabledRows' \subseteq enabledRows \cup {<<a, s>>}
        /\ UNCHANGED <<row, account>>
    BY <1>3 DEF StoreService, Change
  <2> QED
    BY <1>1, <2>1, <2>2 DEF SettingsInv, InTable, Exists
<1>4. ASSUME NEW n \in Managers, NEW a \in Accounts,
             NEW on \in {"absent", "disabled", "enabled"},
             StoreAccount(n, a, on)
      PROVE  SettingsInv'
  <2>1. /\ account' = [account EXCEPT ![a] = on]
        /\ enabledRows' \subseteq enabledRows
        /\ on = "absent" => \A e \in enabledRows' : e[1] # a
    BY <1>4 DEF StoreAccount, Change
  <2> QED
    BY <1>1, <2>1 DEF SettingsInv, RowsKept, Exists, ListingsTyped
<1>5. ASSUME NEW n \in Managers, NEW a \in Accounts, NEW on,
             NEW enabled \in SUBSET Services,
             CreateAccount(n, a, on, enabled)
      PROVE  SettingsInv'
  <2>1. \A s \in enabled : InTable(s)
    BY <1>5, KnownServices DEF CreateAccount
  <2>2. /\ account' = [account EXCEPT ![a] = on]
        /\ enabledRows' = enabledRows \cup ({a} \X enabled)
        /\ on \in {"disabled", "enabled"} /\ UNCHANGED row
    BY <1>5 DEF CreateAccount, Change
  <2>3. ASSUME NEW e \in enabledRows'
        PROVE  (InTable(e[2]) /\ Exists(e[1]))'
    <3>1. CASE e \in enabledRows
      BY <1>1, <2>2, <3>1 DEF Exists, InTable, ListingsTyped
    <3>2. CASE e \in {a} \X enabled
      BY <2>1, <2>2, <3>2 DEF Exists, InTable, ListingsTyped
    <3> QED
      BY <2>2, <3>1, <3>2
  <2> QED
    BY <2>3 DEF SettingsInv
<1>6. ASSUME NEW n \in Managers, NEW l, Locals(n, l)
      PROVE  UNCHANGED <<account, enabledRows>>
  BY <1>6 DEF Locals
<1>7. ASSUME NEW n \in Managers,
             \/ Answer(n) \/ Gone(n) \/ ReadDirectory(n) \/ AddNamed(n)
             \/ EndListing(n) \/ BetweenCalls(n) \/ Receive(n)
             \/ \E op \in {"enabled", "all"} : BeginListing(n, op)
             \/ \E op \in {"services", "application"} : BeginReading(n, op)
             \/ \E a \in Accounts : NextAccount(n, a) \/ Release(n, a)
             \/ \E s \in Services : TakeService(n, s) \/ AskForService(n, s)
      PROVE  UNCHANGED <<account, enabledRows>>
  BY <1>6, <1>7
  DEF Answer, Gone, ReadDirectory, AddNamed, EndListing, BetweenCalls,
      Receive, Release, BeginListing, BeginReading, NextAccount, TakeService,
      AskForService, listingVars
<1> QED
  BY <1>2, <1>3, <1>4, <1>5, <1>7 DEF Next, allVars, listingVars
-----------------------------------------------------------------------------
(* What managers hear of foreign accounts.                                 *)

\* A signal is added at the end of a queue.
LEMMA OneMore ==
  ASSUME NEW q \in Seq(News), NEW c \in News, NEW e, NEW rows
  PROVE  /\ Concerns(c, e) /\ (e[2] \in c.on <=> e \in rows) =>
              LastIsRight(Append(q, c), e, rows) /\ Told(Append(q, c), e) # {}
         /\ ~Concerns(c, e) /\ LastIsRight(q, e, rows) =>
              /\ LastIsRight(Append(q, c), e, rows)
              /\ Told(Append(q, c), e) = Told(q, e)
<1> DEFINE p == Append(q, c)
           n == Len(q)
<1>1. /\ n \in Nat /\ DOMAIN q = 1..n /\ DOMAIN p = 1..n + 1
      /\ p[n + 1] = c /\ \A i \in 1..n : p[i] = q[i]
  OBVIOUS
<1> HIDE DEF p, n
<1>2. Told(p, e) = Told(q, e) \cup (IF Concerns(c, e) THEN {n + 1} ELSE {})
  BY <1>1 DEF Told
<1>3. Told(q, e) \subseteq 1..n
  BY <1>1 DEF Told
<1>4. ASSUME Concerns(c, e), e[2] \in c.on <=> e \in rows
      PROVE  LastIsRight(p, e, rows) /\ Told(p, e) # {}
  <2>1. n + 1 \in Told(p, e)
    BY <1>2, <1>4
  <2>2. ASSUME NEW i \in Told(p, e), \A j \in Told(p, e) : j <= i
        PROVE  i = n + 1
    BY <1>1, <1>2, <1>3, <2>1, <2>2
  <2> QED
    BY <1>1, <1>4, <2>1, <2>2 DEF LastIsRight
<1>5. ASSUME ~Concerns(c, e), LastIsRight(q, e, rows)
      PROVE  LastIsRight(p, e, rows) /\ Told(p, e) = Told(q, e)
  <2>1. Told(p, e) = Told(q, e)
    BY <1>2, <1>5
  <2>2. \A i \in Told(q, e) : p[i] = q[i]
    BY <1>1, <1>3
  <2> QED
    BY <1>5, <2>1, <2>2 DEF LastIsRight
<1> QED
  BY <1>4, <1>5 DEF p

\* The first of a queue is taken.
LEMMA OneLess ==
  ASSUME NEW q \in Seq(News), q # <<>>, NEW e, NEW rows,
         LastIsRight(q, e, rows)
  PROVE  /\ LastIsRight(Tail(q), e, rows)
         /\ Told(Tail(q), e) = {} =>
              \/ Concerns(Head(q), e) /\ (e[2] \in Head(q).on <=> e \in rows)
              \/ ~Concerns(Head(q), e) /\ Told(q, e) = {}
<1> DEFINE p == Tail(q)
           n == Len(q)
           c == Head(q)
<1>1. /\ n \in Nat /\ n >= 1 /\ DOMAIN q = 1..n /\ DOMAIN p = 1..n - 1
      /\ c = q[1] /\ \A i \in 1..n - 1 : p[i] = q[i + 1]
  OBVIOUS
<1> HIDE DEF p, n, c
<1>2. \A i \in 1..n - 1 : i \in Told(p, e) <=> i + 1 \in Told(q, e)
  BY <1>1 DEF Told
<1>3. Told(p, e) \subseteq 1..n - 1 /\ Told(q, e) \subseteq 1..n
  BY <1>1 DEF Told
<1>4. 1 \in Told(q, e) <=> Concerns(c, e)
  BY <1>1 DEF Told
<1>5. ASSUME NEW i \in Told(p, e), \A j \in Told(p, e) : j <= i
      PROVE  e[2] \in p[i].on <=> e \in rows
  <2>1. i \in 1..n - 1 /\ i + 1 \in Told(q, e) /\ p[i] = q[i + 1]
    BY <1>1, <1>2, <1>3, <1>5
  <2>2. ASSUME NEW k \in Told(q, e)
        PROVE  k <= i + 1
    <3>1. k \in 1..n
      BY <1>3
    <3>2. CASE k = 1
      BY <1>1, <2>1, <3>2
    <3>3. CASE k # 1
      <4>1. k - 1 \in 1..n - 1 /\ (k - 1) + 1 = k
        BY <1>1, <3>1, <3>3
      <4>2. k - 1 \in Told(p, e)
        BY <1>2, <4>1
      <4>3. k - 1 <= i
        BY <1>5, <4>2
      <4> QED
        BY <1>1, <2>1, <3>1, <4>3
    <3> QED
      BY <3>2, <3>3
  <2> QED
    BY <2>1, <2>2 DEF LastIsRight
<1>6. ASSUME Told(p, e) = {}
      PROVE  \A k \in Told(q, e) : k = 1
  <2> SUFFICES ASSUME NEW k \in Told(q, e), k # 1
               PROVE  FALSE
    OBVIOUS
  <2>1. k \in 1..n
    BY <1>3
  <2>2. k - 1 \in 1..n - 1 /\ (k - 1) + 1 = k
    BY <1>1, <2>1
  <2> QED
    BY <1>2, <1>6, <2>2
<1>7. ASSUME Told(p, e) = {}, Concerns(c, e)
      PROVE  e[2] \in c.on <=> e \in rows
  BY <1>1, <1>4, <1>6, <1>7 DEF LastIsRight
<1>8. ASSUME Told(p, e) = {}, ~Concerns(c, e)
      PROVE  Told(q, e) = {}
  BY <1>4, <1>6, <1>8
<1> QED
  BY <1>5, <1>7, <1>8 DEF LastIsRight, p, c

\* Nothing happens that a manager hears of, or forgets.
LEMMA OthersHear ==
  ASSUME NEW m \in Managers, HeardInv(m), KnownInv(m),
         UNCHANGED <<account, enabledRows>>,
         MemoryKept(m), news'[m] = news[m],
         phase'[m] # "open" => phase[m] # "open"
  PROVE  HeardInv(m)' /\ KnownInv(m)'
<1>1. HeardInv(m)'
  BY DEF HeardInv, MemoryKept
<1>2. KnownInv(m)'
  BY DEF KnownInv, MemoryKept, LastIsRight, Told, Exists
<1> QED
  BY <1>1, <1>2

\* A store, which changes the settings that its signal tells of.
LEMMA StoresAreHeard ==
  ASSUME ListingsTyped, NEW m \in Managers, HeardInv(m), KnownInv(m),
         NEW n \in Managers, NEW c \in News, Announce(n, c),
         ListingsTyped', phase' = phase,
         \A a \in Accounts : account'[a] = "unborn" => account[a] = "unborn",
         account'[c.account] # "unborn", SaysOfNamed(c),
         \A e \in Accounts \X Services :
           IF Concerns(c, e) THEN e[2] \in c.on <=> e \in enabledRows'
           ELSE /\ Exists(e[1])' => Exists(e[1])
                /\ e \in enabledRows' <=> e \in enabledRows
  PROVE  HeardInv(m)' /\ KnownInv(m)'
<1> DEFINE q == news[m]
<1>1. /\ news \in [Managers -> Seq(News)] /\ q \in Seq(News)
      /\ memory \in [Managers -> SUBSET (Accounts \X Services)]
      /\ foreign \in [Managers -> SUBSET Accounts]
      /\ c.account \in Accounts
  BY DEF ListingsTyped, ForeignTyped, News
<1>2. foreign' = foreign
  BY DEF Announce
<1>3. memory'[m] = IF n = m /\ c.account \in foreign[m]
                   THEN Updated(memory[m], c) ELSE memory[m]
  BY <1>1 DEF Announce
<1>4. \/ news'[m] = Append(q, c) /\ phase[m] = "open"
      \/ news'[m] = q /\ phase[m] # "open"
      \/ news'[m] = q /\ ~Matters(m, c)
      \/ news'[m] = q /\ n = m /\ q = <<>>
  BY DEF Announce
<1>5. ASSUME NEW e \in Accounts \X Services, Concerns(c, e),
             c.account \in foreign[m]
      PROVE  e \in Updated(memory[m], c) <=> e[2] \in c.on
  <2>1. e = <<c.account, e[2]>>
    BY <1>5 DEF Concerns
  <2> QED
    BY <1>5, <2>1 DEF Updated
<1>8. \A e \in Updated(memory[m], c) : e \in memory[m] \/ e[1] = c.account
  BY DEF Updated
<1>9. HeardInv(m)'
  <2>1. \A e \in memory'[m] : e[1] \in foreign[m]
    BY <1>3, <1>8 DEF HeardInv
  <2>2. phase'[m] # "open" => foreign'[m] = {} /\ news'[m] = <<>>
    BY <1>2, <1>4 DEF HeardInv
  <2>3. \A a \in foreign'[m] : account'[a] # "unborn"
    BY <1>1, <1>2 DEF HeardInv
  <2>4. \A i \in DOMAIN news'[m] :
          account'[news'[m][i].account] # "unborn" /\ SaysOfNamed(news'[m][i])
    <3>0. \A i \in DOMAIN q : q[i] \in News
      BY <1>1
    <3>1. \A i \in DOMAIN q : q[i].account \in Accounts
      BY <3>0 DEF News
    <3>2. \A i \in DOMAIN q :
            account'[q[i].account] # "unborn" /\ SaysOfNamed(q[i])
      BY <3>1 DEF HeardInv
    <3>3. CASE news'[m] = Append(q, c)
      <4>1. \A i \in DOMAIN news'[m] : news'[m][i] = c
                  \/ (i \in DOMAIN q /\ news'[m][i] = q[i])
        BY <1>1, <3>3
      <4> QED
        BY <3>2, <4>1
    <3> QED
      BY <1>4, <3>2, <3>3
  <2> QED
    BY <1>2, <2>1, <2>2, <2>3, <2>4 DEF HeardInv
<1>10. ASSUME NEW e \in Accounts \X Services, Exists(e[1])'
       PROVE  /\ LastIsRight(news'[m], e, enabledRows')
              /\ e[1] \in foreign'[m] /\ Told(news'[m], e) = {} =>
                   (e \in memory'[m] <=> e \in enabledRows')
  <2>1. CASE Concerns(c, e)
    <3>1. e[2] \in c.on <=> e \in enabledRows'
      BY <2>1
    <3>2. e[1] = c.account
      BY <2>1 DEF Concerns
    <3>3. CASE news'[m] = Append(q, c)
      BY <1>1, <2>1, <3>1, <3>3, OneMore
    <3>4. CASE news'[m] = q /\ (phase[m] # "open" \/ ~Matters(m, c))
      <4>1. e[1] \notin foreign[m]
        BY <3>2, <3>4 DEF HeardInv, Matters
      <4>2. Told(q, e) = {}
        BY <3>2, <3>4 DEF HeardInv, Matters, Told, Concerns
      <4> QED
        BY <1>2, <3>4, <4>1, <4>2 DEF LastIsRight
    <3>5. CASE news'[m] = q /\ n = m /\ q = <<>>
      <4>1. Told(q, e) = {}
        BY <3>5 DEF Told
      <4> QED
        BY <1>2, <1>3, <1>5, <2>1, <3>1, <3>2, <3>5, <4>1 DEF LastIsRight
    <3> QED
      BY <1>4, <3>3, <3>4, <3>5
  <2>2. CASE ~Concerns(c, e)
    <3>1. /\ Exists(e[1])
          /\ e \in enabledRows' <=> e \in enabledRows
      BY <1>10, <2>2
    <3>2. /\ LastIsRight(q, e, enabledRows)
          /\ e[1] \in foreign[m] /\ Told(q, e) = {} =>
               (e \in memory[m] <=> e \in enabledRows)
      BY <3>1 DEF KnownInv
    <3>3. LastIsRight(q, e, enabledRows')
      BY <3>1, <3>2 DEF LastIsRight
    <3>4. e \in memory'[m] <=> e \in memory[m]
      <4>1. e \in Updated(memory[m], c) <=> e \in memory[m]
        BY <2>2 DEF SaysOfNamed, Updated, Concerns
      <4> QED
        BY <1>3, <4>1
    <3>5. /\ LastIsRight(news'[m], e, enabledRows')
          /\ Told(news'[m], e) = Told(q, e)
      <4>1. CASE news'[m] = Append(q, c)
        BY <1>1, <2>2, <3>3, <4>1, OneMore
      <4> QED
        BY <1>4, <3>3, <4>1
    <3> QED
      BY <1>2, <3>1, <3>2, <3>4, <3>5
  <2> QED
    BY <2>1, <2>2
<1> QED
  BY <1>9, <1>10 DEF KnownInv

LEMMA ReceivedIsKnown ==
  ASSUME ListingsTyped, NEW m \in Managers, HeardInv(m), KnownInv(m),
         Receive(m), phase' = phase
  PROVE  HeardInv(m)' /\ KnownInv(m)'
<1> DEFINE q == news[m]
           c == Head(q)
<1>1. /\ q \in Seq(News) /\ q # <<>> /\ c \in News
      /\ memory \in [Managers -> SUBSET (Accounts \X Services)]
      /\ foreign \in [Managers -> SUBSET Accounts]
      /\ news \in [Managers -> Seq(News)]
  BY DEF ListingsTyped, ForeignTyped, Receive
<1>2. /\ news' = [news EXCEPT ![m] = Tail(@)]
      /\ \/ UNCHANGED foreign
         \/ c.created /\ foreign' = [foreign EXCEPT ![m] = @ \cup {c.account}]
      /\ memory' = [memory EXCEPT ![m] = IF c.account \in foreign'[m]
                                        THEN Updated(@, c) ELSE @]
      /\ UNCHANGED <<account, enabledRows>>
  BY DEF Receive
<1>3. c = q[1] /\ 1 \in DOMAIN q
  BY <1>1
<1>4. /\ SaysOfNamed(c) /\ account[c.account] # "unborn"
      /\ c.account \in Accounts
  BY <1>1, <1>3 DEF HeardInv, News
<1> HIDE DEF c
<1>5. /\ news'[m] = Tail(q)
      /\ memory'[m] = IF c.account \in foreign'[m]
                      THEN Updated(memory[m], c) ELSE memory[m]
  BY <1>1, <1>2
<1>6. /\ foreign[m] \subseteq foreign'[m]
      /\ \A a \in foreign'[m] :
           a \in foreign[m] \/ (c.created /\ a = c.account)
  <2>1. CASE UNCHANGED foreign
    BY <2>1
  <2>2. CASE c.created /\ foreign' = [foreign EXCEPT ![m] = @ \cup {c.account}]
    <3>1. foreign'[m] = foreign[m] \cup {c.account}
      BY <1>1, <2>2
    <3> QED
      BY <2>2, <3>1
  <2> QED
    BY <1>2, <2>1, <2>2
<1>7. HeardInv(m)'
  <2>1. phase[m] = "open"
    BY <1>1 DEF HeardInv
  <2>2. \A a \in foreign'[m] : account'[a] # "unborn"
    BY <1>2, <1>4, <1>6 DEF HeardInv
  <2>3. \A e \in memory'[m] : e[1] \in foreign'[m]
    BY <1>5, <1>6 DEF HeardInv, Updated
  <2>4. \A i \in DOMAIN news'[m] :
          account'[news'[m][i].account] # "unborn" /\ SaysOfNamed(news'[m][i])
    <3>1. \A i \in DOMAIN Tail(q) : i + 1 \in DOMAIN q /\ Tail(q)[i] = q[i + 1]
      BY <1>1
    <3> QED
      BY <1>2, <1>5, <3>1 DEF HeardInv
  <2> QED
    BY <2>1, <2>2, <2>3, <2>4 DEF HeardInv
<1>8. ASSUME NEW e \in Accounts \X Services, Exists(e[1])'
      PROVE  /\ LastIsRight(news'[m], e, enabledRows')
             /\ e[1] \in foreign'[m] /\ Told(news'[m], e) = {} =>
                  (e \in memory'[m] <=> e \in enabledRows')
  <2>1. /\ LastIsRight(q, e, enabledRows)
        /\ e[1] \in foreign[m] /\ Told(q, e) = {} =>
             (e \in memory[m] <=> e \in enabledRows)
    BY <1>2, <1>8 DEF KnownInv, Exists
  <2>2. /\ LastIsRight(Tail(q), e, enabledRows)
        /\ Told(Tail(q), e) = {} =>
             \/ Concerns(c, e) /\ (e[2] \in c.on <=> e \in enabledRows)
             \/ ~Concerns(c, e) /\ Told(q, e) = {}
    BY <1>1, <2>1, OneLess DEF c
  <2>3. ASSUME e[1] \in foreign'[m], Concerns(c, e),
               e[2] \in c.on <=> e \in enabledRows
        PROVE  e \in memory'[m] <=> e \in enabledRows
    <3>1. e = <<e[1], e[2]>> /\ e[1] = c.account
      BY <2>3 DEF Concerns
    <3> QED
      BY <1>5, <2>3, <3>1 DEF Updated
  <2>4. ASSUME e[1] \in foreign'[m], ~Concerns(c, e), Told(q, e) = {}
        PROVE  e \in memory'[m] <=> e \in enabledRows
    <3>1. e[1] \in foreign[m]
      BY <1>6, <2>4 DEF Concerns
    <3>2. e \in Updated(memory[m], c) <=> e \in memory[m]
      BY <1>4, <2>4 DEF SaysOfNamed, Updated, Concerns
    <3> QED
      BY <1>5, <2>1, <2>4, <3>1, <3>2
  <2> QED
    BY <1>2, <1>5, <2>2, <2>3, <2>4
<1> QED
  BY <1>7, <1>8 DEF KnownInv

\* A manager that is not open hears nothing.
LEMMA Forgotten ==
  ASSUME NEW m \in Managers, foreign'[m] = {}, memory'[m] = {},
         news'[m] = <<>>
  PROVE  HeardInv(m)' /\ KnownInv(m)'
BY DEF HeardInv, KnownInv, Told, LastIsRight

LEMMA KnownKeeps ==
  ASSUME RegistryIsTyped, ListingsTyped, ListingsTyped', SettingsInv,
         [Next]_allVars,
         NEW m \in Managers, HeardInv(m), KnownInv(m)
  PROVE  HeardInv(m)' /\ KnownInv(m)'
<1>1. ASSUME UNCHANGED listingVars, UNCHANGED phase
      PROVE  HeardInv(m)' /\ KnownInv(m)'
  BY <1>1, OthersHear DEF listingVars, foreignVars, MemoryKept
<1>2. ASSUME NEW n \in Managers, Opening(n), UNCHANGED listingVars
      PROVE  HeardInv(m)' /\ KnownInv(m)'
  <2>1. CASE phase'[m] # "open" => phase[m] # "open"
    BY <1>2, <2>1, OthersHear DEF listingVars, foreignVars, MemoryKept
  <2>2. CASE phase'[m] # "open" /\ phase[m] = "open"
    <3>1. n # m
      BY <1>2, <2>2
      DEF Opening, OpenFile, GetDbVersion, RunStatement, RetryScript,
          FinishScript, SetupDbus, DieOpening
    <3>2. ASSUME NEW p, Enter(n, p)
          PROVE  phase'[m] = phase[m]
      BY <3>1, <3>2 DEF Enter, RegistryIsTyped, TypeInv, OpenTypeOK
    <3> QED
      BY <1>2, <2>2, <3>2
      DEF Opening, OpenFile, GetDbVersion, RunStatement, RetryScript,
          FinishScript, SetupDbus, DieOpening
  <2> QED
    BY <2>1, <2>2
<1>3. ASSUME NEW n \in Managers, Gone(n)
      PROVE  HeardInv(m)' /\ KnownInv(m)'
  <2>1. CASE n = m
    BY <1>3, <2>1, Forgotten DEF Gone, ListingsTyped, ForeignTyped
  <2>2. CASE n # m
    <3>1. phase' = [phase EXCEPT ![n] = "closed"]
      BY <1>3 DEF Gone, CloseManager, AbortOnTimeout, Vanish, Enter
    <3>2. phase'[m] = "open" \/ phase'[m] = phase[m]
      BY <2>2, <3>1
    <3>3. /\ UNCHANGED <<account, enabledRows>> /\ MemoryKept(m)
          /\ news'[m] = news[m]
      BY <1>3, <2>2 DEF Gone, ListingsTyped, ForeignTyped, MemoryKept
    <3> QED
      BY <3>2, <3>3, OthersHear
  <2> QED
    BY <2>1, <2>2
<1>4. ASSUME NEW n \in Managers,
             \/ Answer(n) \/ ReadDirectory(n) \/ AddNamed(n) \/ EndListing(n)
             \/ \E op \in {"enabled", "all"} : BeginListing(n, op)
             \/ \E op \in {"services", "application"} : BeginReading(n, op)
             \/ \E a \in Accounts : NextAccount(n, a)
             \/ \E s \in Services : TakeService(n, s)
      PROVE  HeardInv(m)' /\ KnownInv(m)'
  <2>1. ASSUME NEW l, Locals(n, l)
        PROVE  UNCHANGED <<account, enabledRows, foreignVars, phase>>
    BY <2>1 DEF Locals, openVars
  <2>2. UNCHANGED <<account, enabledRows, foreignVars, phase>>
    BY <1>4, <2>1
    DEF Answer, SelectRow, InsertRow, SelectId, Stay, ReadDirectory, AddNamed,
        EndListing, BeginListing, BeginReading, NextAccount, TakeService,
        openVars
  <2> QED
    BY <2>2, OthersHear DEF foreignVars, MemoryKept
<1>5. ASSUME NEW n \in Managers, BetweenCalls(n)
      PROVE  HeardInv(m)' /\ KnownInv(m)'
  BY <1>1, <1>5
  DEF BetweenCalls, GetService, Consult, HandleMessage, openVars
<1>6. ASSUME NEW n \in Managers, NEW s \in Services, AskForService(n, s)
      PROVE  HeardInv(m)' /\ KnownInv(m)'
  BY <1>1, <1>6 DEF AskForService, GetService, openVars
<1>7. ASSUME NEW s \in Services, NEW in \in Installed, Install(s, in),
             UNCHANGED listingVars
      PROVE  HeardInv(m)' /\ KnownInv(m)'
  BY <1>1, <1>7 DEF Install, openVars
<1>8. ASSUME NEW n \in Managers, NEW a \in Accounts, NEW s \in Services,
             NEW on \in BOOLEAN, StoreService(n, a, s, on)
      PROVE  HeardInv(m)' /\ KnownInv(m)'
  <2> DEFINE c == [by |-> n, account |-> a, created |-> FALSE, names |-> {s},
                   on |-> IF on THEN {s} ELSE {}]
  <2>1. c \in News /\ Announce(n, c) /\ SaysOfNamed(c)
    BY <1>8 DEF StoreService, News, SaysOfNamed
  <2>2. /\ c.account = a /\ Exists(a) /\ phase' = phase
        /\ UNCHANGED account
        /\ enabledRows' = IF on THEN enabledRows \cup {<<a, s>>}
                          ELSE enabledRows \ {<<a, s>>}
    BY <1>8 DEF StoreService, Change, openVars
  <2>3. ASSUME NEW e \in Accounts \X Services
        PROVE  IF Concerns(c, e) THEN e[2] \in c.on <=> e \in enabledRows'
               ELSE /\ Exists(e[1])' => Exists(e[1])
                    /\ e \in enabledRows' <=> e \in enabledRows
    <3>1. e = <<e[1], e[2]>>
      OBVIOUS
    <3>2. Concerns(c, e) <=> e = <<a, s>>
      BY <3>1 DEF Concerns
    <3>3. s \in c.on <=> on
      OBVIOUS
    <3> HIDE DEF c
    <3> QED
      BY <2>2, <3>1, <3>2, <3>3 DEF Exists
  <2> HIDE DEF c
  <2> QED
    BY <2>1, <2>2, <2>3, StoresAreHeard DEF Exists
<1>9. ASSUME NEW n \in Managers, NEW a \in Accounts,
             NEW on \in {"disabled", "enabled"},
             NEW enabled \in SUBSET Services,
             CreateAccount(n, a, on, enabled)
      PROVE  HeardInv(m)' /\ KnownInv(m)'
  <2> DEFINE c == [by |-> n, account |-> a, created |-> TRUE,
                   names |-> enabled, on |-> enabled]
  <2>1. c \in News /\ Announce(n, c) /\ SaysOfNamed(c)
    BY <1>9 DEF CreateAccount, News, SaysOfNamed
  <2>2. /\ c.account = a /\ account[a] = "unborn" /\ phase' = phase
        /\ account' = [account EXCEPT ![a] = on]
        /\ enabledRows' = enabledRows \cup ({a} \X enabled)
    BY <1>9 DEF CreateAccount, Change, openVars
  <2>3. ASSUME NEW e \in Accounts \X Services
        PROVE  IF Concerns(c, e) THEN e[2] \in c.on <=> e \in enabledRows'
               ELSE /\ Exists(e[1])' => Exists(e[1])
                    /\ e \in enabledRows' <=> e \in enabledRows
    <3>1. e = <<e[1], e[2]>>
      OBVIOUS
    <3>2. Concerns(c, e) <=> e[1] = a
      BY DEF Concerns
    <3>3. c.on = enabled
      OBVIOUS
    <3> HIDE DEF c
    <3>4. e[1] = a => e \notin enabledRows
      BY <2>2 DEF SettingsInv, Exists
    <3>5. e[1] # a => account'[e[1]] = account[e[1]]
      BY <2>2 DEF ListingsTyped
    <3> QED
      BY <2>2, <3>1, <3>2, <3>3, <3>4, <3>5 DEF Exists
  <2> HIDE DEF c
  <2>4. /\ \A b \in Accounts : account'[b] = "unborn" => account[b] = "unborn"
        /\ account'[c.account] # "unborn"
    BY <2>2 DEF ListingsTyped
  <2> QED
    BY <2>1, <2>2, <2>3, <2>4, StoresAreHeard
<1>10. ASSUME NEW n \in Managers, NEW a \in Accounts,
              NEW on \in {"absent", "disabled", "enabled"},
              StoreAccount(n, a, on)
       PROVE  HeardInv(m)' /\ KnownInv(m)'
  <2>1. /\ account' = [account EXCEPT ![a] = on] /\ Exists(a)
        /\ UNCHANGED <<foreignVars, phase>>
        /\ enabledRows' = IF on = "absent" THEN {e \in enabledRows : e[1] # a}
                          ELSE enabledRows
    BY <1>10 DEF StoreAccount, Change, openVars
  <2>2. \A b \in Accounts : account'[b] = "unborn" <=> account[b] = "unborn"
    BY <2>1 DEF ListingsTyped, Exists
  <2>3. /\ foreign[m] \subseteq Accounts
        /\ \A i \in DOMAIN news[m] : news[m][i].account \in Accounts
    <3>1. news[m] \in Seq(News)
      BY DEF ListingsTyped, ForeignTyped
    <3>2. \A i \in DOMAIN news[m] : news[m][i] \in News
      BY <3>1
    <3> QED
      BY <3>2 DEF ListingsTyped, ForeignTyped, News
  <2>4. HeardInv(m)'
    BY <2>1, <2>2, <2>3 DEF HeardInv, foreignVars
  <2>5. ASSUME NEW e \in Accounts \X Services, Exists(e[1])'
        PROVE  Exists(e[1]) /\ (e \in enabledRows' <=> e \in enabledRows)
    BY <2>1, <2>5 DEF Exists, ListingsTyped
  <2>6. KnownInv(m)'
    BY <2>1, <2>5 DEF KnownInv, foreignVars, LastIsRight, Told
  <2> QED
    BY <2>4, <2>6
<1>11. ASSUME NEW n \in Managers, Receive(n)
       PROVE  HeardInv(m)' /\ KnownInv(m)'
  <2>1. UNCHANGED <<account, enabledRows, phase>>
    BY <1>11 DEF Receive, HandleServices, HandleMessage, openVars
  <2>2. CASE n = m
    BY <1>11, <2>1, <2>2, ReceivedIsKnown
  <2>3. CASE n # m
    <3>1. MemoryKept(m) /\ news'[m] = news[m]
      BY <1>11, <2>3 DEF Receive, ListingsTyped, ForeignTyped, MemoryKept
    <3> QED
      BY <2>1, <3>1, OthersHear
  <2> QED
    BY <2>2, <2>3
<1>12. ASSUME NEW n \in Managers, NEW a \in Accounts, Release(n, a)
       PROVE  HeardInv(m)' /\ KnownInv(m)'
  <2>1. UNCHANGED <<account, enabledRows, phase, news>>
    BY <1>12 DEF Release, openVars
  <2>2. CASE n = m
    <3>1. /\ foreign'[m] = foreign[m] \ {a}
          /\ memory'[m] = {e \in memory[m] : e[1] # a}
      BY <1>12, <2>2 DEF Release, ListingsTyped, ForeignTyped
    <3>2. HeardInv(m)'
      BY <2>1, <3>1 DEF HeardInv
    <3>3. KnownInv(m)'
      BY <2>1, <3>1 DEF KnownInv, Exists, LastIsRight, Told
    <3> QED
      BY <3>2, <3>3
  <2>3. CASE n # m
    <3>1. MemoryKept(m)
      BY <1>12, <2>3 DEF Release, ListingsTyped, ForeignTyped, MemoryKept
    <3> QED
      BY <2>1, <3>1, OthersHear
  <2> QED
    BY <2>2, <2>3
<1> QED
  BY <1>1, <1>2, <1>3, <1>4, <1>5, <1>6, <1>7, <1>8, <1>9, <1>10, <1>11,
     <1>12
  DEF Next, allVars, openVars
-----------------------------------------------------------------------------
(* The theorems.                                                           *)

ListingInv ==
  /\ RegistryIsTyped /\ ListingsTyped /\ SettingsInv
  /\ \A m \in Managers : HeardInv(m) /\ KnownInv(m) /\ EnabledInv(m)

LEMMA ListingsInvariant ==
  /\ Init => ListingInv
  /\ ListingInv /\ [Next]_allVars => ListingInv'
<1>1. ASSUME Init
      PROVE  ListingInv
  <2>1. RegistryIsTyped
    BY <1>1, TypesInvariant DEF Init
  <2>2. ListingsTyped /\ SettingsInv
    BY <1>1, ListingShapes
    DEF Init, ListingInit, ListingsTyped, ForeignTyped, States, SettingsInv
  <2>3. \A m \in Managers : EnabledInv(m)
    BY <1>1, ListingShapes DEF Init, ListingInit, EnabledInv
  <2>4. ASSUME NEW m \in Managers
        PROVE  HeardInv(m) /\ KnownInv(m)
    <3>1. foreign[m] = {} /\ memory[m] = {} /\ news[m] = <<>>
      BY <1>1 DEF Init, ListingInit
    <3> QED
      BY <3>1 DEF HeardInv, KnownInv, Told, LastIsRight
  <2> QED
    BY <2>1, <2>2, <2>3, <2>4 DEF ListingInv
<1>2. ASSUME ListingInv, [Next]_allVars
      PROVE  ListingInv'
  <2>1. RegistryIsTyped' /\ RowsKept
    BY <1>2, ServicesKeep DEF ListingInv
  <2>2. ListingsTyped' /\ SettingsInv'
    BY <1>2, <2>1, ListingsStayTyped, SettingsKeep DEF ListingInv
  <2>3. \A m \in Managers : EnabledInv(m)'
    BY <1>2, <2>1, EnabledKeeps DEF ListingInv
  <2>4. \A m \in Managers : HeardInv(m)' /\ KnownInv(m)'
    BY <1>2, <2>2, KnownKeeps DEF ListingInv
  <2> QED
    BY <2>1, <2>2, <2>3, <2>4 DEF ListingInv
<1> QED
  BY <1>1, <1>2

\* Every variable keeps its type: what a listing has still to read is the end
\* of the list of directories, and its list names accounts and services.
THEOREM ListingsAreTyped == Spec => []TypeOK
<1>1. ListingInv => TypeOK
  BY TypedServices
  DEF ListingInv, TypeOK, ListingTypeOK, ListingsTyped, ForeignTyped,
      States, Listings, Dirs
<1> QED
  BY <1>1, ListingsInvariant, PTL DEF Spec

\* ag_manager_get_enabled_account_services() of a manager whose queries find
\* the database unlocked lists all that was enabled during the whole call, of
\* its type, and nothing that was not enabled at some time of it, however many
\* managers store, create and delete accounts and load services while it runs;
\* but for foreign accounts that a signal was about when the call began.
THEOREM EnabledListings == Spec => []EnabledListingIsRight
<1>1. ListingInv => EnabledListingIsRight
  <2> SUFFICES ASSUME ListingInv, NEW m \in Managers, Returns(m)
               PROVE  /\ \A e \in Throughout(m) :
                           e[1] \in during[m].unheard \/ e \in Result(m)
                      /\ \A e \in Result(m) :
                           /\ e[1] \in during[m].accounts
                           /\ e[1] \in during[m].unheard
                                \/ e \in during[m].rows
    BY DEF EnabledListingIsRight
  <2>1. ListInv(m) /\ listing[m].ids = {} /\ listing[m].names = {}
    BY DEF ListingInv, EnabledInv, Returns, Complete, Between
  <2>2. Result(m) = listing[m].out
    BY NothingChosen DEF Result, Returns
  <2> QED
    BY <2>1, <2>2 DEF ListInv, Pending, Returns, Throughout
<1> QED
  BY <1>1, ListingsInvariant, PTL DEF Spec
=============================================================================
