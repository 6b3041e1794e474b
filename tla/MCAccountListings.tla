------------------------- MODULE MCAccountListings --------------------------
(* An instance of AccountListings for TLC.                                 *)
EXTENDS AccountListings

CONSTANTS a1, a2, m1, m2, s1, s2, mail, chat, google, env, user, system

TwoManagers == {m1, m2}
OneService  == {s1}
TwoTypes    == {mail, chat}
OneSystem   == <<system>>
MailAndChat == [s \in OneService |-> IF s = s1 THEN mail ELSE chat]
OneProvider == [x \in OneService \cup Accounts |-> google]
SomePlaces  == {{}, {system}}

\* m1 is a manager for mail, and m2 for all services.
MailAndAny  == [m \in TwoManagers |-> IF m = m1 THEN mail ELSE AnyType]

Stored(id) == [NewObject EXCEPT !.id = id, !.type = system, !.names = system]

\* m2 has loaded the service already, which is enabled nowhere yet.  Either
\* both accounts are in the database, or a1 is still to be created, and there
\* is no other.
MCInit ==
  /\ schema = Objects /\ version = 1
  /\ phase = [m \in Managers |-> "open"]
  /\ statement = [m \in Managers |-> 1] /\ tries = [m \in Managers |-> 0]
  /\ locks = 1
  /\ row = [s \in Services |-> [id |-> 1, from |-> system]]
  /\ lastId = 1
  /\ files = [s \in Services |-> {system}]
  /\ services = [m \in Managers |-> IF m = m1 THEN NoObjects
                   ELSE [s \in Services |-> Stored(row[s].id)]]
  /\ call = [m \in Managers |-> Idle]
  /\ inbox = [m \in Managers |-> {}]
  /\ \E status \in {"disabled", "unborn"} :
       account = [a \in Accounts |-> status]
  /\ enabledRows = {} /\ listing = [m \in Managers |-> NoListing]
  /\ during = [m \in Managers |-> NotWatched]
  /\ foreign = [m \in Managers |-> {}] /\ memory = [m \in Managers |-> {}]
  /\ news = [m \in Managers |-> <<>>]

\* Bounds: m1 lists, and m2 only stores.
Bounds ==
  /\ listing'[m2] = NoListing /\ call'[m2] = Idle /\ phase'[m2] = "open"
  /\ services'[m2] = services[m2]

\* Bounds with two accounts: a process dies between its listings.
StoredBounds ==
  /\ (account' # account \/ enabledRows' # enabledRows) => phase[m1] = "open"
  /\ phase[m1] = "creating" => openVars' # openVars
  /\ phase'[m1] # phase[m1] => listing[m1] = NoListing

\* Bounds with one account, that is created: both managers store, and m1 lists
\* what is enabled; data files stay, a manager is closed only when it does
\* nothing else, and a signal is late by one other at most.
CreatedBounds ==
  /\ account'[a2] = "unborn"
  /\ listing'[m1].op \in {"none", "enabled"}
  /\ UNCHANGED files
  /\ phase'[m1] # phase[m1] => listing[m1] = NoListing /\ call[m1] = Idle
  /\ \A m \in Managers : Len(news'[m]) <= 2

MCNext ==
  /\ Next /\ Bounds
  /\ IF account[a2] = "unborn" THEN CreatedBounds ELSE StoredBounds

MCSpec == MCInit /\ [][MCNext]_allVars
=============================================================================
