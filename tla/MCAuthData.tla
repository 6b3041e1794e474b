----------------------------- MODULE MCAuthData -----------------------------
(* An instance of AuthData for TLC.                                        *)
EXTENDS AuthData

CONSTANTS mail, global, authMethod, user, host, password, oauth

OneService == {mail}
ThreeKeys  == {authMethod, user, host}
TwoValues  == {password, oauth}

\* The provider has defaults for all, the service for one parameter.
Defaulted  == [s \in {mail, global} |-> [k \in ThreeKeys |->
                 CASE s = global -> IF k = authMethod THEN password ELSE oauth
                   [] s = mail /\ k = user -> password
                   [] OTHER -> NoValue]]
UserOnly   == [v \in TwoValues |-> IF v = password THEN {user, host} ELSE {user}]
SomePrefix == {ThreeKeys, {user, host}}

\* Nothing is set at first.
MCInit == locks = 1 /\ rows = [s \in Sections |-> Nothing] /\ Init

\* Bounds: an iterator and an AgAuthData do not exist at the same time; a loop
\* that has been disturbed is left; host is only ever a default, and of the
\* others the user of the service has the most values; the data file of the
\* provider stays.
Bounds ==
  /\ auth' = NoAuth \/ iter' = NoIterator
  /\ iter.disturbed => iter' = NoIterator
  /\ \A s \in Sections : /\ rows'[s][host] = NoValue
                         /\ rows'[s][authMethod] # password
  /\ rows'[global][user] # oauth
  /\ global \in installed'

MCSpec == MCInit /\ [][Next /\ Bounds]_allVars
=============================================================================
