------------------------------ MODULE AuthData ------------------------------
(***************************************************************************)
(* AgAuthData: a copy of the authentication settings of a service, taken   *)
(* from the settings and defaults of the service and of the account.       *)
(***************************************************************************)
EXTENDS SettingsReading

CONSTANTS
  Method,     (* The key "auth/method".                                     *)
  Parameters  (* The keys under "auth/<method>/", for every method.         *)

ASSUME AuthAssumption ==
  /\ Method \in Keys
  /\ Parameters \in [Values -> SUBSET (Keys \ {Method})]

VARIABLES
  auth,       (* An AgAuthData, and the last dictionary got from it.        *)
  asked       (* History: what single lookups gave when it was made, and    *)
              (* what the client has added.                                 *)

authVars == <<auth, asked>>
allVars  == <<vars, authVars>>
-----------------------------------------------------------------------------
Empty    == [k \in {} |-> NoValue]
NoAuth   == [method |-> NoValue, parameters |-> Empty, compat |-> Empty,
             login |-> {}]
NotAsked == [parameters |-> Empty, extra |-> Empty]

Dictionary == UNION {[ks -> Values] : ks \in SUBSET Keys}

\* The dictionary f, and the entries of g for other keys.
Merge(f, g) == [k \in DOMAIN f \cup DOMAIN g |->
                  IF k \in DOMAIN f THEN f[k] ELSE g[k]]

Entry(k, v) == [x \in {k} |-> v]

TypeOK ==
  /\ ReadingTypeOK
  /\ auth \in [method : Values \cup {NoValue}, parameters : Dictionary,
               compat : Dictionary, login : SUBSET (Keys \X Values)]
  /\ asked \in [parameters : Dictionary, extra : Dictionary]

Init ==
  /\ ReadingInit
  /\ auth = NoAuth /\ asked = NotAsked
-----------------------------------------------------------------------------
\* get_value_with_fallback(), when both sections have been selected.
WithFallback(tables, s, k) ==
  IF Lookup(tables, s, k) # NoValue THEN Lookup(tables, s, k)
  ELSE Lookup(tables, Global, k)

\* The dictionary of the keys in "prefix" that are given a value.
Given(values, prefix) ==
  [k \in {k \in prefix : values[k] # NoValue} |-> values[k]]

\* Mutant: keys without a value are inserted too.
ReadAuthSettings_unset(tables, s, prefix) ==
  [k \in prefix |-> Lookup(tables, s, k)]

\* read_auth_settings(): an iteration in one go, over the settings and then
\* the defaults of s; a key that is returned again gets its later value.
ReadAuthSettings(tables, s, prefix) ==
  LET own  == KeysOf(tables[s]) \cap prefix
      rest == NotOverridden(KeysOf(Defaults(s)) \cap prefix, tables[s])
  IN  [k \in own \cup rest |-> IF k \in rest THEN Defaults(s)[k]
                               ELSE tables[s][k]]

\* Mutant: the account's own settings are read last.
AuthParameters_globalLast(tables, s, prefix) ==
  Merge(ReadAuthSettings(tables, Global, prefix),
        ReadAuthSettings(tables, s, prefix))

\* First the values from the global account, then those of the service in
\* their place.
AuthParameters(tables, s, prefix) ==
  Merge(ReadAuthSettings(tables, s, prefix),
        ReadAuthSettings(tables, Global, prefix))

\* _ag_auth_data_new(), which leaves s selected.
NewAuthData(s) ==
  /\ auth = NoAuth
  /\ ReadSections({s, Global})
  /\ selected' = s
  /\ loaded' = loaded \cup ({s, Global} \cap installed)
  /\ IF iter.section \in {s, Global} \ entries
     THEN Disturb(iter.section, cache') ELSE iter' = iter
  /\ LET method   == WithFallback(cache', s, Method)
         prefix   == IF method = NoValue THEN {} ELSE Parameters[method]
     IN  /\ auth' = [NoAuth EXCEPT
                       !.method = method,
                       !.parameters = AuthParameters(cache', s, prefix)]
         /\ asked' = [NotAsked EXCEPT
                        !.parameters =
                          Given([k \in prefix |-> WithFallback(cache', s, k)],
                                prefix)]
  /\ UNCHANGED <<rows, installed>>

\* ag_auth_data_get_login_parameters(): the client's parameters, and those of
\* the account that it has not passed.
GetLoginParameters(extra) ==
  /\ auth # NoAuth
  /\ auth' = [auth EXCEPT !.login =
       {<<k, extra[k]>> : k \in DOMAIN extra}
         \cup {<<k, auth.parameters[k]>> :
                 k \in DOMAIN auth.parameters \ DOMAIN extra}]
  /\ asked' = [asked EXCEPT !.extra = extra]
  /\ UNCHANGED vars

\* ag_auth_data_insert_parameters(), and ag_auth_data_get_parameters() in it:
\* what is inserted is seen by the deprecated functions only.
InsertParameters(extra) ==
  /\ auth # NoAuth
  /\ auth' = [auth EXCEPT !.compat =
                Merge(extra, IF @ = Empty THEN auth.parameters ELSE @)]
  /\ UNCHANGED <<vars, asked>>

\* ag_auth_data_unref().
FreeAuthData ==
  /\ auth # NoAuth
  /\ auth' = NoAuth /\ asked' = NotAsked
  /\ UNCHANGED vars

Next ==
  \/ Reading /\ UNCHANGED authVars
  \/ \E s \in Sections : NewAuthData(s)
  \/ \E k \in Keys, v \in Values :
       GetLoginParameters(Entry(k, v)) \/ InsertParameters(Entry(k, v))
  \/ FreeAuthData

Spec == Init /\ [][Next]_allVars
-----------------------------------------------------------------------------
\* Each parameter has the value that looking it up in the service, and then in
\* the account, gave when the data was made, whatever has changed since; and
\* each appears once among the login parameters, with the client's value if
\* the client passes one.
ParametersMatchLookups ==
  /\ auth.parameters = asked.parameters
  /\ auth.login # {} =>
       auth.login = {<<k, Merge(asked.extra, asked.parameters)[k]>> :
                       k \in DOMAIN asked.extra \cup DOMAIN asked.parameters}
=============================================================================
