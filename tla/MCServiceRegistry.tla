------------------------- MODULE MCServiceRegistry --------------------------
(* An instance of ServiceRegistry for TLC.                                 *)
EXTENDS ServiceRegistry

CONSTANTS m1, m2, s1, s2, env, user, system

\* m1 has AG_SERVICES set, m2 aborts on timeouts.
TwoManagers == {m1, m2}
TwoServices == {s1, s2}
OneSystem   == <<system>>
ManyPlaces  == {{}, {system}, {env, system}}

\* The database is new, and s1 is not installed yet; or it is an old one.
MCInit ==
  /\ version \in {0, 1}
  /\ locks = IF version = 0 THEN 2 ELSE 1
  /\ files \in [Services -> Installed]
  /\ files[s2] = {system}
  /\ version = 0 => files[s1] = {}
  /\ OpenInit
  /\ RegistryInit

\* Bounds: a new database may be found locked twice until a manager is open,
\* and once after; while a manager runs the script of create_db() the others
\* open and close and do nothing else; only s1 is installed and removed; one
\* message at a time is on its way.
Bounds ==
  /\ (\E m \in Managers : phase'[m] = "open") => locks' <= 1
  /\ (\E m \in Managers : phase[m] = "creating") => openVars' # openVars
  /\ files'[s2] = files[s2]
  /\ Cardinality(UNION {inbox'[m] : m \in Managers}) <= 1

MCSpec == MCInit /\ [][RegistryNext /\ Bounds]_<<openVars, locks, registryVars>>
=============================================================================
