--------------------------- MODULE MCAccountTool ---------------------------
(* An instance of AccountTool for TLC.                                     *)
EXTENDS AccountTool

CONSTANTS t1, t2, c1, c2, s1

\* t1 writes the database; t2 and c1 store through D-Bus; c2 has no D-Bus.
ToolsAndClients == {t1, t2, c1, c2}

\* Bounds: some commands of the first tool run, and some errors happen, only
\* before the second tool and before any remote store; the second tool only
\* deletes accounts, once and without c1; c1 makes one remote store; c2 only
\* tries to create an account, while nothing else happens.
Anytime == {"create_account", "delete_all", "update_service"}

Alone == messages' = <<>> /\ tool'[t2] = NoTool

Bounds ==
  /\ \/ Alone
     \/ /\ tool'[t1].command \in Anytime
        /\ tool'[t1].shown \cap {"INVALID_INPUT", "INVALID_SERVICE_NAME"} = {}
        /\ At(t1, "open") => tool'[t1].shown = {}
     \/ tool'[t1] = NoTool
  /\ tool'[t2].command \in {"none", "delete_all"}
  /\ tool'[t2] = NoTool => tool[t2] = NoTool
  /\ At(t2, "done") /\ tool[t2] # NoTool => tool'[t2] = tool[t2]
  /\ object'[c1].held => tool'[t2] = NoTool /\ Len(messages') <= 1
  /\ object'[c1].changes.sections \subseteq {s1}
  /\ object'[c2].id = 0 /\ object'[c2].changes \in {NoChanges, Created}
  /\ object'[c2].held =>
       tool = [p \in Tools |-> NoTool] /\ ~object'[c1].held

MCSpec == Init /\ [][Next /\ Bounds]_vars
=============================================================================
