--------------------------- MODULE MCAccountStore ---------------------------
(* Instances of AccountStore for TLC.                                      *)
EXTENDS AccountStore, TLC

CONSTANTS a1, a2, c1, c2, c3, k1

OneAccount   == {a1}
TwoAccounts  == {a1, a2}
NoneStored   == {}
SecondStored == {a2}
OneKey       == {k1}
TwoCalls     == {c1, c2}
ThreeCalls   == {c1, c2, c3}
AllOnOne     == [c \in ThreeCalls |-> a1]
LastOnOther  == [c \in ThreeCalls |-> IF c = c3 THEN a2 ELSE a1]

CallSymmetry == Permutations(ThreeCalls)

\* What the client and the environment do in each run.
CoreUse      == {"blocking", "delete", "cancel", "exec_fails",
                 "commit_fails", "others_delete"}
LiveUse      == {"blocking", "cancel", "commit_fails"}
ReuseUse     == {"reuse"}
DeleteNewUse == {"delete_new"}
=============================================================================
