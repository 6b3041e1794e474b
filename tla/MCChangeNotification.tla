------------------------ MODULE MCChangeNotification ------------------------
(* Instances of ChangeNotification for TLC.                                *)
EXTENDS ChangeNotification, TLC

CONSTANTS m1, m2, mail, global, name, user

TwoManagers == {m1, m2}
TwoTypes    == {global, mail}
TwoKeys     == {name, user}
KeyTypes    == [k \in TwoKeys |-> IF k = name THEN global ELSE mail]

\* Both listen to all that the account has: m1 as a manager without a service
\* type, m2 as one made for the type mail.
ListenToAll == [m \in TwoManagers |-> TwoTypes]

ManagerSymmetry == Permutations(TwoManagers)

SplitOnly == {"split"}
GapOnly   == {"gap"}
=============================================================================
