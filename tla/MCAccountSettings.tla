------------------------- MODULE MCAccountSettings --------------------------
(* Instances of AccountSettings for TLC.                                   *)
EXTENDS AccountSettings

CONSTANTS mail, global

OneService == {mail}
PlainUse   == {}
=============================================================================
