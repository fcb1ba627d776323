---------------------------- MODULE MCNetConfirm ----------------------------
(* Model-checking instance of NetConfirm: both kinds of settings packets.  *)
EXTENDS NetConfirmInv

MCUpdatePacket == {[type |-> "FLEET"], [type |-> "TEAMNAME"]}
=============================================================================
