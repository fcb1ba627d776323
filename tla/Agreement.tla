------------------------------ MODULE Agreement ------------------------------
(***************************************************************************)
(* What the Confirm negotiation promises (doc/devel/netplay/protocol,      *)
(* section "Confirm" negotiation), as far as the code keeps it: a player   *)
(* may withdraw a confirmation at any time and must wait until that is     *)
(* acknowledged; a player starts only on a confirmation that stands, when  *)
(* the peer stands confirmed too or has withdrawn without having been      *)
(* acknowledged; and one who withdraws too late, after the peer has        *)
(* started, is out: that player never starts, and can only be lost.        *)
(***************************************************************************)
EXTENDS Naturals

CONSTANT Party

VARIABLE phase

Peer(p) == CHOOSE q \in Party : q # p

Phase == {"editing", "confirmed", "withdrawn", "started", "out", "lost"}

Init == phase = [p \in Party |-> "editing"]

Confirm(p) ==
  /\ phase[p] = "editing"
  /\ phase' = [phase EXCEPT ![p] = "confirmed"]

(* Too late when the peer has started, which one that is lost may have.    *)
Withdraw(p) ==
  /\ phase[p] = "confirmed"
  /\ \/ /\ phase[Peer(p)] # "started"
        /\ phase' = [phase EXCEPT ![p] = "withdrawn"]
     \/ /\ phase[Peer(p)] \in {"started", "lost"}
        /\ phase' = [phase EXCEPT ![p] = "out"]

(* The withdrawal is acknowledged; meanwhile p may have confirmed anew.    *)
Acknowledge(p) ==
  /\ phase[p] = "withdrawn"
  /\ \E next \in {"editing", "confirmed"} : phase' = [phase EXCEPT ![p] = next]

Start(p) ==
  /\ phase[p] = "confirmed"
  /\ \/ /\ phase[Peer(p)] \in {"confirmed", "started", "lost"}
        /\ phase' = [phase EXCEPT ![p] = "started"]
     \/ /\ phase[Peer(p)] = "withdrawn"
        /\ phase' = [phase EXCEPT ![p] = "started", ![Peer(p)] = "out"]

Lose(p) ==
  /\ phase[p] # "lost"
  /\ phase' = [phase EXCEPT ![p] = "lost"]

Next ==
  \E p \in Party :
    Confirm(p) \/ Withdraw(p) \/ Acknowledge(p) \/ Start(p) \/ Lose(p)

Spec == Init /\ [][Next]_phase
=============================================================================
