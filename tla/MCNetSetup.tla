----------------------------- MODULE MCNetSetup -----------------------------
(* Model-checking instances of NetSetup.                                   *)
EXTENDS NetSetup, TLC

CONSTANTS A, B, s1

(* The setups differ in a slot, or they do not, when the players connect.  *)
OneOrNone == A :> {s1} @@ B :> {None, s1}

(* One player makes two changes, so that one of them begins a second turn, *)
(* falls into the open one or withdraws a confirmation, and the other      *)
(* makes one.                                                              *)
TwoEditsAndOne == A :> 2 @@ B :> 1

(* The fleets are the same whatever the players edit: false of the code,   *)
(* already with three changes on one machine, ThreeEditsOfOne, and         *)
(* withdrawals that make turns overlap.                                    *)
AlwaysSameFleets ==
  (\A p \in Party : Started(p)) => \A p, q \in Party : team[p] = team[q]

ThreeEditsOfOne == A :> 3 @@ B :> 0
=============================================================================
