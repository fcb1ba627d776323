------------------------------- MODULE NetSetup -------------------------------
(***************************************************************************)
(* The setup screen of a netplay game: NetConfirm with the fleets. Every   *)
(* change a player makes, and every packet that carries one, goes through  *)
(* the Update negotiation of melee.c for the ship slots concerned, while   *)
(* the same connection carries the Confirm negotiation.                    *)
(*                                                                         *)
(* What the two negotiations promise together is that both players enter   *)
(* the battle with the same two fleets. They keep it for a slot until a    *)
(* player edits it within an open turn.                                    *)
(***************************************************************************)
EXTENDS Integers, Sequences

CONSTANTS
  Party,                        \* as in NetConfirm
  NumSlots,                     \* MELEE_FLEET_SIZE
  Ship,                         \* MeleeShip, MELEE_NONE included
  None,                         \* MELEE_NONE
  Unset,                        \* MELEE_UNSET
  FirstShips,                   \* bound: ships a player has at the start
  MaxEdits                      \* bound: local changes of each player

ASSUME PartyAssumption ==
  \E a, b \in Party : a # b /\ Party = {a, b}
ASSUME SetupAssumption ==
  /\ NumSlots \in Nat \ {0}
  /\ Unset \notin Ship /\ None # Unset
  /\ FirstShips \in [Party -> SUBSET Ship] /\ MaxEdits \in [Party -> Nat]

VARIABLES
  connected, state, localOk, remoteOk, canceling, inputFunc, chan, badPacket,
  team,      \* team[p][s]: the fleet of side s in the setup of p
  sentTeam,  \* sentTeam[p][s]: the ships p notes as sent this turn
  edits,     \* edits[p]: number of local changes made at p
  again      \* history: the slots that a player edited within an open turn

confirmVars ==
  <<connected, state, localOk, remoteOk, canceling, inputFunc, chan, badPacket>>
teamVars == <<team, sentTeam, edits, again>>
vars == <<confirmVars, teamVars>>

-----------------------------------------------------------------------------

Slot == 1..NumSlots

Fleet == [Slot -> Ship]

(* Packet_Fleet: some slots of one team. Side s of a team is named by the  *)
(* party that plays it, which is what netSide and localSide translate.     *)
SlotsUsed == {Slot} \cup {{i} : i \in Slot}

FleetPacket ==
  UNION {[type : {"FLEET"}, side : Party, ships : [S -> Ship]] : S \in SlotsUsed}

SlotPacket(s, i, ship) ==
  [type |-> "FLEET", side |-> s, ships |-> [j \in {i} |-> ship]]

Confirmation == INSTANCE NetConfirm WITH
  UpdatePacket <- FleetPacket, MaxReply <- NumSlots, Room <- Nat

Peer(p) == Confirmation!Peer(p)

Init ==
  /\ Confirmation!Init
  /\ team \in {f \in [Party -> [Party -> Fleet]] :
               \A p, s \in Party, i \in Slot : f[p][s][i] \in FirstShips[p]}
  /\ sentTeam = [p \in Party |-> [s \in Party |-> [i \in Slot |-> Unset]]]
  /\ edits = [p \in Party |-> 0]
  /\ again = {}

-----------------------------------------------------------------------------

(* MeleeSetup_getFleetValue (pMS->meleeSetup, side) # 0                    *)
HasShips(p, s) == \E i \in Slot : team[p][s][i] # None

(* Faulty: an empty fleet may be confirmed.                                *)
ConfirmAnything(p) == Confirmation!Confirm(p) /\ UNCHANGED teamVars

(* StartMeleeButtonPressed                                                 *)
Confirm(p) ==
  /\ \A s \in Party : HasShips(p, s)
  /\ Confirmation!Confirm(p)
  /\ UNCHANGED teamVars

(* Faulty: the ships can be edited while the own confirmation stands.      *)
LocalChangeAnytime(p) ==
  /\ connected[p]
  /\ state[p] = "inSetup"
  /\ edits[p] < MaxEdits[p]
  /\ \E s \in Party, i \in Slot : \E ship \in Ship \ {team[p][s][i]} :
       /\ team' = [team EXCEPT ![p][s][i] = ship]
       /\ sentTeam[p][s][i] = Unset
       /\ Confirmation!Send(p, <<SlotPacket(s, i, ship)>>)
       /\ sentTeam' = [sentTeam EXCEPT ![p][s][i] = ship]
  /\ edits' = [edits EXCEPT ![p] = @ + 1]
  /\ UNCHANGED <<connected, state, localOk, remoteOk, canceling, inputFunc, badPacket,
                 again>>

(* Melee_LocalChange_ship, from the menus of DoMelee. A change within an   *)
(* open turn is made at once and sent when the peer's packet ends the turn *)
(* (RemoteChange).                                                         *)
LocalChange(p) ==
  /\ connected[p]
  /\ inputFunc[p] = "DoMelee"
  /\ state[p] = "inSetup"
  /\ edits[p] < MaxEdits[p]
  /\ \E s \in Party, i \in Slot : \E ship \in Ship \ {team[p][s][i]} :
       /\ team' = [team EXCEPT ![p][s][i] = ship]
       /\ IF sentTeam[p][s][i] = Unset
          THEN /\ Confirmation!Send(p, <<SlotPacket(s, i, ship)>>)
               /\ sentTeam' = [sentTeam EXCEPT ![p][s][i] = ship]
               /\ UNCHANGED again
          ELSE /\ again' = again \cup {<<s, i>>}
               /\ UNCHANGED <<chan, sentTeam>>
  /\ edits' = [edits EXCEPT ![p] = @ + 1]
  /\ UNCHANGED <<connected, state, localOk, remoteOk, canceling, inputFunc, badPacket>>

(* PacketHandler_Init up to Melee_bootstrapSyncTeam: the team of the side  *)
(* the peer plays is sent.                                                 *)
HandleInit(p) ==
  LET s == Peer(p)
  IN  /\ Confirmation!Arrives(p, {"INIT"})
      /\ state[p] = "init"
      /\ state' = [state EXCEPT ![p] = "inSetup"]
      /\ Confirmation!Answer(p,
           <<[type |-> "FLEET", side |-> s, ships |-> team[p][s]]>>)
      /\ sentTeam' = [sentTeam EXCEPT ![p][s] = team[p][s]]
      /\ UNCHANGED <<connected, localOk, remoteOk, canceling, inputFunc,
                     badPacket, team, edits, again>>

(* Faulty: no side gives in.                                               *)
RemoteChangeNoLoser(p, s, i, v) ==
  LET own == team[p][s][i]
      sent == sentTeam[p][s][i]
  IN  IF sent = Unset
      THEN [ship |-> v, sent |-> Unset, notify |-> TRUE]
      ELSE IF own # sent
      THEN [ship |-> own, sent |-> v, notify |-> TRUE]
      ELSE [ship |-> own, sent |-> Unset, notify |-> FALSE]

(* Faulty: the turn of the loser stays open.                               *)
RemoteChangeLeavesTurn(p, s, i, v) ==
  LET sent == sentTeam[p][s][i]
  IN  IF sent = Unset
      THEN [ship |-> v, sent |-> Unset, notify |-> TRUE]
      ELSE IF v # sent /\ p # s
      THEN [ship |-> v, sent |-> sent, notify |-> FALSE]
      ELSE [ship |-> team[p][s][i], sent |-> Unset, notify |-> FALSE]

(* Faulty: the loser takes the value it noted before the turn was ended.   *)
RemoteChangeTakesNote(p, s, i, v) ==
  LET sent == sentTeam[p][s][i]
  IN  IF sent = Unset
      THEN [ship |-> sent, sent |-> Unset, notify |-> TRUE]
      ELSE [ship |-> team[p][s][i], sent |-> Unset, notify |-> FALSE]

(* Melee_RemoteChange_ship for ship v in slot i of side s: the ship and    *)
(* the note of what was sent it leaves, and whether it sends the ship.     *)
RemoteChange(p, s, i, v) ==
  LET own == team[p][s][i]
      sent == sentTeam[p][s][i]
  IN  IF sent = Unset                      \* state 1
      THEN [ship |-> v, sent |-> Unset, notify |-> TRUE]
      ELSE IF v # sent /\ p # s            \* 2c-, 3d-: not our side, we lose
      THEN [ship |-> v, sent |-> Unset, notify |-> FALSE]
      ELSE IF own # sent                   \* 3c, 3d+
      THEN [ship |-> own, sent |-> v, notify |-> TRUE]
      ELSE [ship |-> own, sent |-> Unset, notify |-> FALSE]

(* The loop of PacketHandler_Fleet takes the slots in order: the sequence  *)
(* of the slots of S, lowest first, as the element of a set.               *)
InOrder(S) ==
  {walk \in UNION {[1..n -> S] : n \in 0..NumSlots} :
     /\ \A j, k \in DOMAIN walk : j < k => walk[j] < walk[k]
     /\ \A i \in S : \E k \in DOMAIN walk : walk[k] = i}

(* PacketHandler_Fleet                                                     *)
HandleFleet(p) ==
  LET packet == Confirmation!Incoming(p)
      s == packet.side
      result == [i \in DOMAIN packet.ships |->
                   RemoteChange(p, s, i, packet.ships[i])]
      notified == {i \in DOMAIN result : result[i].notify}
  IN  /\ Confirmation!Arrives(p, {"FLEET"})
      /\ state[p] = "inSetup"
      /\ team' = [team EXCEPT ![p][s] =
                    [i \in Slot |-> IF i \in DOMAIN result
                                    THEN result[i].ship ELSE @[i]]]
      /\ sentTeam' = [sentTeam EXCEPT ![p][s] =
                        [i \in Slot |-> IF i \in DOMAIN result
                                        THEN result[i].sent ELSE @[i]]]
      /\ \E walk \in InOrder(notified) :
           LET reply ==
                 [k \in DOMAIN walk |-> SlotPacket(s, walk[k], result[walk[k]].ship)]
           IN  Confirmation!Answer(p,
                 (IF localOk[p] THEN Confirmation!CancelPacket(p) ELSE <<>>) \o reply)
      /\ IF localOk[p]
         THEN /\ Confirmation!CancelFlags(p)
              /\ inputFunc' = [inputFunc EXCEPT ![p] = "DoMelee"]
         ELSE UNCHANGED <<localOk, canceling, inputFunc>>
      /\ UNCHANGED <<connected, state, remoteOk, badPacket, edits, again>>

(* The rest is the Confirm negotiation; it does not touch the fleets.      *)
Negotiate(p) ==
  /\ \/ Confirmation!Cancel(p)
     \/ Confirmation!HandleHandshake0(p)
     \/ Confirmation!HandleHandshake1(p)
     \/ Confirmation!HandleHandshakeCancel(p)
     \/ Confirmation!HandleHandshakeCancelAck(p)
     \/ Confirmation!RefusePacket(p)
     \/ Confirmation!PeerClosed(p)
     \/ Confirmation!Disconnect(p)
  /\ UNCHANGED teamVars

Next ==
  \E p \in Party :
    Confirm(p) \/ LocalChange(p) \/ HandleInit(p) \/ HandleFleet(p) \/ Negotiate(p)

Spec == Init /\ [][Next]_vars

-----------------------------------------------------------------------------

TypeOK ==
  /\ Confirmation!TypeOK
  /\ team \in [Party -> [Party -> Fleet]]
  /\ sentTeam \in [Party -> [Party -> [Slot -> Ship \cup {Unset}]]]
  /\ edits \in [Party -> Nat]
  /\ again \subseteq Party \X Slot

Started(p) == state[p] = "preBattle"

(* Both players enter the battle with the same ship in every slot that     *)
(* neither of them has edited within an open turn, however their changes,  *)
(* confirmations and late withdrawals cross. The code does not promise     *)
(* more: it accepts an edit within a turn (Melee_LocalChange_ship), and    *)
(* such an edit may leave the slot with two different ships.               *)
SameFleets ==
  (\A p \in Party : Started(p)) =>
    \A s \in Party, i \in Slot :
      <<s, i>> \notin again => \A p, q \in Party : team[p][s][i] = team[q][s][i]

(* No side has an open turn when the battle begins, so no value is left    *)
(* that the peer has not seen.                                             *)
NoOpenTurn ==
  \A p \in Party : Started(p) =>
    \A s \in Party, i \in Slot : sentTeam[p][s][i] = Unset

(* What StartMeleeButtonPressed tested still holds when the battle begins: *)
(* both fleets have a ship.                                                *)
StartWithShips == \A p, s \in Party : Started(p) => HasShips(p, s)

(* Also with settings that have contents, the only packet a handler may    *)
(* refuse is a CANCEL at a side that has gone to preBattle                 *)
(* (PacketHandler_HandshakeCancel).                                        *)
OnlyLateCancelRefused == Confirmation!OnlyLateCancelRefused

(* The fleets fit into the Confirm negotiation as NetConfirm has it.       *)
ImplementsConfirm == Confirmation!Init /\ [][Confirmation!Next]_confirmVars

(* The screen as a whole: a battle begins with turns closed and ships on   *)
(* both sides, and nothing but a late CANCEL has been refused on the way.  *)
FairStart ==
  TypeOK /\ NoOpenTurn /\ StartWithShips /\ OnlyLateCancelRefused
=============================================================================
