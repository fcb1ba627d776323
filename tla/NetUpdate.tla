------------------------------ MODULE NetUpdate ------------------------------
(***************************************************************************)
(* The Update negotiation of netplay: both players may change the same     *)
(* property of the setup (the ship in one slot of one team, or the name of *)
(* one team) at any moment, and the machines exchange packets in turns     *)
(* until they hold the same value.                                         *)
(*                                                                         *)
(* Code: the Melee_LocalChange_* and Melee_RemoteChange_* functions of     *)
(* melee.c. One property is modelled; the properties do not interact.      *)
(* The confirmation that an arriving change withdraws is in NetConfirm.    *)
(***************************************************************************)
EXTENDS Integers, Sequences

CONSTANTS
  Party,         \* the two machines
  Owner,         \* the party whose own side (team) the property belongs to
  Value,         \* the ships, or the team names
  Unset,         \* MELEE_UNSET, or the NULL name: no packet sent this turn
  Handlers       \* subset of {"ship", "teamName"}: the kinds of property

ASSUME PartyAssumption ==
  \E a, b \in Party : a # b /\ Party = {a, b}
ASSUME UpdateAssumption ==
  /\ Owner \in Party
  /\ Unset \notin Value
  /\ Handlers \subseteq {"ship", "teamName"}

VARIABLES
  state,     \* conn->state: "init" or "inSetup"
  own,       \* own[p]: the value in the fleet setup of p (meleeSetup->teams)
  sent,      \* sent[p]: what p notes as sent this turn (meleeSetup->sentTeams)
  chan,      \* chan[p]: packets p sent and its peer has not handled yet
  lastSent,  \* history: the value in the last packet p sent
  aborted,   \* aborted[p]: an assertion of p failed
  early,     \* history: a player edited before the peer's INIT arrived
  again,     \* history: a player edited anew before the peer had answered
  handler    \* which pair of functions treats the property; never changes

vars == <<state, own, sent, chan, lastSent, aborted, early, again, handler>>

-----------------------------------------------------------------------------

Peer(p) == CHOOSE q \in Party : q # p

Guest == Peer(Owner)

INIT == [type |-> "INIT"]

Change(v) == [type |-> "UPDATE", value |-> v]

Packet == {INIT} \cup {Change(v) : v \in Value}

TypeOK ==
  /\ state \in [Party -> {"init", "inSetup"}]
  /\ own \in [Party -> Value]
  /\ sent \in [Party -> Value \cup {Unset}]
  /\ chan \in [Party -> Seq(Packet)]
  /\ lastSent \in [Party -> Value \cup {Unset}]
  /\ aborted \in [Party -> BOOLEAN]
  /\ early \in BOOLEAN /\ again \in BOOLEAN
  /\ handler \in Handlers

(* NetMelee_connectCallback: MeleeSetup_resetSentTeams and sendInit.       *)
Init ==
  /\ state = [p \in Party |-> "init"]
  /\ own \in [Party -> Value]
  /\ sent = [p \in Party |-> Unset]
  /\ chan = [p \in Party |-> <<INIT>>]
  /\ lastSent = [p \in Party |-> Unset]
  /\ aborted = [p \in Party |-> FALSE]
  /\ early = FALSE /\ again = FALSE
  /\ handler \in Handlers

Running(p) == ~aborted[p]

(* Netplay_NotifyAll_setShip / setTeamName: the current value is sent, but *)
(* only over a connection that is inSetup. Received packets are taken from *)
(* the peer's channel by the same step.                                    *)
Notify(p, v) ==
  /\ chan' = [chan EXCEPT ![p] = IF state[p] = "inSetup"
                                 THEN Append(@, Change(v)) ELSE @]
  /\ lastSent' = [lastSent EXCEPT ![p] = IF state[p] = "inSetup" THEN v ELSE @]

(* Melee_LocalChange_ship and Melee_LocalChange_teamName                   *)
LocalChange(p) ==
  /\ Running(p)
  /\ \E v \in Value \ {own[p]} :
       /\ own' = [own EXCEPT ![p] = v]
       /\ IF sent[p] = Unset
          THEN Notify(p, v) /\ sent' = [sent EXCEPT ![p] = v]
          ELSE UNCHANGED <<chan, lastSent, sent>>
  /\ early' = (early \/ state[p] = "init")
  /\ again' = (again \/ sent[p] # Unset)
  /\ UNCHANGED <<state, aborted, handler>>

-----------------------------------------------------------------------------

Arrives(p, type) ==
  /\ Running(p)
  /\ chan[Peer(p)] # <<>>
  /\ Head(chan[Peer(p)]).type = type

Take(p) == chan' = [chan EXCEPT ![Peer(p)] = Tail(@)]

TakeAndSend(p, v) ==
  /\ chan' = [chan EXCEPT ![Peer(p)] = Tail(@), ![p] = Append(@, Change(v))]
  /\ lastSent' = [lastSent EXCEPT ![p] = v]

(* NetMelee_enterState_inSetup: Melee_bootstrapSyncTeam sends the team of  *)
(* side NetConnection_getPlayerNr(conn), the side of the peer, so the      *)
(* property is sent by the party that does not own it.                     *)
HandleInit(p) ==
  /\ Arrives(p, "INIT")
  /\ state' = [state EXCEPT ![p] = "inSetup"]
  /\ IF p = Owner
     THEN Take(p) /\ UNCHANGED <<sent, lastSent, aborted>>
     ELSE /\ TakeAndSend(p, own[p])
          /\ sent' = [sent EXCEPT ![p] = own[p]]
          /\ aborted' = [aborted EXCEPT
               ![p] = handler = "ship" /\ sent[p] # Unset]
  /\ UNCHANGED <<own, early, again, handler>>

(* Faulty: each side takes itself for the winner.                          *)
BothWin(p) == TRUE

(* The tie breaker: NetConnection_getPlayerNr (conn) != side.              *)
Wins(p) == p = Owner

(* Faulty: the value is not sent back.                                     *)
AdoptSilently(p, v) ==
  /\ sent[p] = Unset
  /\ own' = [own EXCEPT ![p] = v]
  /\ Take(p)
  /\ UNCHANGED <<sent, lastSent>>

(* Faulty: the note of what was sent is sent back, not the value.          *)
AdoptAndSendNote(p, v) ==
  /\ sent[p] = Unset
  /\ own' = [own EXCEPT ![p] = v]
  /\ TakeAndSend(p, sent[p])
  /\ UNCHANGED sent

(* State 1: adopt the value and send it back; the turn is over.            *)
AdoptAndConfirm(p, v) ==
  /\ sent[p] = Unset
  /\ own' = [own EXCEPT ![p] = v]
  /\ TakeAndSend(p, v)
  /\ UNCHANGED sent

(* Faulty: the received value is noted, as KeepAndEndTurn does.            *)
AdoptAndNote(p, v) ==
  /\ own' = [own EXCEPT ![p] = v]
  /\ sent' = [sent EXCEPT ![p] = v]
  /\ Take(p)
  /\ UNCHANGED lastSent

(* Rules 2c- and 3d-.                                                      *)
AdoptAndEndTurn(p, v) ==
  /\ own' = [own EXCEPT ![p] = v]
  /\ sent' = [sent EXCEPT ![p] = Unset]
  /\ Take(p)
  /\ UNCHANGED lastSent

(* Faulty: a confirmation is confirmed.                                    *)
KeepAndEcho(p, v) ==
  /\ TakeAndSend(p, own[p])
  /\ sent' = [sent EXCEPT ![p] = Unset]
  /\ UNCHANGED own

(* Rules 2b, 2c+, 3c and 3d+: the value which was sent is confirmed. An    *)
(* unreported local change is sent, and the received value v noted as sent.*)
KeepAndEndTurn(p, v) ==
  /\ IF own[p] # sent[p]
     THEN TakeAndSend(p, own[p]) /\ sent' = [sent EXCEPT ![p] = v]
     ELSE /\ Take(p) /\ sent' = [sent EXCEPT ![p] = Unset]
          /\ UNCHANGED lastSent
  /\ UNCHANGED own

(* Melee_RemoteChange_ship                                                 *)
RemoteChangeShip(p, v) ==
  \/ AdoptAndConfirm(p, v)
  \/ sent[p] # Unset /\ v # sent[p] /\ ~Wins(p) /\ AdoptAndEndTurn(p, v)
  \/ sent[p] # Unset /\ (v = sent[p] \/ Wins(p)) /\ KeepAndEndTurn(p, v)

(* Melee_RemoteChange_teamName: the tie breaker is applied when the values *)
(* are the same (strcmp (newName, sentName) == 0).                         *)
RemoteChangeTeamName(p, v) ==
  \/ AdoptAndConfirm(p, v)
  \/ sent[p] # Unset /\ v = sent[p] /\ ~Wins(p) /\ AdoptAndEndTurn(p, v)
  \/ sent[p] # Unset /\ (v # sent[p] \/ Wins(p)) /\ KeepAndEndTurn(p, v)

(* PacketHandler_Fleet and PacketHandler_TeamName                          *)
HandleUpdate(p) ==
  /\ Arrives(p, "UPDATE")
  /\ state[p] = "inSetup"
  /\ LET v == Head(chan[Peer(p)]).value
     IN  IF handler = "ship" THEN RemoteChangeShip(p, v)
                             ELSE RemoteChangeTeamName(p, v)
  /\ UNCHANGED <<state, aborted, early, again, handler>>

Receive(p) == HandleInit(p) \/ HandleUpdate(p)

Edit == \E p \in Party : LocalChange(p)

Next == Edit \/ \E p \in Party : Receive(p)

Fairness == \A p \in Party : WF_vars(Receive(p))

Spec == Init /\ [][Next]_vars /\ Fairness

-----------------------------------------------------------------------------

InSetup == \A p \in Party : state[p] = "inSetup"

Quiet == \A p \in Party : chan[p] = <<>>

(* When no packet is on its way both machines hold the same value and no   *)
(* turn is open, whatever the players changed at the same time.            *)
QuietAgreement ==
  InSetup /\ Quiet => own[Owner] = own[Guest]

(* Melee_RemoteChange_ship does reach agreement, even when both players    *)
(* change the slot at once, as long as none edits within an open turn.     *)
ShipsAgree == handler = "ship" /\ ~again /\ ~early => QuietAgreement

(* Each side sends and receives one packet per turn: as many packets are   *)
(* on their way as there are sides that wait for the packet which ends     *)
(* their turn, so the turns of the two sides never get out of step.        *)
TurnAccounting ==
  InSetup /\ ~early =>
    Len(chan[Owner]) + Len(chan[Guest]) =
      (IF sent[Owner] # Unset THEN 1 ELSE 0) + (IF sent[Guest] # Unset THEN 1 ELSE 0)

(* "The last value which it sent to the other side (until it is no longer  *)
(* relevant for the protocol)": what sentTeams notes of a turn is what was *)
(* sent, unless the player edited within a turn.                           *)
SentIsWhatWasSent ==
  ~again /\ ~early =>
    \A p \in Party : sent[p] # Unset => sent[p] = lastSent[p]

(* The assertion in Melee_bootstrapSyncTeam.                               *)
NothingSentBeforeBootstrap == \A p \in Party : Running(p)

(* The packets stop when the players stop making changes (or a machine has *)
(* stopped at the assertion).                                              *)
UpdatesSettle ==
  []<>(Quiet \/ ~NothingSentBeforeBootstrap) \/ []<><<Edit>>_vars

(* What holds of the turns in every state: the values sent and the packets *)
(* on their way belong together.                                           *)
TurnsInStep == TypeOK /\ TurnAccounting /\ SentIsWhatWasSent
=============================================================================
