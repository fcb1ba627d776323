----------------------------- MODULE NetConfirm -----------------------------
(***************************************************************************)
(* The Confirm negotiation of netplay: the two players of a SuperMelee     *)
(* each press "Start", may withdraw, and may still change the settings,    *)
(* until both sides agree to leave the setup screen (inSetup) for the      *)
(* battle preparation (preBattle).                                         *)
(*                                                                         *)
(* Code: netplay/proto/npconfirm.c, the PacketHandler_Handshake* handlers  *)
(* of netplay/packethandlers.c, and the menu of melee.c that drives them.  *)
(*                                                                         *)
(* The packets that carry settings (PACKET_FLEET and PACKET_TEAMNAME) are  *)
(* the elements of a constant here, their contents unused: NetSetup gives  *)
(* them contents and is shown to implement this module.                    *)
(***************************************************************************)
EXTENDS Naturals, Sequences

CONSTANTS
  Party,         \* the two machines
  UpdatePacket,  \* the packets that carry settings
  MaxReply,      \* most settings packets one handler call sends in answer
  Room           \* bound: the lengths a channel may have when settings
                 \* are added to it

ASSUME PartyAssumption ==
  \E a, b \in Party : a # b /\ Party = {a, b}
ASSUME BoundAssumption ==
  MaxReply \in Nat /\ Room \subseteq Nat
ASSUME UpdateAssumption ==
  \A u \in UpdatePacket : u.type \in {"FLEET", "TEAMNAME"}

VARIABLES
  connected,  \* conn->stateFlags.connected
  state,      \* conn->state, its last value once the connection is closed
  localOk,    \* conn->stateFlags.handshake.localOk
  remoteOk,   \* conn->stateFlags.handshake.remoteOk
  canceling,  \* conn->stateFlags.handshake.canceling
  inputFunc,  \* pMS->InputFunc: which menu handler runs
  chan,       \* chan[p]: packets p sent and its peer has not handled yet
  badPacket   \* badPacket[p]: the packet p refused with EBADMSG, if any

vars == <<connected, state, localOk, remoteOk, canceling, inputFunc, chan, badPacket>>

-----------------------------------------------------------------------------

Peer(p) == CHOOSE q \in Party : q # p

NetState == {"init", "inSetup", "preBattle"}

ControlType ==
  {"INIT", "HANDSHAKE0", "HANDSHAKE1", "HANDSHAKECANCEL", "HANDSHAKECANCELACK"}

Packet == [type : ControlType] \cup UpdatePacket

(* A packet without contents, as a sequence of one.                        *)
Just(t) == <<[type |-> t]>>

(* handshakeMeaningful                                                     *)
HandshakeMeaningful(p) == state[p] = "inSetup"

TypeOK ==
  /\ connected \in [Party -> BOOLEAN]
  /\ state \in [Party -> NetState]
  /\ localOk \in [Party -> BOOLEAN]
  /\ remoteOk \in [Party -> BOOLEAN]
  /\ canceling \in [Party -> BOOLEAN]
  /\ inputFunc \in [Party -> {"DoMelee", "DoConfirmSettings"}]
  /\ chan \in [Party -> Seq(Packet)]
  /\ badPacket \in [Party -> ControlType \cup {"FLEET", "TEAMNAME", "none"}]

(* NetMelee_connectCallback: sendInit, then Netplay_localReady without a   *)
(* notification; NetConnection_open has cleared the handshake flags.       *)
Init ==
  /\ connected = [p \in Party |-> TRUE]
  /\ state = [p \in Party |-> "init"]
  /\ localOk = [p \in Party |-> FALSE]
  /\ remoteOk = [p \in Party |-> FALSE]
  /\ canceling = [p \in Party |-> FALSE]
  /\ inputFunc = [p \in Party |-> "DoMelee"]
  /\ chan = [p \in Party |-> Just("INIT")]
  /\ badPacket = [p \in Party |-> "none"]

-----------------------------------------------------------------------------
(* The player.                                                             *)

(* What a handler may send in answer to settings.                          *)
Replies == UNION {[1..n -> UpdatePacket] : n \in 0..MaxReply}

Send(p, packets) == chan' = [chan EXCEPT ![p] = @ \o packets]

(* Faulty: the CANCEL that is still to be acknowledged is forgotten.       *)
ConfirmForgetsCancel(p) ==
  IF remoteOk[p] THEN Just("HANDSHAKE1") ELSE Just("HANDSHAKE0")

(* The packet Netplay_confirm sends: none before the last CANCEL is        *)
(* acknowledged.                                                           *)
ConfirmPacket(p) ==
  IF canceling[p] THEN <<>>
  ELSE IF remoteOk[p] THEN Just("HANDSHAKE1") ELSE Just("HANDSHAKE0")

(* StartMeleeButtonPressed, confirmConnections, Netplay_confirm            *)
Confirm(p) ==
  /\ connected[p]
  /\ inputFunc[p] = "DoMelee"
  /\ HandshakeMeaningful(p)
  /\ ~localOk[p]
  /\ localOk' = [localOk EXCEPT ![p] = TRUE]
  /\ inputFunc' = [inputFunc EXCEPT ![p] = "DoConfirmSettings"]
  /\ Send(p, ConfirmPacket(p))
  /\ UNCHANGED <<connected, state, remoteOk, canceling, badPacket>>

(* Faulty: the peer is not told.                                           *)
CancelSilently(p) == <<>>

(* Netplay_cancelConfirmation when localOk holds: the packet to send, if   *)
(* any, and the flags it leaves.                                           *)
CancelPacket(p) == IF canceling[p] THEN <<>> ELSE Just("HANDSHAKECANCEL")

CancelFlags(p) ==
  /\ localOk' = [localOk EXCEPT ![p] = FALSE]
  /\ canceling' = [canceling EXCEPT ![p] = TRUE]

(* The first two branches of DoConfirmSettings: Cancel or a cursor key,    *)
(* also when both sides have confirmed.                                    *)
Cancel(p) ==
  /\ connected[p]
  /\ inputFunc[p] = "DoConfirmSettings"
  /\ HandshakeMeaningful(p)
  /\ localOk[p]
  /\ inputFunc' = [inputFunc EXCEPT ![p] = "DoMelee"]
  /\ CancelFlags(p)
  /\ Send(p, CancelPacket(p))
  /\ UNCHANGED <<connected, state, remoteOk, badPacket>>

(* Faulty: settings can be edited while the own confirmation stands.       *)
LocalChangeAnytime(p) ==
  /\ connected[p]
  /\ state[p] = "inSetup"
  /\ Len(chan[p]) \in Room
  /\ \E u \in UpdatePacket : Send(p, <<u>>)
  /\ UNCHANGED <<connected, state, localOk, remoteOk, canceling, inputFunc, badPacket>>

(* Melee_LocalChange_*: the change is sent unless this turn's packet has   *)
(* been sent already (then nothing this module sees happens).              *)
LocalChange(p) ==
  /\ connected[p]
  /\ inputFunc[p] = "DoMelee"
  /\ state[p] = "inSetup"
  /\ Len(chan[p]) \in Room
  /\ \E u \in UpdatePacket : Send(p, <<u>>)
  /\ UNCHANGED <<connected, state, localOk, remoteOk, canceling, inputFunc, badPacket>>

-----------------------------------------------------------------------------
(* The packet handlers. Each takes the oldest packet of the peer.          *)

Incoming(p) == Head(chan[Peer(p)])

Arrives(p, types) ==
  /\ connected[p]
  /\ chan[Peer(p)] # <<>>
  /\ Incoming(p).type \in types

(* Take the packet from the peer's channel and send an answer.             *)
Answer(p, packets) ==
  chan' = [chan EXCEPT ![p] = @ \o packets, ![Peer(p)] = Tail(@)]

(* PacketHandler_Init, Netplay_remoteReady, NetMelee_enterState_inSetup:   *)
(* the team is sent as soon as both sides are ready.                       *)
HandleInit(p) ==
  /\ Arrives(p, {"INIT"})
  /\ state[p] = "init"
  /\ state' = [state EXCEPT ![p] = "inSetup"]
  /\ \E teams \in Replies : Answer(p, teams)
  /\ UNCHANGED <<connected, localOk, remoteOk, canceling, inputFunc, badPacket>>

(* PacketHandler_Fleet and PacketHandler_TeamName. A standing local        *)
(* confirmation is withdrawn first; then each changed value is answered    *)
(* or not, as the Update negotiation says.                                 *)
HandleUpdate(p) ==
  /\ Arrives(p, {"FLEET", "TEAMNAME"})
  /\ state[p] = "inSetup"
  /\ \E reply \in Replies :
       /\ reply = <<>> \/ Len(chan[p]) + Len(reply) \in Room
       /\ Answer(p, (IF localOk[p] THEN CancelPacket(p) ELSE <<>>) \o reply)
  /\ IF localOk[p]
     THEN CancelFlags(p) /\ inputFunc' = [inputFunc EXCEPT ![p] = "DoMelee"]
     ELSE UNCHANGED <<localOk, canceling, inputFunc>>
  /\ UNCHANGED <<connected, state, remoteOk, badPacket>>

(* PacketHandler_Handshake0: the HANDSHAKE1 with which a side that has     *)
(* confirmed answers the peer's confirmation.                              *)
Handshake0Answer(p) ==
  IF localOk[p] /\ ~canceling[p] THEN Just("HANDSHAKE1") ELSE <<>>

HandleHandshake0(p) ==
  /\ Arrives(p, {"HANDSHAKE0"})
  /\ HandshakeMeaningful(p) /\ ~remoteOk[p]
  /\ remoteOk' = [remoteOk EXCEPT ![p] = TRUE]
  /\ Answer(p, Handshake0Answer(p))
  /\ UNCHANGED <<connected, state, localOk, canceling, inputFunc, badPacket>>

(* Faulty: the HANDSHAKE1 is sent when the peer has it already.            *)
Handshake1AnswerSwapped(p) ==
  IF remoteOk[p] THEN Just("HANDSHAKE1") ELSE <<>>

(* The peer's HANDSHAKE1 is answered unless one was sent before.           *)
Handshake1Answer(p) ==
  IF remoteOk[p] THEN <<>> ELSE Just("HANDSHAKE1")

(* Faulty: a withdrawn confirmation is taken to stand.                     *)
Handshake1IgnoresCancel(p) ==
  /\ Arrives(p, {"HANDSHAKE1"})
  /\ HandshakeMeaningful(p) /\ (localOk[p] \/ canceling[p])
  /\ localOk' = [localOk EXCEPT ![p] = FALSE]
  /\ remoteOk' = [remoteOk EXCEPT ![p] = FALSE]
  /\ Answer(p, Handshake1Answer(p))
  /\ state' = [state EXCEPT ![p] = "preBattle"]
  /\ UNCHANGED <<connected, canceling, inputFunc, badPacket>>

(* PacketHandler_Handshake1 and handshakeComplete                          *)
HandleHandshake1(p) ==
  /\ Arrives(p, {"HANDSHAKE1"})
  /\ HandshakeMeaningful(p) /\ (localOk[p] \/ canceling[p])
  /\ IF canceling[p]
     THEN /\ remoteOk' = [remoteOk EXCEPT ![p] = TRUE]
          /\ Answer(p, <<>>)
          /\ UNCHANGED <<state, localOk>>
     ELSE /\ localOk' = [localOk EXCEPT ![p] = FALSE]
          /\ remoteOk' = [remoteOk EXCEPT ![p] = FALSE]
          /\ Answer(p, Handshake1Answer(p))
          /\ state' = [state EXCEPT ![p] = "preBattle"]
  /\ UNCHANGED <<connected, canceling, inputFunc, badPacket>>

HandleHandshakeCancel(p) ==
  /\ Arrives(p, {"HANDSHAKECANCEL"})
  /\ HandshakeMeaningful(p) /\ remoteOk[p]
  /\ remoteOk' = [remoteOk EXCEPT ![p] = FALSE]
  /\ Answer(p, Just("HANDSHAKECANCELACK"))
  /\ UNCHANGED <<connected, state, localOk, canceling, inputFunc, badPacket>>

(* Faulty: the confirmation given meanwhile is not sent.                   *)
CancelAckNoAnswer(p) == <<>>

(* PacketHandler_HandshakeCancelAck: a confirmation given anew while the   *)
(* acknowledgement was on its way is sent now.                             *)
CancelAckAnswer(p) ==
  IF ~localOk[p] THEN <<>>
  ELSE IF remoteOk[p] THEN Just("HANDSHAKE1") ELSE Just("HANDSHAKE0")

HandleHandshakeCancelAck(p) ==
  /\ Arrives(p, {"HANDSHAKECANCELACK"})
  /\ HandshakeMeaningful(p) /\ canceling[p]
  /\ canceling' = [canceling EXCEPT ![p] = FALSE]
  /\ Answer(p, CancelAckAnswer(p))
  /\ UNCHANGED <<connected, state, localOk, remoteOk, inputFunc, badPacket>>

(* The conditions testNetState checks for the packet in hand.              *)
Acceptable(p, type) ==
  CASE type = "INIT" -> state[p] = "init"
    [] type \in {"FLEET", "TEAMNAME"} -> state[p] = "inSetup"
    [] type = "HANDSHAKE0" -> HandshakeMeaningful(p) /\ ~remoteOk[p]
    [] type = "HANDSHAKE1" ->
         HandshakeMeaningful(p) /\ (localOk[p] \/ canceling[p])
    [] type = "HANDSHAKECANCEL" -> HandshakeMeaningful(p) /\ remoteOk[p]
    [] type = "HANDSHAKECANCELACK" -> HandshakeMeaningful(p) /\ canceling[p]

(* NetConnection_doClose; DoConfirmSettings then leaves its menu, as        *)
(* numPlayersReady no longer counts the peer. state keeps its last value:  *)
(* nothing reads the state of a connection that is not connected.          *)
Close(p) ==
  /\ connected' = [connected EXCEPT ![p] = FALSE]
  /\ inputFunc' = [inputFunc EXCEPT ![p] = "DoMelee"]
  /\ UNCHANGED <<state, localOk, remoteOk, canceling>>

(* testNetState fails: the handler returns -1 and dataReadyCallback closes *)
(* the connection.                                                         *)
Refusable(p) ==
  connected[p] /\ chan[Peer(p)] # <<>> /\ ~Acceptable(p, Incoming(p).type)

RefusePacket(p) ==
  /\ Refusable(p)
  /\ badPacket' = [badPacket EXCEPT ![p] = Incoming(p).type]
  /\ Answer(p, <<>>)
  /\ Close(p)

Handle(p) ==
  \/ HandleInit(p)
  \/ HandleUpdate(p)
  \/ HandleHandshake0(p)
  \/ HandleHandshake1(p)
  \/ HandleHandshakeCancel(p)
  \/ HandleHandshakeCancelAck(p)

Receive(p) == IF Refusable(p) THEN RefusePacket(p) ELSE Handle(p)

(* recv() reports the end of the stream.                                   *)
PeerClosed(p) ==
  /\ connected[p]
  /\ ~connected[Peer(p)]
  /\ Close(p)
  /\ UNCHANGED <<chan, badPacket>>

(* A network error, or the player closes the connection.                   *)
Disconnect(p) ==
  /\ connected[p]
  /\ Close(p)
  /\ UNCHANGED <<chan, badPacket>>

Next ==
  \E p \in Party :
    \/ Confirm(p)
    \/ Cancel(p)
    \/ LocalChange(p)
    \/ Receive(p)
    \/ PeerClosed(p)
    \/ Disconnect(p)

Fairness == \A p \in Party : WF_vars(Receive(p)) /\ WF_vars(PeerClosed(p))

Spec == Init /\ [][Next]_vars /\ Fairness

-----------------------------------------------------------------------------

(* No packet of the negotiation has been refused. The code does not keep   *)
(* this: a Cancel that comes too late is (OnlyLateCancelRefused). It is    *)
(* the part of NetConfirmInv that holds until then.                        *)
NoPacketRefused == \A p \in Party : badPacket[p] = "none"

(* However the two players confirm, withdraw and edit, a late Cancel is    *)
(* the only packet of the negotiation that a handler can refuse, and the   *)
(* side that refuses it is one that has gone to preBattle                  *)
(* (PacketHandler_HandshakeCancel).                                        *)
OnlyLateCancelRefused ==
  \A p \in Party : badPacket[p] # "none" =>
    badPacket[p] = "HANDSHAKECANCEL" /\ state[p] = "preBattle"

(* The player waits in DoConfirmSettings exactly while the own             *)
(* confirmation stands: confirmationCancelled and the cancel keys leave    *)
(* that menu whenever they withdraw it.                                    *)
WaitingIffConfirmed ==
  \A p \in Party : connected[p] /\ state[p] = "inSetup" =>
    (localOk[p] <=> inputFunc[p] = "DoConfirmSettings")

HasPacket(p, types) == \E i \in DOMAIN chan[p] : chan[p][i].type \in types

(* p, which has started, finds a CANCEL before anything else its peer has  *)
(* sent, unless p is closed.                                               *)
MeetsCancel(p) ==
  connected[p] =>
    chan[Peer(p)] # <<>> /\ Incoming(p).type = "HANDSHAKECANCEL"

(* Once one side has gone to preBattle, the other has started too, or      *)
(* stands confirmed with the HANDSHAKE1 it needs on its way, so that it    *)
(* follows; or it has withdrawn too late: then no acknowledgement comes    *)
(* that would let it confirm and start, and the side that has started      *)
(* closes the connection on the CANCEL, the next packet it takes           *)
(* (handshakeComplete, Netplay_cancelConfirmation).                        *)
StartIsCertain ==
  \A p \in Party : state[p] = "preBattle" =>
    \/ state[Peer(p)] = "preBattle"
    \/ /\ localOk[Peer(p)] /\ ~canceling[Peer(p)]
       /\ HasPacket(p, {"HANDSHAKE1"})
    \/ /\ state[Peer(p)] = "inSetup" /\ canceling[Peer(p)]
       /\ ~HasPacket(p, {"HANDSHAKECANCELACK"})
       /\ MeetsCancel(p)

(* A side that has gone to preBattle has left no settings on their way,    *)
(* and those that are on their way to it come from a peer that has         *)
(* withdrawn too late: it takes none of them, as a CANCEL comes first.     *)
NoUpdateInFlight ==
  \A p \in Party : state[p] = "preBattle" =>
    /\ ~HasPacket(p, {"FLEET", "TEAMNAME"})
    /\ HasPacket(Peer(p), {"FLEET", "TEAMNAME"}) =>
         canceling[Peer(p)] /\ MeetsCancel(p)

(* As long as both sides stand confirmed they get to preBattle.            *)
BothConfirmedEnds ==
  (\A p \in Party : localOk[p]) ~>
     \/ \A p \in Party : state[p] = "preBattle"
     \/ \E p \in Party : ~connected[p] \/ (state[p] = "inSetup" /\ ~localOk[p])

(* Every CANCEL is acknowledged, so a withdrawn confirmation can be given  *)
(* anew, or the connection is closed on it.                                *)
CancelAcknowledged ==
  \A p \in Party : canceling[p] ~> (~canceling[p] \/ ~connected[p])

(* One side starts only when the other must, with the same settings, or    *)
(* has withdrawn too late and is not waited for (doc/devel/netplay/        *)
(* protocol, "Confirm" negotiation).                                       *)
CertainStart == StartIsCertain /\ NoUpdateInFlight

(* A confirmation leads to the start or ends, and so does its withdrawal   *)
(* (handleHandshakeCancelAck lets a player confirm again), late ones       *)
(* included.                                                               *)
ConfirmationsEnd == BothConfirmedEnds /\ CancelAcknowledged

(* The phase of each side in the terms of Agreement. A withdrawal is too   *)
(* late once the peer has started.                                         *)
phaseOf ==
  [p \in Party |->
    IF ~connected[p] THEN "lost"
    ELSE IF state[p] = "preBattle" THEN "started"
    ELSE IF canceling[p]
         THEN IF state[Peer(p)] = "preBattle" THEN "out" ELSE "withdrawn"
    ELSE IF localOk[p] THEN "confirmed" ELSE "editing"]

Abstract == INSTANCE Agreement WITH phase <- phaseOf

(* The negotiation implements Agreement: a side starts only when both      *)
(* stand confirmed or the peer's withdrawal is still to be acknowledged,   *)
(* and a side that has withdrawn too late never starts.                    *)
ImplementsAgreement == Abstract!Spec
=============================================================================
