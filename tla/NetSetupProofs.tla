---------------------------- MODULE NetSetupProofs ----------------------------
(***************************************************************************)
(* Proofs about the setup screen of a netplay game, for any number of      *)
(* slots and any ships: the fleets fit into the Confirm negotiation, a     *)
(* battle begins with every turn closed and ships on both sides, and the   *)
(* two machines begin it with the same ship in every slot that nobody      *)
(* edited within an open turn.                                             *)
(*                                                                         *)
(* What the Confirm negotiation guarantees is taken from its own proofs.   *)
(***************************************************************************)
EXTENDS NetSetup, FiniteSetTheorems, SequenceTheorems, TLAPS

Conf == INSTANCE NetConfirmProofs WITH
  UpdatePacket <- FleetPacket, MaxReply <- NumSlots, Room <- Nat

-----------------------------------------------------------------------------
(* The packets of a channel c about slot i of side s.                      *)

Covers(m, s, i) == m.type = "FLEET" /\ m.side = s /\ i \in DOMAIN m.ships

Spots(c, s, i) == {k \in DOMAIN c : Covers(c[k], s, i)}

Num(c, s, i) == Cardinality(Spots(c, s, i))

(* The last packet about the slot carries the ship v.                      *)
LatestIs(c, s, i, v) ==
  \A k \in Spots(c, s, i) :
    (\A l \in Spots(c, s, i) : l <= k) => c[k].ships[i] = v

(* p has an open turn for the slot.                                        *)
Open(p, s, i) == sentTeam[p][s][i] # Unset

OpenCount(p, s, i) == IF Open(p, s, i) THEN 1 ELSE 0

(* There is one packet for every open turn.                                *)
Balanced(s, i) ==
  \A p \in Party :
    Num(chan[p], s, i) + Num(chan[Peer(p)], s, i)
      = OpenCount(p, s, i) + OpenCount(Peer(p), s, i)

(* When p is to start by the HANDSHAKE1 at position j, what ends an open   *)
(* turn of p comes before it, or is still to be asked for.                 *)
Answered(p, s, i) ==
  \A j \in DOMAIN chan[Peer(p)] :
    chan[Peer(p)][j].type = "HANDSHAKE1" /\ Open(p, s, i) /\ ~canceling[p] =>
      \/ Spots(chan[p], s, i) # {}
      \/ \E k \in Spots(chan[Peer(p)], s, i) : k < j

(* For a slot that nobody edited within an open turn: what p notes as sent *)
(* is its ship; the last packet of the owner tells its ship; and a peer    *)
(* that does not wait, with nothing more to hear from the owner, has it.   *)
ShipsFollow(s, i) ==
  /\ \A p \in Party : Open(p, s, i) => sentTeam[p][s][i] = team[p][s][i]
  /\ LatestIs(chan[s], s, i, team[s][s][i])
  /\ state[Peer(s)] # "init" /\ ~Open(Peer(s), s, i) /\ Spots(chan[s], s, i) = {} =>
       team[Peer(s)][s][i] = team[s][s][i]

NoTurnInInit(s, i) == \A p \in Party : state[p] = "init" => ~Open(p, s, i)

TurnInv(s, i) ==
  /\ NoTurnInInit(s, i)
  /\ Balanced(s, i)
  /\ \A p \in Party : Answered(p, s, i)
  /\ <<s, i>> \notin again => ShipsFollow(s, i)

FleetsOK ==
  /\ team \in [Party -> [Party -> Fleet]]
  /\ sentTeam \in [Party -> [Party -> [Slot -> Ship \cup {Unset}]]]
  /\ edits \in [Party -> Nat]
  /\ again \subseteq Party \X Slot

ConfirmedWithShips == \A p, s \in Party : localOk[p] => HasShips(p, s)

(* The inductive invariant of the screen. Nothing is left of the turns     *)
(* once a CANCEL has come too late.                                        *)
ScreenInv ==
  /\ Conf!NegotiationInv
  /\ FleetsOK
  /\ ConfirmedWithShips /\ StartWithShips
  /\ NoOpenTurn
  /\ Conf!IInv => \A s \in Party, i \in Slot : TurnInv(s, i)

-----------------------------------------------------------------------------
(* The parameters of the Confirm negotiation are as it assumes them.       *)

LEMMA PacketFacts ==
  /\ \A m \in FleetPacket :
       /\ m.type = "FLEET" /\ m.side \in Party
       /\ DOMAIN m.ships \subseteq Slot
       /\ \A i \in DOMAIN m.ships : m.ships[i] \in Ship
  /\ \A s \in Party, i \in Slot, ship \in Ship : SlotPacket(s, i, ship) \in FleetPacket
  /\ \A s \in Party, f \in Fleet :
       [type |-> "FLEET", side |-> s, ships |-> f] \in FleetPacket
<1>1. ASSUME NEW m \in FleetPacket
      PROVE  /\ m.type = "FLEET" /\ m.side \in Party
             /\ DOMAIN m.ships \subseteq Slot
             /\ \A i \in DOMAIN m.ships : m.ships[i] \in Ship
  <2>1. PICK S \in SlotsUsed : m \in [type : {"FLEET"}, side : Party, ships : [S -> Ship]]
    BY DEF FleetPacket
  <2>2. S \subseteq Slot
    BY DEF SlotsUsed
  <2> QED BY <2>1, <2>2
<1>2. ASSUME NEW s \in Party, NEW i \in Slot, NEW ship \in Ship
      PROVE  SlotPacket(s, i, ship) \in FleetPacket
  <2>1. {i} \in SlotsUsed
    BY DEF SlotsUsed
  <2>2. SlotPacket(s, i, ship) \in [type : {"FLEET"}, side : Party, ships : [{i} -> Ship]]
    BY DEF SlotPacket
  <2> QED BY <2>1, <2>2 DEF FleetPacket
<1>3. ASSUME NEW s \in Party, NEW f \in Fleet
      PROVE  [type |-> "FLEET", side |-> s, ships |-> f] \in FleetPacket
  <2>1. Slot \in SlotsUsed
    BY DEF SlotsUsed
  <2>2. [type |-> "FLEET", side |-> s, ships |-> f]
          \in [type : {"FLEET"}, side : Party, ships : [Slot -> Ship]]
    BY DEF Fleet
  <2> QED BY <2>1, <2>2 DEF FleetPacket
<1> QED BY <1>1, <1>2, <1>3

LEMMA ConfFits ==
  /\ \E a, b \in Party : a # b /\ Party = {a, b}
  /\ NumSlots \in Nat /\ Nat \subseteq Nat
  /\ \A u \in FleetPacket : u.type \in {"FLEET", "TEAMNAME"}
BY PartyAssumption, SetupAssumption, PacketFacts

LEMMA PeerFacts ==
  ASSUME NEW p \in Party
  PROVE  /\ Peer(p) \in Party /\ Peer(p) # p /\ Peer(Peer(p)) = p
         /\ \A q \in Party : q = p \/ q = Peer(p)
<1>1. /\ Conf!Peer(p) \in Party /\ Conf!Peer(p) # p /\ Conf!Peer(Conf!Peer(p)) = p
      /\ \A q \in Party : q = p \/ q = Conf!Peer(p)
  BY ConfFits, Conf!PeerFacts
<1>2. \A r : Peer(r) = Conf!Peer(r)
  BY DEF Peer, Confirmation!Peer, Conf!Peer
<1> QED BY <1>1, <1>2

(* The operators of the negotiation by either name.                        *)
LEMMA Same ==
  /\ \A r : Conf!Peer(r) = Peer(r) /\ Confirmation!Peer(r) = Peer(r)
  /\ \A r : Conf!Incoming(r) = Confirmation!Incoming(r)
  /\ \A r, t : Conf!Arrives(r, t) <=> Confirmation!Arrives(r, t)
  /\ \A r, x : Conf!Send(r, x) <=> Confirmation!Send(r, x)
  /\ \A r, x : Conf!Answer(r, x) <=> Confirmation!Answer(r, x)
  /\ \A r : Conf!CancelPacket(r) = Confirmation!CancelPacket(r)
  /\ \A r : Conf!CancelFlags(r) <=> Confirmation!CancelFlags(r)
  /\ Conf!Packet = Confirmation!Packet
<1>1. \A r : Conf!Peer(r) = Peer(r) /\ Confirmation!Peer(r) = Peer(r)
  BY DEF Peer, Confirmation!Peer, Conf!Peer
<1>2. \A r : Conf!Incoming(r) = Confirmation!Incoming(r)
  BY <1>1 DEF Conf!Incoming, Confirmation!Incoming
<1>3. \A r, t : Conf!Arrives(r, t) <=> Confirmation!Arrives(r, t)
  BY <1>1, <1>2 DEF Conf!Arrives, Confirmation!Arrives
<1>4. \A r, x : Conf!Send(r, x) <=> Confirmation!Send(r, x)
  BY DEF Conf!Send, Confirmation!Send
<1>5. \A r, x : Conf!Answer(r, x) <=> Confirmation!Answer(r, x)
  BY <1>1 DEF Conf!Answer, Confirmation!Answer
<1>6. \A r : Conf!CancelPacket(r) = Confirmation!CancelPacket(r)
  BY DEF Conf!CancelPacket, Confirmation!CancelPacket, Conf!Just,
     Confirmation!Just
<1>7. \A r : Conf!CancelFlags(r) <=> Confirmation!CancelFlags(r)
  BY DEF Conf!CancelFlags, Confirmation!CancelFlags
<1>8. Conf!Packet = Confirmation!Packet
  BY DEF Conf!Packet, Confirmation!Packet, Conf!ControlType,
     Confirmation!ControlType
<1> QED BY <1>1, <1>2, <1>3, <1>4, <1>5, <1>6, <1>7, <1>8

(* The actions of the negotiation by either name.                          *)
LEMMA SameActions ==
  \A r :
    /\ Conf!Confirm(r) <=> Confirmation!Confirm(r)
    /\ Conf!Cancel(r) <=> Confirmation!Cancel(r)
    /\ Conf!LocalChange(r) <=> Confirmation!LocalChange(r)
    /\ Conf!HandleInit(r) <=> Confirmation!HandleInit(r)
    /\ Conf!HandleUpdate(r) <=> Confirmation!HandleUpdate(r)
    /\ Conf!HandleHandshake0(r) <=> Confirmation!HandleHandshake0(r)
    /\ Conf!HandleHandshake1(r) <=> Confirmation!HandleHandshake1(r)
    /\ Conf!HandleHandshakeCancel(r) <=> Confirmation!HandleHandshakeCancel(r)
    /\ Conf!HandleHandshakeCancelAck(r) <=> Confirmation!HandleHandshakeCancelAck(r)
    /\ Conf!RefusePacket(r) <=> Confirmation!RefusePacket(r)
    /\ Conf!PeerClosed(r) <=> Confirmation!PeerClosed(r)
    /\ Conf!Disconnect(r) <=> Confirmation!Disconnect(r)
<1>1. \A r : Conf!Confirm(r) <=> Confirmation!Confirm(r)
  BY Same DEF Conf!Confirm, Confirmation!Confirm, Conf!HandshakeMeaningful,
     Confirmation!HandshakeMeaningful, Conf!ConfirmPacket,
     Confirmation!ConfirmPacket, Conf!Just, Confirmation!Just
<1>2. \A r : Conf!Cancel(r) <=> Confirmation!Cancel(r)
  BY Same DEF Conf!Cancel, Confirmation!Cancel, Conf!HandshakeMeaningful,
     Confirmation!HandshakeMeaningful
<1>3. \A r : Conf!LocalChange(r) <=> Confirmation!LocalChange(r)
  BY Same DEF Conf!LocalChange, Confirmation!LocalChange
<1>4. \A r : Conf!HandleInit(r) <=> Confirmation!HandleInit(r)
  BY Same DEF Conf!HandleInit, Confirmation!HandleInit, Conf!Replies,
     Confirmation!Replies
<1>5. \A r : Conf!HandleUpdate(r) <=> Confirmation!HandleUpdate(r)
  BY Same DEF Conf!HandleUpdate, Confirmation!HandleUpdate, Conf!Replies,
     Confirmation!Replies
<1>6. \A r : Conf!HandleHandshake0(r) <=> Confirmation!HandleHandshake0(r)
  BY Same DEF Conf!HandleHandshake0, Confirmation!HandleHandshake0,
     Conf!HandshakeMeaningful, Confirmation!HandshakeMeaningful,
     Conf!Handshake0Answer, Confirmation!Handshake0Answer, Conf!Just,
     Confirmation!Just
<1>7. \A r : Conf!HandleHandshake1(r) <=> Confirmation!HandleHandshake1(r)
  BY Same DEF Conf!HandleHandshake1, Confirmation!HandleHandshake1,
     Conf!HandshakeMeaningful, Confirmation!HandshakeMeaningful,
     Conf!Handshake1Answer, Confirmation!Handshake1Answer, Conf!Just,
     Confirmation!Just
<1>8. \A r : Conf!HandleHandshakeCancel(r) <=> Confirmation!HandleHandshakeCancel(r)
  BY Same DEF Conf!HandleHandshakeCancel, Confirmation!HandleHandshakeCancel,
     Conf!HandshakeMeaningful, Confirmation!HandshakeMeaningful, Conf!Just,
     Confirmation!Just
<1>9. \A r : Conf!HandleHandshakeCancelAck(r) <=> Confirmation!HandleHandshakeCancelAck(r)
  BY Same DEF Conf!HandleHandshakeCancelAck,
     Confirmation!HandleHandshakeCancelAck, Conf!HandshakeMeaningful,
     Confirmation!HandshakeMeaningful, Conf!CancelAckAnswer,
     Confirmation!CancelAckAnswer, Conf!Just, Confirmation!Just
<1>10. \A r : Conf!RefusePacket(r) <=> Confirmation!RefusePacket(r)
  BY Same DEF Conf!RefusePacket, Confirmation!RefusePacket, Conf!Refusable,
     Confirmation!Refusable, Conf!Acceptable, Confirmation!Acceptable,
     Conf!HandshakeMeaningful, Confirmation!HandshakeMeaningful, Conf!Close,
     Confirmation!Close
<1>11. \A r : Conf!PeerClosed(r) <=> Confirmation!PeerClosed(r)
  BY Same DEF Conf!PeerClosed, Confirmation!PeerClosed, Conf!Close,
     Confirmation!Close
<1>12. \A r : Conf!Disconnect(r) <=> Confirmation!Disconnect(r)
  BY Same DEF Conf!Disconnect, Confirmation!Disconnect, Conf!Close,
     Confirmation!Close
<1> QED BY <1>1, <1>2, <1>3, <1>4, <1>5, <1>6, <1>7, <1>8, <1>9, <1>10, <1>11, <1>12

LEMMA SameSpec ==
  /\ Conf!Init <=> Confirmation!Init
  /\ Conf!Next <=> Confirmation!Next
  /\ Conf!vars = confirmVars
  /\ Conf!TypeOK <=> Confirmation!TypeOK
  /\ Conf!OnlyLateCancelRefused <=> Confirmation!OnlyLateCancelRefused
<1>1. Conf!Init <=> Confirmation!Init
  BY DEF Conf!Init, Confirmation!Init, Conf!Just, Confirmation!Just
<1>2. Conf!Next <=> Confirmation!Next
  <2>1. \A r : Conf!Handle(r) <=> Confirmation!Handle(r)
    BY SameActions DEF Conf!Handle, Confirmation!Handle
  <2>2. \A r : Conf!Refusable(r) <=> Confirmation!Refusable(r)
    BY Same DEF Conf!Refusable, Confirmation!Refusable, Conf!Acceptable,
                Confirmation!Acceptable, Conf!HandshakeMeaningful,
                Confirmation!HandshakeMeaningful
  <2>3. \A r : Conf!Receive(r) <=> Confirmation!Receive(r)
    BY <2>1, <2>2, SameActions DEF Conf!Receive, Confirmation!Receive
  <2> QED BY <2>3, SameActions DEF Conf!Next, Confirmation!Next
<1>3. Conf!vars = confirmVars
  BY DEF Conf!vars, confirmVars
<1>4. Conf!TypeOK <=> Confirmation!TypeOK
  BY Same DEF Conf!TypeOK, Confirmation!TypeOK, Conf!NetState,
              Confirmation!NetState, Conf!ControlType, Confirmation!ControlType
<1>5. Conf!OnlyLateCancelRefused <=> Confirmation!OnlyLateCancelRefused
  BY DEF Conf!OnlyLateCancelRefused, Confirmation!OnlyLateCancelRefused
<1> QED BY <1>1, <1>2, <1>3, <1>4, <1>5

-----------------------------------------------------------------------------
(* What a player and a packet change in the fleets.                        *)

LEMMA SlotFacts == Slot # {} /\ NumSlots \in Nat /\ NumSlots >= 1 /\ Slot \subseteq Nat
BY SetupAssumption DEF Slot

LEMMA ChannelType ==
  ASSUME Conf!TypeOK, NEW p \in Party
  PROVE  chan[p] \in Seq(Conf!Packet) /\ chan[Peer(p)] \in Seq(Conf!Packet)
BY PeerFacts DEF Conf!TypeOK

LEMMA IncomingFleet ==
  ASSUME Conf!TypeOK, NEW p \in Party, Confirmation!Arrives(p, {"FLEET"})
  PROVE  /\ chan[Peer(p)] # <<>> /\ connected[p]
         /\ Confirmation!Incoming(p) = Head(chan[Peer(p)])
         /\ Confirmation!Incoming(p) \in FleetPacket
<1>1. chan[Peer(p)] # <<>> /\ connected[p] /\ Confirmation!Incoming(p).type = "FLEET"
      /\ Confirmation!Incoming(p) = Head(chan[Peer(p)])
  BY Same DEF Confirmation!Arrives, Confirmation!Incoming
<1>2. Head(chan[Peer(p)]) \in Conf!Packet
  BY <1>1, ChannelType
<1>3. \A m \in Conf!Packet : m \in FleetPacket \/ m.type \in Conf!ControlType
  BY DEF Conf!Packet
<1> QED BY <1>1, <1>2, <1>3 DEF Conf!ControlType

(* The ships and notes a packet leaves, the slots whose ship is sent back, *)
(* and the packets that carry them.                                        *)
Result(p, m) ==
  [i \in DOMAIN m.ships |-> RemoteChange(p, m.side, i, m.ships[i])]

Notified(p, m) == {i \in DOMAIN Result(p, m) : Result(p, m)[i].notify}

Reply(p, m, walk) ==
  [k \in DOMAIN walk |-> SlotPacket(m.side, walk[k], Result(p, m)[walk[k]].ship)]

LEMMA RemoteChangeType ==
  ASSUME FleetsOK, NEW p \in Party, NEW s \in Party, NEW i \in Slot, NEW v \in Ship
  PROVE  /\ RemoteChange(p, s, i, v).ship \in Ship
         /\ RemoteChange(p, s, i, v).sent \in Ship \cup {Unset}
         /\ team[p][s][i] \in Ship /\ sentTeam[p][s][i] \in Ship \cup {Unset}
<1>1. team[p][s][i] \in Ship /\ sentTeam[p][s][i] \in Ship \cup {Unset}
  BY DEF FleetsOK, Fleet
<1> QED BY <1>1 DEF RemoteChange

LEMMA ResultFacts ==
  ASSUME FleetsOK, NEW p \in Party, NEW m \in FleetPacket
  PROVE  /\ DOMAIN Result(p, m) = DOMAIN m.ships
         /\ DOMAIN m.ships \subseteq Slot /\ Notified(p, m) \subseteq Slot
         /\ \A i \in DOMAIN m.ships :
              /\ Result(p, m)[i] = RemoteChange(p, m.side, i, m.ships[i])
              /\ Result(p, m)[i].ship \in Ship
              /\ Result(p, m)[i].sent \in Ship \cup {Unset}
              /\ i \in Notified(p, m) <=> Result(p, m)[i].notify
<1>1. m.side \in Party /\ DOMAIN m.ships \subseteq Slot
      /\ \A i \in DOMAIN m.ships : m.ships[i] \in Ship
  BY PacketFacts
<1>2. \A i \in DOMAIN m.ships : Result(p, m)[i] = RemoteChange(p, m.side, i, m.ships[i])
  BY DEF Result
<1>3. ASSUME NEW i \in DOMAIN m.ships
      PROVE  /\ Result(p, m)[i].ship \in Ship
             /\ Result(p, m)[i].sent \in Ship \cup {Unset}
  BY <1>1, <1>2, RemoteChangeType
<1> QED BY <1>1, <1>2, <1>3 DEF Notified, Result

(* Each slot of S is visited once.                                         *)
LEMMA WalkFacts ==
  ASSUME NEW S \in SUBSET Slot, NEW walk \in InOrder(S)
  PROVE  \E n \in 0..NumSlots :
           /\ walk \in [1..n -> S] /\ n \in Nat /\ walk \in Seq(S) /\ Len(walk) = n
           /\ \A j, k \in 1..n : walk[j] = walk[k] => j = k
           /\ \A i \in S : \E k \in 1..n : walk[k] = i
<1>1. PICK n \in 0..NumSlots : walk \in [1..n -> S]
  BY DEF InOrder
<1>2. n \in Nat /\ DOMAIN walk = 1..n
  BY <1>1, SetupAssumption
<1>3. walk \in Seq(S) /\ Len(walk) = n
  BY <1>1, <1>2, SeqDef, LenProperties
<1>4. \A j, k \in 1..n : j < k => walk[j] < walk[k]
  BY <1>2 DEF InOrder
<1>5. \A j, k \in 1..n : walk[j] \in Nat /\ walk[k] \in Nat
  BY <1>1, SlotFacts
<1>6. \A j, k \in 1..n : walk[j] = walk[k] => j = k
  <2> SUFFICES ASSUME NEW j \in 1..n, NEW k \in 1..n, walk[j] = walk[k], j # k
               PROVE  FALSE
    OBVIOUS
  <2>1. j < k \/ k < j
    BY <1>2
  <2> QED BY <2>1, <1>4, <1>5
<1>7. \A i \in S : \E k \in 1..n : walk[k] = i
  BY <1>2 DEF InOrder
<1> QED BY <1>1, <1>2, <1>3, <1>6, <1>7

LEMMA ReplyFacts ==
  ASSUME FleetsOK, NEW p \in Party, NEW m \in FleetPacket,
         NEW walk \in InOrder(Notified(p, m))
  PROVE  /\ Reply(p, m, walk) \in Conf!Replies
         /\ Reply(p, m, walk) \in Seq(FleetPacket)
         /\ DOMAIN Reply(p, m, walk) = DOMAIN walk
<1>1. PICK n \in 0..NumSlots :
        walk \in [1..n -> Notified(p, m)] /\ n \in Nat
  BY WalkFacts, ResultFacts
<1>2. \A k \in 1..n : walk[k] \in Slot /\ Result(p, m)[walk[k]].ship \in Ship
  <2>1. \A k \in 1..n : walk[k] \in Notified(p, m)
    BY <1>1
  <2> QED BY <2>1, ResultFacts DEF Notified
<1>3. m.side \in Party
  BY PacketFacts
<1>4. Reply(p, m, walk) \in [1..n -> FleetPacket]
  BY <1>1, <1>2, <1>3, PacketFacts DEF Reply
<1>5. Reply(p, m, walk) \in Conf!Replies
  BY <1>1, <1>4 DEF Conf!Replies
<1>6. Reply(p, m, walk) \in Seq(FleetPacket)
  BY <1>1, <1>4, SeqDef
<1> QED BY <1>1, <1>4, <1>5, <1>6

(* The ships and notes of side m.side are those of the result.             *)
TakesResult(p, m) ==
  /\ team' = [team EXCEPT ![p][m.side] =
                [i \in Slot |-> IF i \in DOMAIN Result(p, m)
                                THEN Result(p, m)[i].ship ELSE @[i]]]
  /\ sentTeam' = [sentTeam EXCEPT ![p][m.side] =
                    [i \in Slot |-> IF i \in DOMAIN Result(p, m)
                                    THEN Result(p, m)[i].sent ELSE @[i]]]

LEMMA HandleFleetIs ==
  ASSUME Conf!TypeOK, FleetsOK, NEW p \in Party, HandleFleet(p)
  PROVE  /\ chan[Peer(p)] # <<>> /\ connected[p] /\ state[p] = "inSetup"
         /\ Head(chan[Peer(p)]) \in FleetPacket
         /\ TakesResult(p, Head(chan[Peer(p)]))
         /\ \E walk \in InOrder(Notified(p, Head(chan[Peer(p)]))) :
              Conf!Answer(p, (IF localOk[p] THEN Conf!CancelPacket(p) ELSE <<>>)
                               \o Reply(p, Head(chan[Peer(p)]), walk))
         /\ Conf!HandleUpdate(p)
         /\ edits' = edits /\ again' = again
<1> DEFINE m == Head(chan[Peer(p)])
<1>1. /\ Confirmation!Arrives(p, {"FLEET"}) /\ state[p] = "inSetup"
      /\ IF localOk[p]
         THEN /\ Confirmation!CancelFlags(p)
              /\ inputFunc' = [inputFunc EXCEPT ![p] = "DoMelee"]
         ELSE UNCHANGED <<localOk, canceling, inputFunc>>
      /\ UNCHANGED <<connected, state, remoteOk, badPacket, edits, again>>
  BY DEF HandleFleet
<1>2. chan[Peer(p)] # <<>> /\ connected[p] /\ m \in FleetPacket
      /\ Confirmation!Incoming(p) = m
  BY <1>1, IncomingFleet
<1>3. LET packet == Confirmation!Incoming(p)
      IN  /\ TakesResult(p, packet)
          /\ \E walk \in InOrder(Notified(p, packet)) :
               Confirmation!Answer(p,
                 (IF localOk[p] THEN Confirmation!CancelPacket(p) ELSE <<>>)
                   \o Reply(p, packet, walk))
  BY ZenonT(30) DEF HandleFleet, TakesResult, Result, Notified, Reply
<1>4. /\ TakesResult(p, m)
      /\ \E walk \in InOrder(Notified(p, m)) :
           Confirmation!Answer(p,
             (IF localOk[p] THEN Confirmation!CancelPacket(p) ELSE <<>>)
               \o Reply(p, m, walk))
  BY <1>2, <1>3
<1>5. PICK walk \in InOrder(Notified(p, m)) :
        Conf!Answer(p, (IF localOk[p] THEN Conf!CancelPacket(p) ELSE <<>>)
                         \o Reply(p, m, walk))
  BY <1>4, Same
<1>6. Reply(p, m, walk) \in Conf!Replies /\ Reply(p, m, walk) \in Seq(FleetPacket)
  BY <1>2, ReplyFacts
<1>7. Len(chan[p]) + Len(Reply(p, m, walk)) \in Nat
  <2>1. chan[p] \in Seq(Conf!Packet)
    BY ChannelType
  <2>2. Len(chan[p]) \in Nat
    BY <2>1
  <2>3. Len(Reply(p, m, walk)) \in Nat
    BY <1>6
  <2>4. \A a, b \in Nat : a + b \in Nat
    OBVIOUS
  <2> QED BY <2>2, <2>3, <2>4, Zenon
<1>8. Conf!Arrives(p, {"FLEET", "TEAMNAME"})
  <2>1. Confirmation!Arrives(p, {"FLEET", "TEAMNAME"})
    BY <1>1 DEF Confirmation!Arrives
  <2> QED BY <2>1, Same
<1>9. localOk[p] => Conf!CancelFlags(p)
  BY <1>1, Same
<1>10. Conf!HandleUpdate(p)
  BY <1>1, <1>5, <1>6, <1>7, <1>8, <1>9 DEF Conf!HandleUpdate
<1> QED BY <1>1, <1>2, <1>4, <1>5, <1>10

LEMMA HandleInitIs ==
  ASSUME Conf!TypeOK, FleetsOK, NEW p \in Party, HandleInit(p)
  PROVE  LET m == [type |-> "FLEET", side |-> Peer(p), ships |-> team[p][Peer(p)]]
         IN  /\ Conf!HandleInit(p)
             /\ m \in FleetPacket
             /\ chan[Peer(p)] # <<>> /\ Head(chan[Peer(p)]).type = "INIT"
             /\ state[p] = "init" /\ state' = [state EXCEPT ![p] = "inSetup"]
             /\ Conf!Answer(p, <<m>>)
             /\ sentTeam' = [sentTeam EXCEPT ![p][Peer(p)] = team[p][Peer(p)]]
             /\ UNCHANGED <<team, edits, again, canceling, localOk>>
<1> DEFINE m == [type |-> "FLEET", side |-> Peer(p), ships |-> team[p][Peer(p)]]
<1>1. /\ Confirmation!Arrives(p, {"INIT"}) /\ state[p] = "init"
      /\ state' = [state EXCEPT ![p] = "inSetup"] /\ Confirmation!Answer(p, <<m>>)
      /\ sentTeam' = [sentTeam EXCEPT ![p][Peer(p)] = team[p][Peer(p)]]
      /\ UNCHANGED <<connected, localOk, remoteOk, canceling, inputFunc,
                     badPacket, team, edits, again>>
  BY DEF HandleInit
<1>2. chan[Peer(p)] # <<>> /\ Head(chan[Peer(p)]).type = "INIT"
  BY <1>1, Same DEF Confirmation!Arrives, Confirmation!Incoming
<1>3. m \in FleetPacket
  <2>1. team[p][Peer(p)] \in Fleet
    BY PeerFacts DEF FleetsOK
  <2> QED BY <2>1, PeerFacts, PacketFacts
<1>4. <<m>> \in Conf!Replies
  <2>1. <<m>> \in [1..1 -> FleetPacket] /\ 1 \in 0..NumSlots
    BY <1>3, SlotFacts
  <2> QED BY <2>1 DEF Conf!Replies
<1>5. Conf!Arrives(p, {"INIT"}) /\ Conf!Answer(p, <<m>>)
  BY <1>1, Same
<1>6. Conf!HandleInit(p)
  BY <1>1, <1>4, <1>5 DEF Conf!HandleInit
<1> QED BY <1>1, <1>2, <1>3, <1>5, <1>6

(* The player puts a ship into a slot, and opens a turn with it or not.    *)
Puts(p, s, i, ship) ==
  /\ connected[p] /\ state[p] = "inSetup" /\ inputFunc[p] = "DoMelee"
  /\ team' = [team EXCEPT ![p][s][i] = ship]
  /\ edits' = [edits EXCEPT ![p] = @ + 1]
  /\ UNCHANGED <<connected, state, localOk, remoteOk, canceling, inputFunc, badPacket>>

OpensTurn(p, s, i, ship) ==
  /\ ~Open(p, s, i)
  /\ Conf!Send(p, <<SlotPacket(s, i, ship)>>)
  /\ sentTeam' = [sentTeam EXCEPT ![p][s][i] = ship]
  /\ again' = again
  /\ Conf!LocalChange(p)

EditsInTurn(p, s, i) ==
  /\ Open(p, s, i)
  /\ again' = again \cup {<<s, i>>}
  /\ UNCHANGED <<chan, sentTeam>>

LEMMA LocalChangeIs ==
  ASSUME Conf!TypeOK, FleetsOK, NEW p \in Party, LocalChange(p)
  PROVE  \E s \in Party, i \in Slot, ship \in Ship :
           /\ Puts(p, s, i, ship)
           /\ OpensTurn(p, s, i, ship) \/ EditsInTurn(p, s, i)
<1>1. /\ connected[p] /\ state[p] = "inSetup" /\ inputFunc[p] = "DoMelee"
      /\ edits' = [edits EXCEPT ![p] = @ + 1]
      /\ UNCHANGED <<connected, state, localOk, remoteOk, canceling, inputFunc, badPacket>>
  BY DEF LocalChange
<1>2. PICK s \in Party, i \in Slot, ship \in Ship :
        /\ team' = [team EXCEPT ![p][s][i] = ship]
        /\ IF sentTeam[p][s][i] = Unset
           THEN /\ Confirmation!Send(p, <<SlotPacket(s, i, ship)>>)
                /\ sentTeam' = [sentTeam EXCEPT ![p][s][i] = ship]
                /\ UNCHANGED again
           ELSE /\ again' = again \cup {<<s, i>>}
                /\ UNCHANGED <<chan, sentTeam>>
  BY DEF LocalChange
<1>3. CASE sentTeam[p][s][i] = Unset
  <2>1. Conf!Send(p, <<SlotPacket(s, i, ship)>>) /\ SlotPacket(s, i, ship) \in FleetPacket
    BY <1>2, <1>3, Same, PacketFacts
  <2>2. Len(chan[p]) \in Nat
    BY ChannelType
  <2>3. Conf!LocalChange(p)
    BY <1>1, <2>1, <2>2 DEF Conf!LocalChange
  <2>4. Puts(p, s, i, ship)
    BY <1>1, <1>2, Zenon DEF Puts
  <2>5. OpensTurn(p, s, i, ship)
    BY <1>2, <1>3, <2>1, <2>3, Zenon DEF Open, OpensTurn
  <2> QED BY <2>4, <2>5
<1>4. CASE sentTeam[p][s][i] # Unset
  <2>1. Puts(p, s, i, ship)
    BY <1>1, <1>2, Zenon DEF Puts
  <2>2. EditsInTurn(p, s, i)
    BY <1>2, <1>4, Zenon DEF Open, EditsInTurn
  <2> QED BY <2>1, <2>2
<1> QED BY <1>3, <1>4

-----------------------------------------------------------------------------
(* The screen implements the Confirm negotiation.                          *)

LEMMA StepFits ==
  ASSUME Conf!TypeOK, FleetsOK, [Next]_vars
  PROVE  [Conf!Next]_(Conf!vars)
<1>1. ASSUME NEW p \in Party, Confirm(p) PROVE Conf!Next
  BY <1>1, SameActions DEF Confirm, Conf!Next
<1>2. ASSUME NEW p \in Party, LocalChange(p) PROVE [Conf!Next]_(Conf!vars)
  <2>1. \/ Conf!LocalChange(p)
        \/ UNCHANGED <<connected, state, localOk, remoteOk, canceling, inputFunc,
                       chan, badPacket>>
    BY <1>2, LocalChangeIs DEF Puts, OpensTurn, EditsInTurn
  <2> QED BY <2>1 DEF Conf!Next, Conf!vars
<1>3. ASSUME NEW p \in Party, HandleInit(p) \/ HandleFleet(p) PROVE Conf!Next
  <2>1. Conf!Handle(p)
    BY <1>3, HandleInitIs, HandleFleetIs DEF Conf!Handle
  <2>2. Conf!Receive(p)
    BY <2>1, ConfFits, Conf!HandlersReceive
  <2> QED BY <2>2 DEF Conf!Next
<1>4. ASSUME NEW p \in Party, Negotiate(p) PROVE Conf!Next
  <2>1. \/ Conf!Cancel(p) \/ Conf!Handle(p) \/ Conf!RefusePacket(p)
        \/ Conf!PeerClosed(p) \/ Conf!Disconnect(p)
    BY <1>4, SameActions DEF Negotiate, Conf!Handle
  <2>2. Conf!Handle(p) \/ Conf!RefusePacket(p) => Conf!Receive(p)
    BY ConfFits, Conf!HandlersReceive DEF Conf!Receive, Conf!RefusePacket
  <2> QED BY <2>1, <2>2 DEF Conf!Next
<1>5. CASE UNCHANGED vars
  BY <1>5 DEF vars, confirmVars, Conf!vars
<1> QED BY <1>1, <1>2, <1>3, <1>4, <1>5 DEF Next

LEMMA FleetsStep ==
  ASSUME Conf!TypeOK, FleetsOK, [Next]_vars
  PROVE  FleetsOK'
<1>1. ASSUME NEW p \in Party, Confirm(p) \/ Negotiate(p) PROVE FleetsOK'
  BY <1>1 DEF Confirm, Negotiate, teamVars, FleetsOK
<1>2. ASSUME NEW p \in Party, LocalChange(p) PROVE FleetsOK'
  <2>1. PICK s \in Party, i \in Slot, ship \in Ship :
          /\ Puts(p, s, i, ship)
          /\ OpensTurn(p, s, i, ship) \/ EditsInTurn(p, s, i)
    BY <1>2, LocalChangeIs
  <2>0. /\ team' = [team EXCEPT ![p][s][i] = ship]
        /\ edits' = [edits EXCEPT ![p] = @ + 1]
        /\ sentTeam' = [sentTeam EXCEPT ![p][s][i] = ship] \/ sentTeam' = sentTeam
        /\ again' = again \/ again' = again \cup {<<s, i>>}
    BY <2>1, Zenon DEF Puts, OpensTurn, EditsInTurn
  <2>2. edits' \in [Party -> Nat]
    BY <2>0 DEF FleetsOK
  <2>3. team' \in [Party -> [Party -> Fleet]]
    BY <2>0 DEF FleetsOK, Fleet
  <2>4. sentTeam' \in [Party -> [Party -> [Slot -> Ship \cup {Unset}]]]
    <3>1. CASE sentTeam' = sentTeam
      BY <3>1 DEF FleetsOK
    <3>2. CASE sentTeam' = [sentTeam EXCEPT ![p][s][i] = ship]
      <4>1. [sentTeam[p][s] EXCEPT ![i] = ship] \in [Slot -> Ship \cup {Unset}]
        BY DEF FleetsOK
      <4> QED BY <3>2, <4>1 DEF FleetsOK
    <3> QED BY <2>0, <3>1, <3>2
  <2>5. again' \subseteq Party \X Slot
    BY <2>0 DEF FleetsOK
  <2> QED BY <2>2, <2>3, <2>4, <2>5 DEF FleetsOK
<1>3. ASSUME NEW p \in Party, HandleInit(p) PROVE FleetsOK'
  <2>1. /\ sentTeam' = [sentTeam EXCEPT ![p][Peer(p)] = team[p][Peer(p)]]
        /\ UNCHANGED <<team, edits, again>>
    BY <1>3, HandleInitIs
  <2>2. team[p][Peer(p)] \in [Slot -> Ship \cup {Unset}]
    BY PeerFacts DEF FleetsOK, Fleet
  <2>3. sentTeam' \in [Party -> [Party -> [Slot -> Ship \cup {Unset}]]]
    BY <2>1, <2>2, PeerFacts DEF FleetsOK
  <2> QED BY <2>1, <2>3 DEF FleetsOK
<1>4. ASSUME NEW p \in Party, HandleFleet(p) PROVE FleetsOK'
  <2> DEFINE m == Head(chan[Peer(p)])
  <2>1. m \in FleetPacket /\ TakesResult(p, m) /\ edits' = edits /\ again' = again
    BY <1>4, HandleFleetIs
  <2>2. m.side \in Party /\ DOMAIN Result(p, m) \subseteq Slot
        /\ \A i \in DOMAIN Result(p, m) :
             /\ Result(p, m)[i].ship \in Ship
             /\ Result(p, m)[i].sent \in Ship \cup {Unset}
    BY <2>1, ResultFacts, PacketFacts
  <2>3. [i \in Slot |-> IF i \in DOMAIN Result(p, m) THEN Result(p, m)[i].ship
                        ELSE team[p][m.side][i]] \in Fleet
    <3>1. team[p][m.side] \in Fleet
      BY <2>2 DEF FleetsOK
    <3> QED BY <2>2, <3>1 DEF Fleet
  <2>4. [i \in Slot |-> IF i \in DOMAIN Result(p, m) THEN Result(p, m)[i].sent
                        ELSE sentTeam[p][m.side][i]] \in [Slot -> Ship \cup {Unset}]
    <3>1. sentTeam[p][m.side] \in [Slot -> Ship \cup {Unset}]
      BY <2>2 DEF FleetsOK
    <3> QED BY <2>2, <3>1
  <2>5. team' \in [Party -> [Party -> Fleet]]
    BY <2>1, <2>2, <2>3 DEF FleetsOK, TakesResult
  <2>6. sentTeam' \in [Party -> [Party -> [Slot -> Ship \cup {Unset}]]]
    BY <2>1, <2>2, <2>4 DEF FleetsOK, TakesResult
  <2> QED BY <2>1, <2>5, <2>6 DEF FleetsOK
<1>5. CASE UNCHANGED vars
  BY <1>5 DEF vars, teamVars, FleetsOK
<1> QED BY <1>1, <1>2, <1>3, <1>4, <1>5 DEF Next

-----------------------------------------------------------------------------
(* Counting the packets about a slot.                                      *)

LEMMA ShiftedSet ==
  ASSUME NEW T, IsFiniteSet(T), T \subseteq Int, NEW n \in Int
  PROVE  IsFiniteSet({k + n : k \in T}) /\ Cardinality({k + n : k \in T}) = Cardinality(T)
<1> DEFINE U == {k + n : k \in T}
           f == [k \in T |-> k + n]
<1>1. f \in [T -> U]
  OBVIOUS
<1>2. \A a, b \in T : f[a] = f[b] => a = b
  <2>1. \A a, b \in Int : a + n = b + n => a = b
    OBVIOUS
  <2> QED BY <2>1
<1>3. \A u \in U : \E k \in T : f[k] = u
  OBVIOUS
<1>4. ExistsBijection(T, U)
  BY <1>1, <1>2, <1>3 DEF ExistsBijection, Bijection, Injection, Surjection, IsInjective
<1> QED BY <1>4, FS_Bijection

LEMMA SpotsFacts ==
  ASSUME NEW S, NEW c \in Seq(S), NEW s, NEW i
  PROVE  /\ IsFiniteSet(Spots(c, s, i)) /\ Spots(c, s, i) \subseteq 1..Len(c)
         /\ Num(c, s, i) \in Nat
         /\ Num(c, s, i) = 0 <=> Spots(c, s, i) = {}
<1>1. Spots(c, s, i) \subseteq 1..Len(c) /\ Len(c) \in Nat
  BY DEF Spots
<1>2. IsFiniteSet(1..Len(c))
  BY <1>1, FS_Interval
<1>3. IsFiniteSet(Spots(c, s, i))
  BY <1>1, <1>2, FS_Subset
<1> QED BY <1>1, <1>3, FS_CardinalityType, FS_EmptySet DEF Num

LEMMA SpotsOfTail ==
  ASSUME NEW S, NEW c \in Seq(S), c # <<>>, NEW s, NEW i
  PROVE  /\ Tail(c) \in Seq(S) /\ Len(Tail(c)) = Len(c) - 1 /\ Head(c) = c[1]
         /\ 1 \in Spots(c, s, i) <=> Covers(Head(c), s, i)
         /\ \A k : k \in Spots(Tail(c), s, i) <=>
                     k \in 1..Len(Tail(c)) /\ k + 1 \in Spots(c, s, i)
         /\ \A k \in Spots(c, s, i) : k # 1 => k - 1 \in Spots(Tail(c), s, i)
<1>1. /\ Tail(c) \in Seq(S) /\ Len(c) \in Nat /\ Len(c) >= 1 /\ Len(Tail(c)) = Len(c) - 1
      /\ Head(c) = c[1]
      /\ DOMAIN c = 1..Len(c) /\ DOMAIN Tail(c) = 1..Len(Tail(c))
      /\ \A k \in 1..Len(Tail(c)) : Tail(c)[k] = c[k + 1]
  OBVIOUS
<1>2. 1 \in Spots(c, s, i) <=> Covers(Head(c), s, i)
  BY <1>1 DEF Spots
<1>3. ASSUME NEW k
      PROVE  k \in Spots(Tail(c), s, i) <=>
               k \in 1..Len(Tail(c)) /\ k + 1 \in Spots(c, s, i)
  <2>1. CASE k \in 1..Len(Tail(c))
    <3>1. k + 1 \in DOMAIN c /\ Tail(c)[k] = c[k + 1]
      BY <1>1, <2>1
    <3> QED BY <1>1, <2>1, <3>1 DEF Spots
  <2>2. CASE k \notin 1..Len(Tail(c))
    BY <1>1, <2>2 DEF Spots
  <2> QED BY <2>1, <2>2
<1>4. ASSUME NEW k \in Spots(c, s, i), k # 1 PROVE k - 1 \in Spots(Tail(c), s, i)
  <2>1. k \in 1..Len(c)
    BY <1>1 DEF Spots
  <2>2. k - 1 \in 1..Len(Tail(c)) /\ (k - 1) + 1 = k
    BY <1>1, <1>4, <2>1
  <2> QED BY <1>3, <2>2
<1> QED BY <1>1, <1>2, <1>3, <1>4

LEMMA NumOfTail ==
  ASSUME NEW S, NEW c \in Seq(S), c # <<>>, NEW s, NEW i
  PROVE  /\ Covers(Head(c), s, i) => Num(c, s, i) = Num(Tail(c), s, i) + 1
         /\ ~Covers(Head(c), s, i) => Num(c, s, i) = Num(Tail(c), s, i)
<1> DEFINE T == Spots(Tail(c), s, i)
           U == {k + 1 : k \in T}
<1>1. Tail(c) \in Seq(S) /\ IsFiniteSet(T) /\ T \subseteq 1..Len(Tail(c)) /\ Len(Tail(c)) \in Nat
  <2>1. Tail(c) \in Seq(S)
    BY SpotsOfTail
  <2>2. IsFiniteSet(T) /\ T \subseteq 1..Len(Tail(c))
    BY <2>1, SpotsFacts
  <2>3. Len(Tail(c)) \in Nat
    BY <2>1
  <2> QED BY <2>1, <2>2, <2>3
<1>2. IsFiniteSet(U) /\ Cardinality(U) = Num(Tail(c), s, i)
  BY <1>1, ShiftedSet DEF Num
<1>3. \A k \in U : k \in Spots(c, s, i)
  BY SpotsOfTail
<1>4. 1 \notin U
  BY <1>1
<1>5. \A k \in Spots(c, s, i) : k # 1 => k \in U
  <2> SUFFICES ASSUME NEW k \in Spots(c, s, i), k # 1 PROVE k \in U
    OBVIOUS
  <2>1. k - 1 \in T
    BY SpotsOfTail
  <2>2. k \in 1..Len(c)
    BY SpotsFacts
  <2>3. k = (k - 1) + 1
    BY <2>2
  <2> QED BY <2>1, <2>3
<1>6. CASE Covers(Head(c), s, i)
  <2>1. Spots(c, s, i) = U \cup {1}
    BY <1>3, <1>5, <1>6, SpotsOfTail
  <2> QED BY <1>2, <1>4, <1>6, <2>1, FS_AddElement DEF Num
<1>7. CASE ~Covers(Head(c), s, i)
  <2>1. Spots(c, s, i) = U
    BY <1>3, <1>5, <1>7, SpotsOfTail
  <2> QED BY <1>2, <1>7, <2>1 DEF Num
<1> QED BY <1>6, <1>7

LEMMA SpotsOfConcat ==
  ASSUME NEW S, NEW c \in Seq(S), NEW r \in Seq(S), NEW s, NEW i
  PROVE  /\ c \o r \in Seq(S) /\ Len(c) \in Nat
         /\ \A k : k \in Spots(c, s, i) <=> k \in Spots(c \o r, s, i) /\ k \in 1..Len(c)
         /\ \A k \in Spots(r, s, i) : k + Len(c) \in Spots(c \o r, s, i)
         /\ \A k \in Spots(c \o r, s, i) :
              k \in Spots(c, s, i) \/ (k > Len(c) /\ k - Len(c) \in Spots(r, s, i))
<1>1. /\ c \o r \in Seq(S) /\ Len(c) \in Nat /\ Len(r) \in Nat
      /\ Len(c \o r) = Len(c) + Len(r)
      /\ DOMAIN c = 1..Len(c) /\ DOMAIN r = 1..Len(r) /\ DOMAIN (c \o r) = 1..Len(c \o r)
      /\ \A k \in 1..Len(c \o r) : (c \o r)[k] = IF k <= Len(c) THEN c[k] ELSE r[k - Len(c)]
  BY ConcatProperties
<1>2. ASSUME NEW k
      PROVE  k \in Spots(c, s, i) <=> k \in Spots(c \o r, s, i) /\ k \in 1..Len(c)
  <2>1. CASE k \in 1..Len(c)
    <3>1. k \in 1..Len(c \o r) /\ (c \o r)[k] = c[k]
      BY <1>1, <2>1
    <3> QED BY <1>1, <2>1, <3>1 DEF Spots
  <2>2. CASE k \notin 1..Len(c)
    BY <1>1, <2>2 DEF Spots
  <2> QED BY <2>1, <2>2
<1>3. ASSUME NEW k \in Spots(r, s, i) PROVE k + Len(c) \in Spots(c \o r, s, i)
  <2>1. k \in 1..Len(r)
    BY <1>1 DEF Spots
  <2>2. k + Len(c) \in 1..Len(c \o r) /\ (c \o r)[k + Len(c)] = r[k]
    BY <1>1, <2>1
  <2> QED BY <1>1, <2>2 DEF Spots
<1>4. ASSUME NEW k \in Spots(c \o r, s, i), k \notin Spots(c, s, i)
      PROVE  k > Len(c) /\ k - Len(c) \in Spots(r, s, i)
  <2>1. k \in 1..Len(c \o r) /\ k \notin 1..Len(c)
    BY <1>1, <1>2, <1>4 DEF Spots
  <2>2. k > Len(c) /\ k - Len(c) \in 1..Len(r) /\ (c \o r)[k] = r[k - Len(c)]
    BY <1>1, <2>1
  <2> QED BY <1>1, <2>2 DEF Spots
<1> QED BY <1>1, <1>2, <1>3, <1>4

LEMMA NumOfConcat ==
  ASSUME NEW S, NEW c \in Seq(S), NEW r \in Seq(S), NEW s, NEW i
  PROVE  Num(c \o r, s, i) = Num(c, s, i) + Num(r, s, i)
<1> DEFINE T == Spots(r, s, i)
           U == {k + Len(c) : k \in T}
<1>1. /\ IsFiniteSet(T) /\ T \subseteq 1..Len(r) /\ Len(r) \in Nat /\ Len(c) \in Nat
      /\ IsFiniteSet(Spots(c, s, i)) /\ Spots(c, s, i) \subseteq 1..Len(c)
  BY SpotsFacts
<1>2. IsFiniteSet(U) /\ Cardinality(U) = Num(r, s, i)
  BY <1>1, ShiftedSet DEF Num
<1>3. \A k \in U : k \in Spots(c \o r, s, i)
  BY SpotsOfConcat
<1>4. \A k \in Spots(c \o r, s, i) : k \in Spots(c, s, i) \/ k \in U
  <2> SUFFICES ASSUME NEW k \in Spots(c \o r, s, i), k \notin Spots(c, s, i) PROVE k \in U
    OBVIOUS
  <2>1. k - Len(c) \in T
    BY SpotsOfConcat
  <2>2. k \in 1..Len(c \o r)
    <3>1. c \o r \in Seq(S)
      BY SpotsOfConcat
    <3> QED BY <3>1, SpotsFacts
  <2>3. k = (k - Len(c)) + Len(c)
    BY <1>1, <2>2
  <2> QED BY <2>1, <2>3
<1>5. Spots(c \o r, s, i) = Spots(c, s, i) \cup U
  BY <1>3, <1>4, SpotsOfConcat
<1>6. Spots(c, s, i) \cap U = {}
  BY <1>1
<1>7. Num(c, s, i) \in Nat /\ Num(r, s, i) \in Nat
  BY SpotsFacts
<1>8. Cardinality(Spots(c, s, i) \cup U) =
        Cardinality(Spots(c, s, i)) + Cardinality(U) - Cardinality(Spots(c, s, i) \cap U)
  BY <1>1, <1>2, FS_Union
<1>9. Cardinality(Spots(c, s, i) \cap U) = 0
  BY <1>6, FS_EmptySet
<1> QED BY <1>2, <1>5, <1>7, <1>8, <1>9 DEF Num

LEMMA LatestOfTail ==
  ASSUME NEW S, NEW c \in Seq(S), c # <<>>, NEW s, NEW i, NEW v, LatestIs(c, s, i, v)
  PROVE  /\ LatestIs(Tail(c), s, i, v)
         /\ Covers(Head(c), s, i) /\ Spots(Tail(c), s, i) = {} => Head(c).ships[i] = v
<1> DEFINE t == Tail(c)
<1>1. ASSUME NEW k \in Spots(t, s, i), \A l \in Spots(t, s, i) : l <= k
      PROVE  t[k].ships[i] = v
  <2>1. k \in 1..Len(t) /\ k + 1 \in Spots(c, s, i)
    BY SpotsOfTail
  <2>2. t[k] = c[k + 1]
    BY <2>1
  <2>3. ASSUME NEW l \in Spots(c, s, i) PROVE l <= k + 1
    <3>1. l \in 1..Len(c)
      BY SpotsFacts
    <3>2. CASE l = 1
      BY <2>1, <3>2
    <3>3. CASE l # 1
      <4>1. l - 1 \in Spots(t, s, i)
        BY <3>3, SpotsOfTail
      <4>2. l - 1 <= k
        BY <1>1, <4>1
      <4> QED BY <2>1, <3>1, <4>2
    <3> QED BY <3>2, <3>3
  <2> QED BY <2>1, <2>2, <2>3 DEF LatestIs
<1>2. ASSUME Covers(Head(c), s, i), Spots(t, s, i) = {} PROVE Head(c).ships[i] = v
  <2>1. 1 \in Spots(c, s, i) /\ Head(c) = c[1]
    BY <1>2, SpotsOfTail
  <2>2. \A l \in Spots(c, s, i) : l = 1
    BY <1>2, SpotsOfTail
  <2> QED BY <2>1, <2>2 DEF LatestIs
<1> QED BY <1>1, <1>2 DEF LatestIs

LEMMA LatestOfConcat ==
  ASSUME NEW S, NEW c \in Seq(S), NEW r \in Seq(S), NEW s, NEW i, NEW v,
         \/ Spots(r, s, i) = {} /\ LatestIs(c, s, i, v)
         \/ Spots(r, s, i) # {} /\ LatestIs(r, s, i, v)
  PROVE  LatestIs(c \o r, s, i, v)
<1> DEFINE u == c \o r
<1> SUFFICES ASSUME NEW k \in Spots(u, s, i), \A l \in Spots(u, s, i) : l <= k
             PROVE  u[k].ships[i] = v
  BY DEF LatestIs
<1>1. Len(c) \in Nat /\ Len(r) \in Nat
  OBVIOUS
<1>2. k \in 1..Len(u) /\ u \in Seq(S) /\ Len(u) = Len(c) + Len(r)
      /\ u[k] = IF k <= Len(c) THEN c[k] ELSE r[k - Len(c)]
  <2>1. u \in Seq(S)
    BY SpotsOfConcat
  <2>2. k \in 1..Len(u)
    BY <2>1, SpotsFacts
  <2> QED BY <2>1, <2>2, ConcatProperties
<1>3. CASE Spots(r, s, i) = {} /\ LatestIs(c, s, i, v)
  <2>1. k \in Spots(c, s, i)
    BY <1>3, SpotsOfConcat
  <2>2. k \in 1..Len(c) /\ u[k] = c[k]
    BY <1>1, <1>2, <2>1, SpotsOfConcat
  <2>3. \A l \in Spots(c, s, i) : l <= k
    BY SpotsOfConcat
  <2> QED BY <1>3, <2>1, <2>2, <2>3 DEF LatestIs
<1>4. CASE Spots(r, s, i) # {} /\ LatestIs(r, s, i, v)
  <2>1. PICK n : n \in Spots(r, s, i)
    BY <1>4
  <2>2. n \in 1..Len(r) /\ n + Len(c) <= k
    BY <2>1, SpotsFacts, SpotsOfConcat
  <2>3. k > Len(c)
    BY <1>1, <1>2, <2>2
  <2>4. k - Len(c) \in Spots(r, s, i)
    <3>1. k \notin Spots(c, s, i)
      BY <1>1, <1>2, <2>3, SpotsFacts
    <3> QED BY <3>1, SpotsOfConcat
  <2>5. u[k] = r[k - Len(c)]
    BY <1>1, <1>2, <2>3
  <2>6. ASSUME NEW l \in Spots(r, s, i) PROVE l <= k - Len(c)
    <3>1. l \in 1..Len(r) /\ l + Len(c) <= k
      BY SpotsFacts, SpotsOfConcat
    <3> QED BY <1>1, <1>2, <3>1
  <2> QED BY <1>4, <2>4, <2>5, <2>6 DEF LatestIs
<1> QED BY <1>3, <1>4

(* A sequence of one packet, and no packet.                                *)
LEMMA SpotsOfOne ==
  ASSUME NEW m, NEW s, NEW i
  PROVE  /\ ~Covers(m, s, i) => Spots(<<m>>, s, i) = {}
         /\ Covers(m, s, i) => /\ Num(<<m>>, s, i) = 1
                               /\ LatestIs(<<m>>, s, i, m.ships[i])
         /\ Spots(<<>>, s, i) = {}
<1>1. ~Covers(m, s, i) => Spots(<<m>>, s, i) = {}
  BY DEF Spots
<1>2. ASSUME Covers(m, s, i) PROVE Spots(<<m>>, s, i) = {1}
  BY <1>2 DEF Spots
<1>3. Covers(m, s, i) => Num(<<m>>, s, i) = 1
  BY <1>2, FS_Singleton DEF Num
<1>4. Covers(m, s, i) => LatestIs(<<m>>, s, i, m.ships[i])
  BY <1>2 DEF LatestIs
<1>5. Spots(<<>>, s, i) = {}
  BY DEF Spots
<1> QED BY <1>1, <1>3, <1>4, <1>5

(* The packets of an answer: one for every slot whose ship is sent back.   *)
LEMMA SpotsOfReply ==
  ASSUME FleetsOK, NEW p \in Party, NEW m \in FleetPacket,
         NEW walk \in InOrder(Notified(p, m)), NEW s \in Party, NEW i \in Slot
  PROVE  LET r == Reply(p, m, walk)
         IN  /\ s # m.side \/ i \notin Notified(p, m) => Spots(r, s, i) = {}
             /\ s = m.side /\ i \in Notified(p, m) =>
                  /\ Num(r, s, i) = 1
                  /\ LatestIs(r, s, i, Result(p, m)[i].ship)
<1> DEFINE r == Reply(p, m, walk)
<1>1. PICK n \in 0..NumSlots :
        /\ walk \in [1..n -> Notified(p, m)]
        /\ \A j, k \in 1..n : walk[j] = walk[k] => j = k
        /\ \A x \in Notified(p, m) : \E k \in 1..n : walk[k] = x
  BY WalkFacts, ResultFacts
<1>2. DOMAIN r = 1..n
  BY <1>1 DEF Reply
<1>3. ASSUME NEW k \in 1..n
      PROVE  /\ r[k] = SlotPacket(m.side, walk[k], Result(p, m)[walk[k]].ship)
             /\ Covers(r[k], s, i) <=> s = m.side /\ i = walk[k]
             /\ r[k].ships[walk[k]] = Result(p, m)[walk[k]].ship
  <2>1. r[k] = SlotPacket(m.side, walk[k], Result(p, m)[walk[k]].ship)
    BY <1>1 DEF Reply
  <2>2. \A a, j, x : /\ SlotPacket(a, j, x).type = "FLEET" /\ SlotPacket(a, j, x).side = a
                     /\ DOMAIN SlotPacket(a, j, x).ships = {j}
                     /\ SlotPacket(a, j, x).ships[j] = x
    BY DEF SlotPacket
  <2> QED BY <2>1, <2>2 DEF Covers
<1>4. \A k : k \in Spots(r, s, i) <=> k \in 1..n /\ s = m.side /\ i = walk[k]
  BY <1>2, <1>3 DEF Spots
<1>5. CASE s # m.side \/ i \notin Notified(p, m)
  <2>1. \A k \in 1..n : walk[k] \in Notified(p, m)
    BY <1>1
  <2> QED BY <1>4, <1>5, <2>1
<1>6. CASE s = m.side /\ i \in Notified(p, m)
  <2>1. PICK k \in 1..n : walk[k] = i
    BY <1>1, <1>6
  <2>2. Spots(r, s, i) = {k}
    BY <1>1, <1>4, <1>6, <2>1
  <2>3. Num(r, s, i) = 1
    BY <2>2, FS_Singleton DEF Num
  <2>4. LatestIs(r, s, i, Result(p, m)[i].ship)
    BY <1>3, <2>1, <2>2 DEF LatestIs
  <2> QED BY <1>6, <2>3, <2>4
<1> QED BY <1>5, <1>6

-----------------------------------------------------------------------------
(* What a step of p does to one slot. r is what p sends.                   *)

Takes(p) ==
  chan[Peer(p)] # <<>> /\ chan'[Peer(p)] = Tail(chan[Peer(p)])

TakesOther(p, s, i) ==
  \/ chan'[Peer(p)] = chan[Peer(p)]
  \/ Takes(p) /\ ~Covers(Head(chan[Peer(p)]), s, i)

(* The peer's own state does not change, and what was edited within a turn *)
(* is not forgotten.                                                       *)
Moves(p, r) ==
  /\ r \in Seq(Conf!Packet)
  /\ chan'[p] = chan[p] \o r
  /\ chan'[Peer(p)] = chan[Peer(p)] \/ Takes(p)
  /\ team'[Peer(p)] = team[Peer(p)] /\ sentTeam'[Peer(p)] = sentTeam[Peer(p)]
  /\ state'[Peer(p)] = state[Peer(p)] /\ canceling'[Peer(p)] = canceling[Peer(p)]
  /\ again \subseteq again'

SendsOne(r, s, i, v) == Num(r, s, i) = 1 /\ LatestIs(r, s, i, v)

LeavesSlot(p, r, s, i) ==
  /\ TakesOther(p, s, i)
  /\ Spots(r, s, i) = {}
  /\ team'[p][s][i] = team[p][s][i] /\ sentTeam'[p][s][i] = sentTeam[p][s][i]
  /\ state'[p] = "init" => state[p] = "init"
  /\ state[p] = "init" => state'[p] = "init" \/ p = s

OpensSlot(p, r, s, i) ==
  /\ TakesOther(p, s, i)
  /\ ~Open(p, s, i)
  /\ team'[p][s][i] \in Ship /\ sentTeam'[p][s][i] = team'[p][s][i]
  /\ SendsOne(r, s, i, team'[p][s][i])
  /\ state'[p] # "init"

EditsSlot(p, r, s, i) ==
  /\ <<s, i>> \in again' /\ Open(p, s, i)
  /\ chan'[Peer(p)] = chan[Peer(p)] /\ r = <<>>
  /\ sentTeam'[p][s][i] = sentTeam[p][s][i]
  /\ state'[p] = state[p]

HearsSlot(p, r, s, i) ==
  LET m == Head(chan[Peer(p)])
      x == RemoteChange(p, s, i, m.ships[i])
  IN  /\ Takes(p) /\ Covers(m, s, i) /\ m.ships[i] \in Ship
      /\ team'[p][s][i] = x.ship /\ sentTeam'[p][s][i] = x.sent
      /\ IF x.notify THEN SendsOne(r, s, i, x.ship) ELSE Spots(r, s, i) = {}
      /\ state[p] = "inSetup" /\ state'[p] = "inSetup"

SlotStep(p, r, s, i) ==
  \/ LeavesSlot(p, r, s, i)
  \/ OpensSlot(p, r, s, i)
  \/ EditsSlot(p, r, s, i)
  \/ HearsSlot(p, r, s, i)

(* The four outcomes of Melee_RemoteChange_ship.                           *)
LEMMA HearsCases ==
  ASSUME FleetsOK, NEW p \in Party, NEW s \in Party, NEW i \in Slot, NEW r,
         HearsSlot(p, r, s, i)
  PROVE  LET v == Head(chan[Peer(p)]).ships[i]
         IN  \/ /\ ~Open(p, s, i) /\ team'[p][s][i] = v /\ sentTeam'[p][s][i] = Unset
                /\ SendsOne(r, s, i, v)
             \/ /\ Open(p, s, i) /\ p # s
                /\ team'[p][s][i] = v /\ sentTeam'[p][s][i] = Unset
                /\ Spots(r, s, i) = {}
             \/ /\ Open(p, s, i) /\ team[p][s][i] # sentTeam[p][s][i]
                /\ team'[p][s][i] = team[p][s][i]
                /\ sentTeam'[p][s][i] = v /\ v # Unset
                /\ SendsOne(r, s, i, team[p][s][i])
             \/ /\ Open(p, s, i) /\ team[p][s][i] = sentTeam[p][s][i]
                /\ p = s \/ v = team[p][s][i]
                /\ team'[p][s][i] = team[p][s][i] /\ sentTeam'[p][s][i] = Unset
                /\ Spots(r, s, i) = {}
<1> DEFINE v == Head(chan[Peer(p)]).ships[i]
           x == RemoteChange(p, s, i, v)
<1>1. /\ team'[p][s][i] = x.ship /\ sentTeam'[p][s][i] = x.sent
      /\ x.notify => SendsOne(r, s, i, x.ship)
      /\ ~x.notify => Spots(r, s, i) = {}
      /\ v \in Ship
  BY DEF HearsSlot
<1>2. v # Unset
  BY <1>1, SetupAssumption
<1>3. CASE sentTeam[p][s][i] = Unset
  <2>1. x = [ship |-> v, sent |-> Unset, notify |-> TRUE]
    BY <1>3 DEF RemoteChange
  <2>2. x.ship = v /\ x.sent = Unset /\ x.notify
    BY <2>1
  <2> QED BY <1>1, <1>3, <2>2 DEF Open
<1>4. CASE sentTeam[p][s][i] # Unset /\ v # sentTeam[p][s][i] /\ p # s
  <2>1. x = [ship |-> v, sent |-> Unset, notify |-> FALSE]
    BY <1>4 DEF RemoteChange
  <2>2. x.ship = v /\ x.sent = Unset /\ ~x.notify
    BY <2>1
  <2> QED BY <1>1, <1>4, <2>2 DEF Open
<1>5. CASE /\ sentTeam[p][s][i] # Unset /\ ~(v # sentTeam[p][s][i] /\ p # s)
           /\ team[p][s][i] # sentTeam[p][s][i]
  <2>1. x = [ship |-> team[p][s][i], sent |-> v, notify |-> TRUE]
    BY <1>5 DEF RemoteChange
  <2>2. x.ship = team[p][s][i] /\ x.sent = v /\ x.notify
    BY <2>1
  <2> QED BY <1>1, <1>2, <1>5, <2>2 DEF Open
<1>6. CASE /\ sentTeam[p][s][i] # Unset /\ ~(v # sentTeam[p][s][i] /\ p # s)
           /\ team[p][s][i] = sentTeam[p][s][i]
  <2>1. x = [ship |-> team[p][s][i], sent |-> Unset, notify |-> FALSE]
    BY <1>6 DEF RemoteChange
  <2>2. x.ship = team[p][s][i] /\ x.sent = Unset /\ ~x.notify
    BY <2>1
  <2> QED BY <1>1, <1>6, <2>2 DEF Open
<1> QED BY <1>3, <1>4, <1>5, <1>6

(* How a step changes the counts of the two channels.                      *)
LEMMA NumStep ==
  ASSUME Conf!TypeOK, NEW p \in Party, NEW r, Moves(p, r), NEW s, NEW i
  PROVE  /\ Num(chan[p], s, i) \in Nat /\ Num(chan[Peer(p)], s, i) \in Nat
         /\ Num(r, s, i) \in Nat
         /\ Spots(r, s, i) = {} => Num(r, s, i) = 0
         /\ Num(chan'[p], s, i) = Num(chan[p], s, i) + Num(r, s, i)
         /\ TakesOther(p, s, i) =>
              Num(chan'[Peer(p)], s, i) = Num(chan[Peer(p)], s, i)
         /\ Takes(p) /\ Covers(Head(chan[Peer(p)]), s, i) =>
              Num(chan'[Peer(p)], s, i) = Num(chan[Peer(p)], s, i) - 1
<1> DEFINE q == Peer(p)
<1>1. chan[p] \in Seq(Conf!Packet) /\ chan[q] \in Seq(Conf!Packet) /\ r \in Seq(Conf!Packet)
      /\ chan'[p] = chan[p] \o r
  BY ChannelType DEF Moves
<1>2. Num(chan[p], s, i) \in Nat /\ Num(chan[q], s, i) \in Nat /\ Num(r, s, i) \in Nat
      /\ (Spots(r, s, i) = {} => Num(r, s, i) = 0)
  BY <1>1, SpotsFacts
<1>3. Num(chan'[p], s, i) = Num(chan[p], s, i) + Num(r, s, i)
  BY <1>1, NumOfConcat
<1>4. ASSUME Takes(p)
      PROVE  /\ Num(chan'[q], s, i) \in Nat
             /\ Covers(Head(chan[q]), s, i) =>
                  Num(chan[q], s, i) = Num(chan'[q], s, i) + 1
             /\ ~Covers(Head(chan[q]), s, i) =>
                  Num(chan[q], s, i) = Num(chan'[q], s, i)
  <2>1. chan[q] # <<>> /\ chan'[q] = Tail(chan[q])
    BY <1>4 DEF Takes
  <2>2. Tail(chan[q]) \in Seq(Conf!Packet)
    BY <1>1, <2>1, SpotsOfTail
  <2>3. Num(Tail(chan[q]), s, i) \in Nat
    BY <2>2, SpotsFacts
  <2> QED BY <1>1, <2>1, <2>3, NumOfTail
<1>5. TakesOther(p, s, i) => Num(chan'[q], s, i) = Num(chan[q], s, i)
  BY <1>4 DEF TakesOther
<1>6. Takes(p) /\ Covers(Head(chan[q]), s, i) =>
        Num(chan'[q], s, i) = Num(chan[q], s, i) - 1
  BY <1>4
<1> QED BY <1>2, <1>3, <1>5, <1>6

LEMMA CountStep ==
  ASSUME NEW p \in Party, NEW r, Moves(p, r), NEW s \in Party, NEW i \in Slot
  PROVE  /\ OpenCount(p, s, i) \in Nat /\ OpenCount(Peer(p), s, i) \in Nat
         /\ Open(p, s, i) => OpenCount(p, s, i) = 1
         /\ ~Open(p, s, i) => OpenCount(p, s, i) = 0
         /\ sentTeam'[p][s][i] # Unset => OpenCount(p, s, i)' = 1
         /\ sentTeam'[p][s][i] = Unset => OpenCount(p, s, i)' = 0
         /\ OpenCount(Peer(p), s, i)' = OpenCount(Peer(p), s, i)
BY DEF OpenCount, Open, Moves

(* The arithmetic of the balance: a, b packets and c, d open turns.        *)
LEMMA BalanceSums ==
  ASSUME NEW a \in Nat, NEW b \in Nat, NEW c \in Nat, NEW d \in Nat, a + b = c + d,
         NEW n \in Nat, NEW a2, NEW b2, NEW c2, a2 = a + n,
         \/ n = 0 /\ b2 = b /\ c2 = c
         \/ n = 1 /\ b2 = b /\ c = 0 /\ c2 = 1
         \/ n = 1 /\ b2 = b - 1 /\ c2 = c
         \/ n = 0 /\ b2 = b - 1 /\ c = 1 /\ c2 = 0
  PROVE  a2 + b2 = c2 + d /\ b2 + a2 = d + c2
OBVIOUS

LEMMA BalancedStep ==
  ASSUME Conf!TypeOK, FleetsOK, NEW p \in Party, NEW r, Moves(p, r),
         NEW s \in Party, NEW i \in Slot, Balanced(s, i), SlotStep(p, r, s, i)
  PROVE  Balanced(s, i)'
<1> DEFINE q == Peer(p)
           np == Num(chan[p], s, i)
           nq == Num(chan[q], s, i)
           nr == Num(r, s, i)
           op == OpenCount(p, s, i)
           oq == OpenCount(q, s, i)
           np2 == Num(chan'[p], s, i)
           nq2 == Num(chan'[q], s, i)
           op2 == OpenCount(p, s, i)'
<1>1. np \in Nat /\ nq \in Nat /\ nr \in Nat /\ op \in Nat /\ oq \in Nat
  BY NumStep, CountStep
<1>2. np2 = np + nr /\ np + nq = op + oq /\ OpenCount(q, s, i)' = oq
  BY NumStep, CountStep DEF Balanced
<1>3. \/ nr = 0 /\ nq2 = nq /\ op2 = op
      \/ nr = 1 /\ nq2 = nq /\ op = 0 /\ op2 = 1
      \/ nr = 1 /\ nq2 = nq - 1 /\ op2 = op
      \/ nr = 0 /\ nq2 = nq - 1 /\ op = 1 /\ op2 = 0
  <2>1. CASE LeavesSlot(p, r, s, i)
    <3>1. nr = 0 /\ nq2 = nq
      BY <2>1, NumStep DEF LeavesSlot
    <3>2. op2 = op
      BY <2>1 DEF LeavesSlot, OpenCount, Open
    <3> QED BY <3>1, <3>2
  <2>2. CASE OpensSlot(p, r, s, i)
    <3>1. nr = 1 /\ nq2 = nq
      BY <2>2, NumStep DEF OpensSlot, SendsOne
    <3>2. sentTeam'[p][s][i] # Unset /\ ~Open(p, s, i)
      BY <2>2, SetupAssumption DEF OpensSlot
    <3> QED BY <3>1, <3>2, CountStep
  <2>3. CASE EditsSlot(p, r, s, i)
    <3>1. TakesOther(p, s, i) /\ Spots(r, s, i) = {}
      BY <2>3, SpotsOfOne DEF EditsSlot, TakesOther
    <3>2. nr = 0 /\ nq2 = nq
      BY <3>1, NumStep
    <3>3. op2 = op
      BY <2>3 DEF EditsSlot, OpenCount, Open
    <3> QED BY <3>2, <3>3
  <2>4. CASE HearsSlot(p, r, s, i)
    <3>1. nq2 = nq - 1
      BY <2>4, NumStep DEF HearsSlot
    <3>2. \/ nr = 1 /\ ~Open(p, s, i) /\ sentTeam'[p][s][i] = Unset
          \/ nr = 0 /\ Open(p, s, i) /\ sentTeam'[p][s][i] = Unset
          \/ nr = 1 /\ Open(p, s, i) /\ sentTeam'[p][s][i] # Unset
      BY <2>4, HearsCases, NumStep DEF SendsOne
    <3> QED BY <3>1, <3>2, CountStep
  <2> QED BY <2>1, <2>2, <2>3, <2>4 DEF SlotStep
<1>4. np2 + nq2 = op2 + oq /\ nq2 + np2 = oq + op2
  <2> HIDE DEF np, nq, nr, op, oq, np2, nq2, op2
  <2> QED BY <1>1, <1>2, <1>3, BalanceSums
<1> QED BY <1>2, <1>4, PeerFacts DEF Balanced

(* What the packets tell after a step that appends r to the channel of p.  *)
LEMMA LatestStep ==
  ASSUME Conf!TypeOK, NEW p \in Party, NEW r, Moves(p, r), NEW s, NEW i, NEW v
  PROVE  /\ LatestIs(chan[p], s, i, v) /\ Spots(r, s, i) = {} =>
              LatestIs(chan'[p], s, i, v)
         /\ SendsOne(r, s, i, v) => LatestIs(chan'[p], s, i, v)
         /\ LatestIs(chan[Peer(p)], s, i, v) => LatestIs(chan'[Peer(p)], s, i, v)
         /\ Spots(chan'[p], s, i) = {} =>
              Spots(chan[p], s, i) = {} /\ Spots(r, s, i) = {}
         /\ SendsOne(r, s, i, v) => Spots(chan'[p], s, i) # {}
         /\ (/\ LatestIs(chan[Peer(p)], s, i, v)
             /\ Takes(p) /\ Covers(Head(chan[Peer(p)]), s, i)
             /\ Spots(chan'[Peer(p)], s, i) = {})
               => Head(chan[Peer(p)]).ships[i] = v
         /\ TakesOther(p, s, i) /\ Spots(chan'[Peer(p)], s, i) = {} =>
              Spots(chan[Peer(p)], s, i) = {}
<1> DEFINE q == Peer(p)
<1>1. chan[p] \in Seq(Conf!Packet) /\ chan[q] \in Seq(Conf!Packet) /\ r \in Seq(Conf!Packet)
      /\ chan'[p] = chan[p] \o r
  BY ChannelType DEF Moves
<1>2. SendsOne(r, s, i, v) => Spots(r, s, i) # {} /\ LatestIs(r, s, i, v)
  <2>1. Num(r, s, i) = 0 <=> Spots(r, s, i) = {}
    BY <1>1, SpotsFacts
  <2> QED BY <2>1 DEF SendsOne
<1>3. /\ LatestIs(chan[p], s, i, v) /\ Spots(r, s, i) = {} => LatestIs(chan'[p], s, i, v)
      /\ SendsOne(r, s, i, v) => LatestIs(chan'[p], s, i, v)
  BY <1>1, <1>2, LatestOfConcat
<1>4. Spots(chan'[p], s, i) = {} => Spots(chan[p], s, i) = {} /\ Spots(r, s, i) = {}
  <2>1. /\ \A k \in Spots(chan[p], s, i) : k \in Spots(chan'[p], s, i)
        /\ \A k \in Spots(r, s, i) : k + Len(chan[p]) \in Spots(chan'[p], s, i)
    BY <1>1, SpotsOfConcat
  <2> QED BY <2>1
<1>5. ASSUME Takes(p)
      PROVE  /\ LatestIs(chan[q], s, i, v) =>
                  /\ LatestIs(chan'[q], s, i, v)
                  /\ Covers(Head(chan[q]), s, i) /\ Spots(chan'[q], s, i) = {} =>
                       Head(chan[q]).ships[i] = v
             /\ ~Covers(Head(chan[q]), s, i) /\ Spots(chan'[q], s, i) = {} =>
                  Spots(chan[q], s, i) = {}
  <2>1. chan[q] # <<>> /\ chan'[q] = Tail(chan[q])
    BY <1>5 DEF Takes
  <2>2. LatestIs(chan[q], s, i, v) =>
          /\ LatestIs(chan'[q], s, i, v)
          /\ Covers(Head(chan[q]), s, i) /\ Spots(chan'[q], s, i) = {} =>
               Head(chan[q]).ships[i] = v
    BY <1>1, <2>1, LatestOfTail
  <2>3. ASSUME ~Covers(Head(chan[q]), s, i), Spots(chan'[q], s, i) = {}
        PROVE  Spots(chan[q], s, i) = {}
    <3>1. 1 \notin Spots(chan[q], s, i)
      BY <1>1, <2>1, <2>3, SpotsOfTail
    <3>2. \A k \in Spots(chan[q], s, i) : k = 1
      BY <1>1, <2>1, <2>3, SpotsOfTail
    <3> QED BY <3>1, <3>2
  <2> QED BY <2>2, <2>3
<1>6. LatestIs(chan[q], s, i, v) => LatestIs(chan'[q], s, i, v)
  BY <1>5 DEF Moves
<1>7. TakesOther(p, s, i) /\ Spots(chan'[q], s, i) = {} => Spots(chan[q], s, i) = {}
  BY <1>5 DEF TakesOther
<1> QED BY <1>2, <1>3, <1>4, <1>5, <1>6, <1>7

LEMMA ShipsFollowStep ==
  ASSUME Conf!TypeOK, FleetsOK, NEW p \in Party, NEW r, Moves(p, r),
         NEW s \in Party, NEW i \in Slot, <<s, i>> \notin again',
         ShipsFollow(s, i), SlotStep(p, r, s, i)
  PROVE  ShipsFollow(s, i)'
<1> DEFINE q == Peer(p)
           v == Head(chan[q]).ships[i]
<1>1. q \in Party /\ q # p /\ Peer(q) = p /\ \A x \in Party : x = p \/ x = q
  BY PeerFacts
<1>2. /\ team'[q][s][i] = team[q][s][i] /\ sentTeam'[q][s][i] = sentTeam[q][s][i]
      /\ state'[q] = state[q]
  BY DEF Moves
<1>3. \A x \in Party : Open(x, s, i) => sentTeam[x][s][i] = team[x][s][i]
  BY DEF ShipsFollow
<1>4. \/ LeavesSlot(p, r, s, i)
      \/ OpensSlot(p, r, s, i)
      \/ Takes(p) /\ Covers(Head(chan[q]), s, i) /\ state[p] = "inSetup"
         /\ \/ /\ team'[p][s][i] = v /\ sentTeam'[p][s][i] = Unset
               /\ SendsOne(r, s, i, v)
            \/ /\ p # s
               /\ team'[p][s][i] = v /\ sentTeam'[p][s][i] = Unset
               /\ Spots(r, s, i) = {}
            \/ /\ p = s
               /\ team'[p][s][i] = team[p][s][i] /\ sentTeam'[p][s][i] = Unset
               /\ Spots(r, s, i) = {}
  <2>1. CASE HearsSlot(p, r, s, i)
    <3>1. Takes(p) /\ Covers(Head(chan[q]), s, i) /\ state[p] = "inSetup"
      BY <2>1 DEF HearsSlot
    <3> QED BY <1>3, <2>1, <3>1, HearsCases
  <2> QED BY <2>1 DEF SlotStep, EditsSlot
<1>5. \A x \in Party : Open(x, s, i)' => sentTeam'[x][s][i] = team'[x][s][i]
  <2>1. Open(q, s, i)' => sentTeam'[q][s][i] = team'[q][s][i]
    BY <1>1, <1>2, <1>3 DEF Open
  <2>2. Open(p, s, i)' => sentTeam'[p][s][i] = team'[p][s][i]
    BY <1>3, <1>4 DEF Open, LeavesSlot, OpensSlot
  <2> QED BY <1>1, <2>1, <2>2
<1>6. LatestIs(chan'[s], s, i, team'[s][s][i])
  <2>1. LatestIs(chan[s], s, i, team[s][s][i])
    BY DEF ShipsFollow
  <2>2. CASE s = p
    <3>1. CASE Spots(r, s, i) = {} /\ team'[p][s][i] = team[p][s][i]
      BY <2>1, <2>2, <3>1, LatestStep
    <3>2. CASE SendsOne(r, s, i, team'[p][s][i])
      BY <2>2, <3>2, LatestStep
    <3> QED BY <1>4, <2>2, <3>1, <3>2 DEF LeavesSlot, OpensSlot
  <2>3. CASE s = q
    BY <1>2, <2>1, <2>3, LatestStep
  <2> QED BY <1>1, <2>2, <2>3
<1>7. ASSUME state'[Peer(s)] # "init", ~Open(Peer(s), s, i)', Spots(chan'[s], s, i) = {}
      PROVE  team'[Peer(s)][s][i] = team'[s][s][i]
  <2>1. state[Peer(s)] # "init" /\ ~Open(Peer(s), s, i) /\ Spots(chan[s], s, i) = {} =>
          team[Peer(s)][s][i] = team[s][s][i]
    BY DEF ShipsFollow
  <2>2. CASE s = p
    <3>1. state[q] # "init" /\ ~Open(q, s, i)
      BY <1>2, <1>7, <2>2 DEF Open
    <3>2. Spots(chan[s], s, i) = {} /\ Spots(r, s, i) = {}
      BY <1>7, <2>2, LatestStep
    <3>3. \A w : ~SendsOne(r, s, i, w)
      BY <1>7, <2>2, LatestStep
    <3>4. team'[p][s][i] = team[p][s][i]
      BY <1>4, <2>2, <3>3 DEF LeavesSlot, OpensSlot
    <3> QED BY <1>2, <2>1, <2>2, <3>1, <3>2, <3>4
  <2>3. CASE s = q
    <3>1. Peer(s) = p /\ s # p /\ LatestIs(chan[s], s, i, team[s][s][i])
      BY <1>1, <2>3 DEF ShipsFollow
    <3>2. CASE LeavesSlot(p, r, s, i)
      <4>1. state[p] # "init"
        BY <1>7, <3>1, <3>2 DEF LeavesSlot
      <4>2. ~Open(p, s, i) /\ team'[p][s][i] = team[p][s][i]
        BY <1>7, <3>1, <3>2 DEF LeavesSlot, Open
      <4>3. Spots(chan[s], s, i) = {}
        BY <1>7, <2>3, <3>2, LatestStep DEF LeavesSlot
      <4> QED BY <1>2, <2>1, <2>3, <3>1, <4>1, <4>2, <4>3
    <3>3. CASE OpensSlot(p, r, s, i)
      BY <1>7, <3>1, <3>3, SetupAssumption DEF OpensSlot, Open
    <3>4. CASE Takes(p) /\ Covers(Head(chan[q]), s, i) /\ team'[p][s][i] = v
      <4>1. v = team[s][s][i]
        BY <1>7, <2>3, <3>1, <3>4, LatestStep
      <4> QED BY <1>2, <2>3, <3>1, <3>4, <4>1
    <3> QED BY <1>4, <3>1, <3>2, <3>3, <3>4
  <2> QED BY <1>1, <2>2, <2>3
<1> QED BY <1>5, <1>6, <1>7 DEF ShipsFollow

Heard1(c) == \E j \in DOMAIN c : c[j].type = "HANDSHAKE1"

(* Answered is kept by a step of p that neither ends the cancelling of p   *)
(* with a HANDSHAKE1 still to come, nor sends a HANDSHAKE1 together with   *)
(* settings, nor takes settings with a HANDSHAKE1 on its way to a peer     *)
(* which is not cancelling.                                                *)
LEMMA AnsweredStep ==
  ASSUME Conf!TypeOK, FleetsOK, NEW p \in Party, NEW r, Moves(p, r),
         NEW s \in Party, NEW i \in Slot, SlotStep(p, r, s, i),
         Balanced(s, i), \A x \in Party : Answered(x, s, i),
         canceling[p] /\ ~canceling'[p] => ~Heard1(chan'[Peer(p)]),
         Heard1(r) => LeavesSlot(p, r, s, i),
         HearsSlot(p, r, s, i) /\ Heard1(chan[p]) => canceling[Peer(p)]
  PROVE  \A x \in Party : Answered(x, s, i)'
<1> DEFINE q == Peer(p)
<1>1. q \in Party /\ q # p /\ Peer(q) = p /\ \A x \in Party : x = p \/ x = q
  BY PeerFacts
<1>2. /\ chan[p] \in Seq(Conf!Packet) /\ chan[q] \in Seq(Conf!Packet) /\ r \in Seq(Conf!Packet)
      /\ chan'[p] = chan[p] \o r /\ (chan'[q] = chan[q] \/ Takes(p))
      /\ canceling'[q] = canceling[q] /\ sentTeam'[q] = sentTeam[q]
  BY ChannelType DEF Moves
<1>3. /\ Len(chan[p]) \in Nat /\ Len(r) \in Nat /\ Len(chan'[p]) = Len(chan[p]) + Len(r)
      /\ DOMAIN chan[p] = 1..Len(chan[p]) /\ DOMAIN r = 1..Len(r)
      /\ DOMAIN chan'[p] = 1..Len(chan'[p])
      /\ \A k \in 1..Len(chan'[p]) :
           chan'[p][k] = IF k <= Len(chan[p]) THEN chan[p][k] ELSE r[k - Len(chan[p])]
  BY <1>2, ConcatProperties
<1>4. /\ \A k \in Spots(chan[p], s, i) : k \in Spots(chan'[p], s, i) /\ k \in 1..Len(chan[p])
      /\ Spots(r, s, i) # {} => Spots(chan'[p], s, i) # {}
  <2>1. \A k \in Spots(chan[p], s, i) : k \in Spots(chan'[p], s, i) /\ k \in 1..Len(chan[p])
    BY <1>2, SpotsOfConcat
  <2>2. \A k \in Spots(r, s, i) : k + Len(chan[p]) \in Spots(chan'[p], s, i)
    BY <1>2, SpotsOfConcat
  <2> QED BY <2>1, <2>2
<1>5. \A w : SendsOne(r, s, i, w) => Spots(r, s, i) # {}
  <2>1. Num(r, s, i) = 0 <=> Spots(r, s, i) = {}
    BY <1>2, SpotsFacts
  <2> QED BY <2>1 DEF SendsOne
<1>6. Answered(p, s, i)'
  <2> SUFFICES ASSUME NEW j \in DOMAIN chan'[q], chan'[q][j].type = "HANDSHAKE1",
                      Open(p, s, i)', ~canceling'[p]
               PROVE  \/ Spots(chan'[p], s, i) # {}
                      \/ \E k \in Spots(chan'[q], s, i) : k < j
    BY DEF Answered
  <2>1. ~canceling[p]
    BY DEF Heard1
  <2>2. CASE Spots(r, s, i) # {}
    BY <1>4, <2>2
  <2>3. CASE Spots(r, s, i) = {}
    <3>1. Open(p, s, i) /\ TakesOther(p, s, i)
      <4>1. CASE HearsSlot(p, r, s, i)
        BY <1>5, <2>3, <4>1, HearsCases DEF Open
      <4>2. CASE ~HearsSlot(p, r, s, i)
        BY <1>5, <2>3, <4>2
           DEF SlotStep, LeavesSlot, OpensSlot, EditsSlot, TakesOther, Open
      <4> QED BY <4>1, <4>2
    <3>2. CASE chan'[q] = chan[q]
      <4>1. Spots(chan[p], s, i) # {} \/ \E k \in Spots(chan[q], s, i) : k < j
        BY <2>1, <3>1, <3>2 DEF Answered
      <4> QED BY <1>4, <3>2, <4>1
    <3>3. CASE Takes(p) /\ ~Covers(Head(chan[q]), s, i)
      <4>1. chan[q] # <<>> /\ chan'[q] = Tail(chan[q])
        BY <3>3 DEF Takes
      <4>2. j \in Nat /\ j + 1 \in DOMAIN chan[q] /\ chan[q][j + 1].type = "HANDSHAKE1"
        BY <1>2, <4>1
      <4>3. Spots(chan[p], s, i) # {} \/ \E k \in Spots(chan[q], s, i) : k < j + 1
        BY <2>1, <3>1, <4>2 DEF Answered
      <4>4. ASSUME NEW k \in Spots(chan[q], s, i), k < j + 1
            PROVE  \E l \in Spots(chan'[q], s, i) : l < j
        <5>1. k # 1
          BY <1>2, <3>3, <4>1, SpotsOfTail
        <5>2. k - 1 \in Spots(chan'[q], s, i)
          BY <1>2, <4>1, <5>1, SpotsOfTail
        <5>3. k \in 1..Len(chan[q])
          BY <1>2, SpotsFacts
        <5>4. k - 1 < j
          BY <4>2, <4>4, <5>3
        <5> QED BY <5>2, <5>4
      <4> QED BY <1>4, <4>3, <4>4
    <3> QED BY <3>1, <3>2, <3>3 DEF TakesOther
  <2> QED BY <2>2, <2>3
<1>7. Answered(q, s, i)'
  <2> SUFFICES ASSUME NEW j \in DOMAIN chan'[p], chan'[p][j].type = "HANDSHAKE1",
                      Open(q, s, i), ~canceling[q]
               PROVE  \/ Spots(chan'[q], s, i) # {}
                      \/ \E k \in Spots(chan'[p], s, i) : k < j
    BY <1>1, <1>2 DEF Answered, Open
  <2>1. ASSUME TakesOther(p, s, i), Spots(chan[q], s, i) # {}
        PROVE  Spots(chan'[q], s, i) # {}
    BY <2>1, LatestStep
  <2>2. CASE j <= Len(chan[p])
    <3>1. j \in DOMAIN chan[p] /\ chan[p][j].type = "HANDSHAKE1" /\ Heard1(chan[p])
      BY <1>3, <2>2 DEF Heard1
    <3>2. TakesOther(p, s, i)
      BY <3>1 DEF SlotStep, LeavesSlot, OpensSlot, EditsSlot, TakesOther
    <3>3. Spots(chan[q], s, i) # {} \/ \E k \in Spots(chan[p], s, i) : k < j
      BY <1>1, <3>1 DEF Answered
    <3> QED BY <1>4, <2>1, <3>2, <3>3
  <2>3. CASE ~(j <= Len(chan[p]))
    <3>1. j - Len(chan[p]) \in DOMAIN r /\ r[j - Len(chan[p])].type = "HANDSHAKE1"
      <4>1. j \in 1..Len(chan'[p]) /\ chan'[p][j] = r[j - Len(chan[p])]
        BY <1>3, <2>3
      <4>2. \A a, b \in Nat : \A k \in 1..(a + b) : ~(k <= a) => k - a \in 1..b
        OBVIOUS
      <4>3. j - Len(chan[p]) \in DOMAIN r
        BY <1>3, <2>3, <4>1, <4>2
      <4> QED BY <4>1, <4>3
    <3>2. LeavesSlot(p, r, s, i)
      BY <3>1 DEF Heard1
    <3>3. Num(chan[p], s, i) # 0 \/ Num(chan[q], s, i) # 0
      <4>1. OpenCount(q, s, i) = 1 /\ OpenCount(p, s, i) \in Nat
        BY DEF OpenCount
      <4>2. Num(chan[p], s, i) + Num(chan[q], s, i) = OpenCount(p, s, i) + OpenCount(q, s, i)
        BY DEF Balanced
      <4> QED BY <4>1, <4>2
    <3>4. Spots(chan[p], s, i) # {} \/ Spots(chan[q], s, i) # {}
      BY <1>2, <3>3, SpotsFacts
    <3>5. \A k \in Spots(chan[p], s, i) : k < j
      BY <1>3, <1>4, <2>3
    <3> QED BY <1>4, <2>1, <3>2, <3>4, <3>5 DEF LeavesSlot
  <2> QED BY <2>2, <2>3
<1> QED BY <1>1, <1>6, <1>7

LEMMA TurnStep ==
  ASSUME Conf!IInv, FleetsOK, NEW p \in Party, NEW r, Moves(p, r),
         NEW s \in Party, NEW i \in Slot, SlotStep(p, r, s, i), TurnInv(s, i),
         canceling[p] /\ ~canceling'[p] =>
           Takes(p) /\ Head(chan[Peer(p)]).type = "HANDSHAKECANCELACK",
         Heard1(r) => LeavesSlot(p, r, s, i)
  PROVE  TurnInv(s, i)'
<1> DEFINE q == Peer(p)
<1>1. q \in Party /\ q # p /\ Peer(q) = p /\ \A x \in Party : x = p \/ x = q
  BY PeerFacts
<1>2. Conf!TypeOK
  BY DEF Conf!IInv
<1>3. \A c : Heard1(c) <=> Conf!Has(c, "HANDSHAKE1")
  BY DEF Heard1, Conf!Has
<1>4. canceling[p] /\ ~canceling'[p] => ~Heard1(chan'[q])
  <2> SUFFICES ASSUME canceling[p], ~canceling'[p] PROVE ~Heard1(chan'[q])
    OBVIOUS
  <2>1. chan[q] # <<>> /\ chan'[q] = Tail(chan[q])
        /\ Head(chan[q]).type = "HANDSHAKECANCELACK"
    BY DEF Takes
  <2>2. ~Conf!Has(Tail(chan[q]), "HANDSHAKE1")
    BY <1>1, <2>1, ConfFits, Conf!AckIsLast
  <2> QED BY <1>3, <2>1, <2>2
<1>5. HearsSlot(p, r, s, i) /\ Heard1(chan[p]) => canceling[q]
  <2> SUFFICES ASSUME HearsSlot(p, r, s, i), Heard1(chan[p]), ~canceling[q] PROVE FALSE
    OBVIOUS
  <2>1. chan[q] # <<>> /\ Head(chan[q]).type = "FLEET"
    BY DEF HearsSlot, Takes, Covers
  <2>2. Conf!Has(chan[Conf!Peer(q)], "HANDSHAKE1")
    BY <1>1, <1>3, Same
  <2>3. ~Conf!Has(chan[q], "FLEET")
    BY <1>1, <2>2, ConfFits, Conf!SettingsBeforeStart DEF Conf!UpdateType
  <2>4. 1 \in DOMAIN chan[q] /\ chan[q][1].type = "FLEET"
    BY <1>1, <1>2, <2>1, ChannelType
  <2> QED BY <2>3, <2>4 DEF Conf!Has
<1>6. NoTurnInInit(s, i)'
  <2>1. state'[q] = "init" => ~Open(q, s, i)'
    BY <1>1 DEF TurnInv, NoTurnInInit, Moves, Open
  <2>2. state'[p] = "init" => ~Open(p, s, i)'
    BY DEF TurnInv, NoTurnInInit, SlotStep, LeavesSlot, OpensSlot, EditsSlot, HearsSlot, Open
  <2> QED BY <1>1, <2>1, <2>2 DEF NoTurnInInit
<1>7. Balanced(s, i)'
  BY <1>2, BalancedStep DEF TurnInv
<1>8. \A x \in Party : Answered(x, s, i)'
  BY <1>2, <1>4, <1>5, AnsweredStep DEF TurnInv
<1>9. <<s, i>> \notin again' => ShipsFollow(s, i)'
  BY <1>2, ShipsFollowStep DEF TurnInv, Moves
<1> QED BY <1>6, <1>7, <1>8, <1>9 DEF TurnInv

-----------------------------------------------------------------------------
(* Every action as a step of one side p.                                   *)

StepOf(p, r) ==
  /\ Moves(p, r)
  /\ \A s \in Party, i \in Slot : SlotStep(p, r, s, i)
  /\ Heard1(r) => \A s \in Party, i \in Slot : LeavesSlot(p, r, s, i)
  /\ canceling[p] /\ ~canceling'[p] =>
       Takes(p) /\ Head(chan[Peer(p)]).type = "HANDSHAKECANCELACK"

(* A step with packets of the negotiation only.                            *)
LEMMA ControlStep ==
  ASSUME Conf!TypeOK, NEW p \in Party, NEW r \in Seq(Conf!Packet),
         r = <<>> \/ \E t \in Conf!ControlType : r = Conf!Just(t),
         chan'[p] = chan[p] \o r,
         \/ chan'[Peer(p)] = chan[Peer(p)]
         \/ Takes(p) /\ Head(chan[Peer(p)]).type # "FLEET",
         UNCHANGED teamVars,
         state'[Peer(p)] = state[Peer(p)], canceling'[Peer(p)] = canceling[Peer(p)],
         state'[p] = "init" <=> state[p] = "init",
         canceling[p] /\ ~canceling'[p] =>
           Takes(p) /\ Head(chan[Peer(p)]).type = "HANDSHAKECANCELACK"
  PROVE  StepOf(p, r)
<1>1. \A s, i : Spots(r, s, i) = {}
  <2>1. \A k \in DOMAIN r : r[k].type # "FLEET"
    BY DEF Conf!Just, Conf!ControlType
  <2> QED BY <2>1 DEF Spots, Covers
<1>2. Moves(p, r)
  BY DEF Moves, teamVars
<1>3. \A s, i : TakesOther(p, s, i)
  BY DEF TakesOther, Covers
<1>4. \A s \in Party, i \in Slot : LeavesSlot(p, r, s, i)
  BY <1>1, <1>3 DEF LeavesSlot, teamVars
<1> QED BY <1>2, <1>4 DEF StepOf, SlotStep

(* The packets of the negotiation that p sends.                            *)
LEMMA ControlPackets ==
  ASSUME NEW p \in Party
  PROVE  \A r \in {<<>>, Conf!CancelPacket(p), Conf!ConfirmPacket(p),
                   Conf!Handshake0Answer(p), Conf!Handshake1Answer(p),
                   Conf!CancelAckAnswer(p), Conf!Just("HANDSHAKECANCELACK")} :
           /\ r \in Seq(Conf!Packet)
           /\ r = <<>> \/ \E t \in Conf!ControlType : r = Conf!Just(t)
<1> DEFINE Quiet(r) == r = <<>> \/ \E t \in Conf!ControlType : r = Conf!Just(t)
<1>1. /\ Quiet(<<>>) /\ Quiet(Conf!Just("HANDSHAKE0")) /\ Quiet(Conf!Just("HANDSHAKE1"))
      /\ Quiet(Conf!Just("HANDSHAKECANCEL")) /\ Quiet(Conf!Just("HANDSHAKECANCELACK"))
  BY DEF Conf!ControlType
<1>2. /\ Quiet(Conf!CancelPacket(p)) /\ Quiet(Conf!ConfirmPacket(p))
      /\ Quiet(Conf!Handshake0Answer(p)) /\ Quiet(Conf!Handshake1Answer(p))
      /\ Quiet(Conf!CancelAckAnswer(p))
  <2> HIDE DEF Quiet
  <2> QED BY <1>1 DEF Conf!CancelPacket, Conf!ConfirmPacket, Conf!Handshake0Answer,
                      Conf!Handshake1Answer, Conf!CancelAckAnswer
<1>3. /\ <<>> \in Seq(Conf!Packet)
      /\ Conf!Just("HANDSHAKECANCELACK") \in Seq(Conf!Packet)
      /\ Conf!CancelPacket(p) \in Seq(Conf!Packet)
      /\ Conf!ConfirmPacket(p) \in Seq(Conf!Packet)
      /\ Conf!Handshake0Answer(p) \in Seq(Conf!Packet)
      /\ Conf!Handshake1Answer(p) \in Seq(Conf!Packet)
      /\ Conf!CancelAckAnswer(p) \in Seq(Conf!Packet)
  BY ConfFits, Conf!PacketsAreSeq
<1> QED BY <1>1, <1>2, <1>3

LEMMA SendMoves ==
  ASSUME Conf!TypeOK, NEW p \in Party, NEW r \in Seq(Conf!Packet), Conf!Send(p, r)
  PROVE  chan'[p] = chan[p] \o r /\ chan'[Peer(p)] = chan[Peer(p)]
<1>1. chan \in [Party -> Seq(Conf!Packet)]
  BY DEF Conf!TypeOK
<1>2. chan'[p] = chan[p] \o r /\ chan'[Conf!Peer(p)] = chan[Conf!Peer(p)]
  BY <1>1, ConfFits, Conf!SendEffect
<1> QED BY <1>2, Same

LEMMA AnswerMoves ==
  ASSUME Conf!TypeOK, NEW p \in Party, NEW r \in Seq(Conf!Packet),
         chan[Peer(p)] # <<>>, Conf!Answer(p, r)
  PROVE  chan'[p] = chan[p] \o r /\ Takes(p)
<1>1. chan \in [Party -> Seq(Conf!Packet)] /\ chan[Conf!Peer(p)] # <<>>
  BY Same DEF Conf!TypeOK
<1>2. chan'[p] = chan[p] \o r /\ chan'[Conf!Peer(p)] = Tail(chan[Conf!Peer(p)])
  BY <1>1, ConfFits, Conf!AnswerEffect
<1> QED BY <1>2, Same DEF Takes

LEMMA ConfirmIsStep ==
  ASSUME Conf!TypeOK, NEW p \in Party, Confirm(p)
  PROVE  StepOf(p, Conf!ConfirmPacket(p))
<1>1. Conf!Confirm(p) /\ UNCHANGED teamVars
  BY SameActions DEF Confirm
<1>2. Conf!Send(p, Conf!ConfirmPacket(p)) /\ UNCHANGED <<state, canceling>>
  BY <1>1 DEF Conf!Confirm
<1>3. /\ Conf!ConfirmPacket(p) \in Seq(Conf!Packet)
      /\ \/ Conf!ConfirmPacket(p) = <<>>
         \/ \E t \in Conf!ControlType : Conf!ConfirmPacket(p) = Conf!Just(t)
  BY ControlPackets
<1>4. chan'[p] = chan[p] \o Conf!ConfirmPacket(p) /\ chan'[Peer(p)] = chan[Peer(p)]
  BY <1>2, <1>3, SendMoves
<1> QED BY <1>1, <1>2, <1>3, <1>4, ControlStep

(* A handler of the negotiation that answers r.                            *)
LEMMA HandlerIsStep ==
  ASSUME Conf!TypeOK, NEW p \in Party,
         NEW t \in {"HANDSHAKE0", "HANDSHAKE1", "HANDSHAKECANCEL", "HANDSHAKECANCELACK"},
         Conf!Arrives(p, {t}),
         NEW r \in {<<>>, Conf!Handshake0Answer(p), Conf!Handshake1Answer(p),
                    Conf!CancelAckAnswer(p), Conf!Just("HANDSHAKECANCELACK")},
         Conf!Answer(p, r), UNCHANGED teamVars,
         state'[Peer(p)] = state[Peer(p)], canceling'[Peer(p)] = canceling[Peer(p)],
         state'[p] = "init" <=> state[p] = "init",
         canceling[p] /\ ~canceling'[p] => t = "HANDSHAKECANCELACK"
  PROVE  StepOf(p, r)
<1>1. chan[Peer(p)] # <<>> /\ Head(chan[Peer(p)]).type = t
  BY Same DEF Conf!Arrives, Conf!Incoming
<1>2. /\ r \in Seq(Conf!Packet)
      /\ r = <<>> \/ \E u \in Conf!ControlType : r = Conf!Just(u)
  BY ControlPackets
<1>3. chan'[p] = chan[p] \o r /\ Takes(p)
  BY <1>1, <1>2, AnswerMoves
<1> QED BY <1>1, <1>2, <1>3, ControlStep

(* A step that only closes the connection.                                 *)
LEMMA CloseIsStep ==
  ASSUME Conf!TypeOK, NEW p \in Party, UNCHANGED <<chan, state, canceling>>,
         UNCHANGED teamVars
  PROVE  StepOf(p, <<>>)
<1>1. chan'[p] = chan[p] \o <<>>
  BY ChannelType
<1>2. <<>> \in Seq(Conf!Packet)
  OBVIOUS
<1> QED BY <1>1, <1>2, ControlStep

LEMMA NegotiateIsStep ==
  ASSUME Conf!IInv, NEW p \in Party, Negotiate(p)
  PROVE  \E r : StepOf(p, r)
<1> DEFINE q == Peer(p)
<1>1. q \in Party /\ q # p
  BY PeerFacts
<1>2. Conf!TypeOK /\ UNCHANGED teamVars
  BY DEF Conf!IInv, Negotiate
<1>3. state \in [Party -> Conf!NetState] /\ canceling \in [Party -> BOOLEAN]
  BY <1>2 DEF Conf!TypeOK
<1>4. CASE Conf!Cancel(p)
  <2> DEFINE r == Conf!CancelPacket(p)
  <2>1. Conf!Send(p, r) /\ state' = state /\ canceling' = [canceling EXCEPT ![p] = TRUE]
    BY <1>4 DEF Conf!Cancel, Conf!CancelFlags
  <2>2. r \in Seq(Conf!Packet) /\ (r = <<>> \/ \E t \in Conf!ControlType : r = Conf!Just(t))
    BY ControlPackets
  <2>3. chan'[p] = chan[p] \o r /\ chan'[q] = chan[q]
    BY <1>2, <2>1, <2>2, SendMoves
  <2>4. canceling'[p] /\ canceling'[q] = canceling[q]
    BY <1>1, <1>3, <2>1
  <2> QED BY <1>2, <2>1, <2>2, <2>3, <2>4, ControlStep
<1>5. CASE Conf!HandleHandshake0(p)
  <2>1. /\ Conf!Arrives(p, {"HANDSHAKE0"}) /\ Conf!Answer(p, Conf!Handshake0Answer(p))
        /\ UNCHANGED <<state, canceling>>
    BY <1>5 DEF Conf!HandleHandshake0
  <2> QED BY <1>2, <2>1, HandlerIsStep
<1>6. CASE Conf!HandleHandshake1(p)
  <2>1. /\ Conf!Arrives(p, {"HANDSHAKE1"})
        /\ Conf!Answer(p, <<>>) \/ Conf!Answer(p, Conf!Handshake1Answer(p))
        /\ canceling' = canceling
        /\ state[p] = "inSetup"
        /\ state' = state \/ state' = [state EXCEPT ![p] = "preBattle"]
    BY <1>6 DEF Conf!HandleHandshake1, Conf!HandshakeMeaningful
  <2>2. state'[q] = state[q] /\ state'[p] # "init"
    BY <1>1, <1>3, <2>1
  <2> QED BY <1>2, <2>1, <2>2, HandlerIsStep
<1>7. CASE Conf!HandleHandshakeCancel(p)
  <2>1. /\ Conf!Arrives(p, {"HANDSHAKECANCEL"})
        /\ Conf!Answer(p, Conf!Just("HANDSHAKECANCELACK"))
        /\ UNCHANGED <<state, canceling>>
    BY <1>7 DEF Conf!HandleHandshakeCancel
  <2> QED BY <1>2, <2>1, HandlerIsStep
<1>8. CASE Conf!HandleHandshakeCancelAck(p)
  <2>1. /\ Conf!Arrives(p, {"HANDSHAKECANCELACK"})
        /\ Conf!Answer(p, Conf!CancelAckAnswer(p))
        /\ state' = state /\ canceling' = [canceling EXCEPT ![p] = FALSE]
    BY <1>8 DEF Conf!HandleHandshakeCancelAck
  <2>2. canceling'[q] = canceling[q]
    BY <1>1, <1>3, <2>1
  <2> QED BY <1>2, <2>1, <2>2, HandlerIsStep
<1>9. ~Conf!RefusePacket(p)
  <2> SUFFICES ASSUME Conf!RefusePacket(p) PROVE FALSE
    OBVIOUS
  <2>1. chan[Conf!Peer(p)] # <<>> /\ ~Conf!Acceptable(p, Conf!Incoming(p).type)
    BY DEF Conf!RefusePacket, Conf!Refusable
  <2> QED BY <2>1, ConfFits, Conf!HeadIsAcceptable
<1>10. CASE Conf!PeerClosed(p) \/ Conf!Disconnect(p)
  <2>1. UNCHANGED <<chan, state, canceling>>
    BY <1>10 DEF Conf!PeerClosed, Conf!Disconnect, Conf!Close
  <2> QED BY <1>2, <2>1, CloseIsStep
<1> QED BY <1>4, <1>5, <1>6, <1>7, <1>8, <1>9, <1>10, SameActions DEF Negotiate

LEMMA SlotChange ==
  ASSUME NEW T, NEW f \in [Party -> [Party -> [Slot -> T]]], NEW p \in Party,
         NEW s \in Party, NEW i \in Slot, NEW v
  PROVE  LET g == [f EXCEPT ![p][s][i] = v]
         IN  /\ g[p][s][i] = v
             /\ \A q \in Party : q # p => g[q] = f[q]
             /\ \A a \in Party, j \in Slot : a # s \/ j # i => g[p][a][j] = f[p][a][j]
OBVIOUS

LEMMA TeamChange ==
  ASSUME NEW T, NEW f \in [Party -> [Party -> T]], NEW p \in Party,
         NEW s \in Party, NEW v
  PROVE  LET g == [f EXCEPT ![p][s] = v]
         IN  /\ g[p][s] = v
             /\ \A q \in Party : q # p => g[q] = f[q]
             /\ \A a \in Party : a # s => g[p][a] = f[p][a]
OBVIOUS

LEMMA LocalChangeIsStep ==
  ASSUME Conf!TypeOK, FleetsOK, NEW p \in Party, LocalChange(p)
  PROVE  \E r : StepOf(p, r)
<1> DEFINE q == Peer(p)
<1>1. q \in Party /\ q # p
  BY PeerFacts
<1>2. PICK s0 \in Party, i0 \in Slot, ship \in Ship :
        /\ Puts(p, s0, i0, ship)
        /\ OpensTurn(p, s0, i0, ship) \/ EditsInTurn(p, s0, i0)
  BY LocalChangeIs
<1>3. /\ state[p] = "inSetup" /\ UNCHANGED <<state, canceling>>
      /\ team' = [team EXCEPT ![p][s0][i0] = ship]
  BY <1>2 DEF Puts
<1>4. /\ team'[p][s0][i0] = ship /\ team'[q] = team[q]
      /\ \A s \in Party, i \in Slot :
           s # s0 \/ i # i0 => team'[p][s][i] = team[p][s][i]
  <2>1. team \in [Party -> [Party -> [Slot -> Ship]]]
    BY DEF FleetsOK, Fleet
  <2> QED BY <1>1, <1>3, <2>1, SlotChange
<1>5. CASE OpensTurn(p, s0, i0, ship)
  <2> DEFINE m == SlotPacket(s0, i0, ship)
  <2>1. /\ ~Open(p, s0, i0) /\ Conf!Send(p, <<m>>)
        /\ sentTeam' = [sentTeam EXCEPT ![p][s0][i0] = ship] /\ again' = again
    BY <1>5 DEF OpensTurn
  <2>2. /\ sentTeam'[p][s0][i0] = ship /\ sentTeam'[q] = sentTeam[q]
        /\ \A s \in Party, i \in Slot :
             s # s0 \/ i # i0 => sentTeam'[p][s][i] = sentTeam[p][s][i]
    <3>1. sentTeam \in [Party -> [Party -> [Slot -> Ship \cup {Unset}]]]
      BY DEF FleetsOK
    <3> QED BY <1>1, <2>1, <3>1, SlotChange
  <2>3. m \in Conf!Packet /\ <<m>> \in Seq(Conf!Packet)
    BY PacketFacts DEF Conf!Packet
  <2>4. chan'[p] = chan[p] \o <<m>> /\ chan'[q] = chan[q]
    BY <2>1, <2>3, SendMoves
  <2>5. /\ \A s, i : Covers(m, s, i) <=> s = s0 /\ i = i0
        /\ m.ships[i0] = ship /\ m.type = "FLEET"
    BY DEF Covers, SlotPacket
  <2>6. Moves(p, <<m>>)
    BY <1>3, <1>4, <2>1, <2>2, <2>3, <2>4 DEF Moves
  <2>7. OpensSlot(p, <<m>>, s0, i0)
    <3>1. SendsOne(<<m>>, s0, i0, ship)
      BY <2>5, SpotsOfOne DEF SendsOne
    <3> QED BY <1>3, <1>4, <2>1, <2>2, <2>4, <3>1 DEF OpensSlot, TakesOther
  <2>8. ASSUME NEW s \in Party, NEW i \in Slot, s # s0 \/ i # i0
        PROVE  LeavesSlot(p, <<m>>, s, i)
    <3>1. Spots(<<m>>, s, i) = {}
      BY <2>5, <2>8, SpotsOfOne
    <3> QED BY <1>3, <1>4, <2>2, <2>4, <2>8, <3>1 DEF LeavesSlot, TakesOther
  <2>9. ~Heard1(<<m>>)
    BY <2>5 DEF Heard1
  <2>10. \A s \in Party, i \in Slot : SlotStep(p, <<m>>, s, i)
    BY <2>7, <2>8 DEF SlotStep
  <2>11. StepOf(p, <<m>>)
    BY <1>3, <2>6, <2>9, <2>10 DEF StepOf
  <2> QED BY <2>11
<1>6. CASE EditsInTurn(p, s0, i0)
  <2>1. /\ Open(p, s0, i0) /\ UNCHANGED <<chan, sentTeam>>
        /\ again' = again \cup {<<s0, i0>>}
    BY <1>6 DEF EditsInTurn
  <2>2. chan'[p] = chan[p] \o <<>> /\ <<>> \in Seq(Conf!Packet)
    BY <2>1, ChannelType
  <2>3. Moves(p, <<>>)
    BY <1>3, <1>4, <2>1, <2>2 DEF Moves
  <2>4. EditsSlot(p, <<>>, s0, i0)
    BY <1>3, <2>1 DEF EditsSlot
  <2>5. \A s, i : Spots(<<>>, s, i) = {}
    BY SpotsOfOne
  <2>6. \A s \in Party, i \in Slot : s # s0 \/ i # i0 => LeavesSlot(p, <<>>, s, i)
    BY <1>3, <1>4, <2>1, <2>5 DEF LeavesSlot, TakesOther
  <2>7. ~Heard1(<<>>)
    BY DEF Heard1
  <2>8. \A s \in Party, i \in Slot : SlotStep(p, <<>>, s, i)
    BY <2>4, <2>6 DEF SlotStep
  <2>9. StepOf(p, <<>>)
    BY <1>3, <2>3, <2>7, <2>8 DEF StepOf
  <2> QED BY <2>9
<1> QED BY <1>2, <1>5, <1>6

LEMMA HandleInitIsStep ==
  ASSUME Conf!TypeOK, FleetsOK, NEW p \in Party, HandleInit(p),
         \A s \in Party, i \in Slot : NoTurnInInit(s, i)
  PROVE  \E r : StepOf(p, r)
<1> DEFINE q == Peer(p)
           m == [type |-> "FLEET", side |-> q, ships |-> team[p][q]]
<1>1. q \in Party /\ q # p /\ \A s \in Party : s = p \/ s = q
  BY PeerFacts
<1>2. /\ m \in FleetPacket
      /\ chan[q] # <<>> /\ Head(chan[q]).type = "INIT"
      /\ state[p] = "init" /\ state' = [state EXCEPT ![p] = "inSetup"]
      /\ Conf!Answer(p, <<m>>)
      /\ sentTeam' = [sentTeam EXCEPT ![p][q] = team[p][q]]
      /\ UNCHANGED <<team, edits, again, canceling, localOk>>
  BY HandleInitIs
<1>3. <<m>> \in Seq(Conf!Packet)
  BY <1>2 DEF Conf!Packet
<1>4. chan'[p] = chan[p] \o <<m>> /\ Takes(p)
  BY <1>2, <1>3, AnswerMoves
<1>5. state'[p] = "inSetup" /\ state'[q] = state[q]
  BY <1>1, <1>2 DEF Conf!TypeOK
<1>6. sentTeam'[p][q] = team[p][q] /\ sentTeam'[q] = sentTeam[q]
      /\ sentTeam'[p][p] = sentTeam[p][p]
  <2>1. sentTeam \in [Party -> [Party -> [Slot -> Ship \cup {Unset}]]]
    BY DEF FleetsOK
  <2> QED BY <1>1, <1>2, <2>1, TeamChange
<1>7. Moves(p, <<m>>)
  BY <1>2, <1>3, <1>4, <1>5, <1>6 DEF Moves
<1>8. \A s, i : TakesOther(p, s, i)
  BY <1>2, <1>4 DEF TakesOther, Covers
<1>9. ASSUME NEW i \in Slot
      PROVE  OpensSlot(p, <<m>>, q, i) /\ LeavesSlot(p, <<m>>, p, i)
  <2>1. team[p][q] \in [Slot -> Ship]
    BY <1>1 DEF FleetsOK, Fleet
  <2>2. Covers(m, q, i) /\ m.ships[i] = team[p][q][i] /\ ~Covers(m, p, i)
    BY <1>1, <2>1 DEF Covers
  <2>3. SendsOne(<<m>>, q, i, team[p][q][i]) /\ Spots(<<m>>, p, i) = {}
    BY <2>2, SpotsOfOne DEF SendsOne
  <2>4. ~Open(p, q, i)
    BY <1>1, <1>2 DEF NoTurnInInit
  <2>5. OpensSlot(p, <<m>>, q, i)
    BY <1>2, <1>5, <1>6, <1>8, <2>1, <2>3, <2>4 DEF OpensSlot
  <2>6. LeavesSlot(p, <<m>>, p, i)
    BY <1>2, <1>5, <1>6, <1>8, <2>3 DEF LeavesSlot
  <2> QED BY <2>5, <2>6
<1>10. ~Heard1(<<m>>)
  BY DEF Heard1
<1>11. \A s \in Party, i \in Slot : SlotStep(p, <<m>>, s, i)
  BY <1>1, <1>9 DEF SlotStep
<1>12. StepOf(p, <<m>>)
  BY <1>2, <1>7, <1>10, <1>11 DEF StepOf
<1> QED BY <1>12

(* What a packet with settings changes.                                    *)
LEMMA ResultTaken ==
  ASSUME FleetsOK, NEW p \in Party, NEW m \in FleetPacket, TakesResult(p, m)
  PROVE  /\ team'[Peer(p)] = team[Peer(p)] /\ sentTeam'[Peer(p)] = sentTeam[Peer(p)]
         /\ \A i \in DOMAIN m.ships :
              /\ team'[p][m.side][i] = Result(p, m)[i].ship
              /\ sentTeam'[p][m.side][i] = Result(p, m)[i].sent
         /\ \A s \in Party, i \in Slot : s # m.side \/ i \notin DOMAIN m.ships =>
              team'[p][s][i] = team[p][s][i] /\ sentTeam'[p][s][i] = sentTeam[p][s][i]
<1> DEFINE t == [i \in Slot |-> IF i \in DOMAIN Result(p, m)
                                THEN Result(p, m)[i].ship ELSE team[p][m.side][i]]
           n == [i \in Slot |-> IF i \in DOMAIN Result(p, m)
                                THEN Result(p, m)[i].sent ELSE sentTeam[p][m.side][i]]
<1>1. /\ m.side \in Party /\ Peer(p) \in Party /\ Peer(p) # p
      /\ DOMAIN Result(p, m) = DOMAIN m.ships /\ DOMAIN m.ships \subseteq Slot
  BY PacketFacts, PeerFacts, ResultFacts
<1>2. team \in [Party -> [Party -> Fleet]]
      /\ sentTeam \in [Party -> [Party -> [Slot -> Ship \cup {Unset}]]]
  BY DEF FleetsOK
<1>3. team' = [team EXCEPT ![p][m.side] = t]
      /\ sentTeam' = [sentTeam EXCEPT ![p][m.side] = n]
  BY <1>1, <1>2 DEF TakesResult
<1>4. /\ team'[p][m.side] = t /\ team'[Peer(p)] = team[Peer(p)]
      /\ \A s \in Party : s # m.side => team'[p][s] = team[p][s]
  <2> HIDE DEF t
  <2> QED BY <1>1, <1>2, <1>3, TeamChange
<1>5. /\ sentTeam'[p][m.side] = n /\ sentTeam'[Peer(p)] = sentTeam[Peer(p)]
      /\ \A s \in Party : s # m.side => sentTeam'[p][s] = sentTeam[p][s]
  <2> HIDE DEF n
  <2> QED BY <1>1, <1>2, <1>3, TeamChange
<1>6. \A i \in DOMAIN m.ships :
        /\ t[i] = Result(p, m)[i].ship
        /\ n[i] = Result(p, m)[i].sent
  BY <1>1
<1>7. \A i \in Slot : i \notin DOMAIN m.ships =>
        t[i] = team[p][m.side][i] /\ n[i] = sentTeam[p][m.side][i]
  BY <1>1
<1> HIDE DEF t, n
<1>8. \A i \in DOMAIN m.ships :
        /\ team'[p][m.side][i] = Result(p, m)[i].ship
        /\ sentTeam'[p][m.side][i] = Result(p, m)[i].sent
  BY <1>4, <1>5, <1>6
<1>9. ASSUME NEW s \in Party, NEW i \in Slot, s # m.side \/ i \notin DOMAIN m.ships
      PROVE  team'[p][s][i] = team[p][s][i] /\ sentTeam'[p][s][i] = sentTeam[p][s][i]
  <2>1. CASE s = m.side
    BY <1>4, <1>5, <1>7, <1>9, <2>1
  <2>2. CASE s # m.side
    BY <1>4, <1>5, <2>2
  <2> QED BY <2>1, <2>2
<1> QED BY <1>4, <1>5, <1>8, <1>9

(* The CANCEL before the ships that are sent back is about no slot.        *)
LEMMA SpotsBehindControl ==
  ASSUME NEW c \in Seq(Conf!Packet), NEW k \in Seq(Conf!Packet),
         k = <<>> \/ \E t \in Conf!ControlType : k = Conf!Just(t), NEW s, NEW i
  PROVE  /\ Spots(c, s, i) = {} => Spots(k \o c, s, i) = {}
         /\ \A v : SendsOne(c, s, i, v) => SendsOne(k \o c, s, i, v)
<1>1. Spots(k, s, i) = {}
  BY DEF Spots, Covers, Conf!Just, Conf!ControlType
<1>2. Spots(c, s, i) = {} => Spots(k \o c, s, i) = {}
  BY <1>1, SpotsOfConcat
<1>3. Num(k \o c, s, i) = Num(c, s, i)
  <2>1. Num(k \o c, s, i) = Num(k, s, i) + Num(c, s, i)
    BY NumOfConcat
  <2>2. Num(k, s, i) = 0 /\ Num(c, s, i) \in Nat
    BY <1>1, SpotsFacts
  <2> QED BY <2>1, <2>2
<1>4. ASSUME NEW v, SendsOne(c, s, i, v) PROVE LatestIs(k \o c, s, i, v)
  <2>1. Spots(c, s, i) # {}
    <3>1. Num(c, s, i) = 0 <=> Spots(c, s, i) = {}
      BY SpotsFacts
    <3> QED BY <1>4, <3>1 DEF SendsOne
  <2> QED BY <1>4, <2>1, LatestOfConcat DEF SendsOne
<1> QED BY <1>2, <1>3, <1>4 DEF SendsOne

LEMMA HandleFleetIsStep ==
  ASSUME Conf!TypeOK, FleetsOK, NEW p \in Party, HandleFleet(p)
  PROVE  \E r : StepOf(p, r)
<1> DEFINE q == Peer(p)
           m == Head(chan[q])
           k == IF localOk[p] THEN Conf!CancelPacket(p) ELSE <<>>
<1>1. q \in Party /\ q # p /\ \A s \in Party : s = p \/ s = q
  BY PeerFacts
<1>2. /\ chan[q] # <<>> /\ state[p] = "inSetup" /\ m \in FleetPacket
      /\ TakesResult(p, m) /\ again' = again
      /\ Conf!HandleUpdate(p)
  BY HandleFleetIs
<1>3. PICK walk \in InOrder(Notified(p, m)) : Conf!Answer(p, k \o Reply(p, m, walk))
  BY HandleFleetIs
<1> DEFINE c == Reply(p, m, walk)
           r == k \o c
<1>4. c \in Seq(FleetPacket)
  BY <1>2, ReplyFacts
<1>5. c \in Seq(Conf!Packet)
  BY <1>4 DEF Conf!Packet
<1>6. k \in Seq(Conf!Packet) /\ (k = <<>> \/ \E t \in Conf!ControlType : k = Conf!Just(t))
  BY ControlPackets
<1>7. r \in Seq(Conf!Packet)
  BY <1>5, <1>6
<1>8. chan'[p] = chan[p] \o r /\ Takes(p)
  BY <1>2, <1>3, <1>7, AnswerMoves
<1>9. /\ state' = state /\ canceling'[q] = canceling[q]
      /\ canceling[p] => canceling'[p]
  BY <1>1, <1>2 DEF Conf!HandleUpdate, Conf!CancelFlags, Conf!TypeOK
<1>10. /\ team'[q] = team[q] /\ sentTeam'[q] = sentTeam[q]
       /\ \A i \in DOMAIN m.ships :
            /\ team'[p][m.side][i] = Result(p, m)[i].ship
            /\ sentTeam'[p][m.side][i] = Result(p, m)[i].sent
       /\ \A s \in Party, i \in Slot : s # m.side \/ i \notin DOMAIN m.ships =>
            team'[p][s][i] = team[p][s][i] /\ sentTeam'[p][s][i] = sentTeam[p][s][i]
  BY <1>2, ResultTaken
<1>11. Moves(p, r)
  BY <1>2, <1>7, <1>8, <1>9, <1>10 DEF Moves
<1>12. /\ m.type = "FLEET" /\ m.side \in Party /\ DOMAIN m.ships \subseteq Slot
       /\ \A i \in DOMAIN m.ships : m.ships[i] \in Ship
  BY <1>2, PacketFacts
<1>13. ASSUME NEW s \in Party, NEW i \in Slot
       PROVE  SlotStep(p, r, s, i)
  <2>1. /\ s # m.side \/ i \notin Notified(p, m) => Spots(c, s, i) = {}
        /\ s = m.side /\ i \in Notified(p, m) =>
             SendsOne(c, s, i, Result(p, m)[i].ship)
    BY <1>2, SpotsOfReply DEF SendsOne
  <2>2. /\ Spots(c, s, i) = {} => Spots(r, s, i) = {}
        /\ \A v : SendsOne(c, s, i, v) => SendsOne(r, s, i, v)
    BY <1>5, <1>6, SpotsBehindControl
  <2>3. CASE s = m.side /\ i \in DOMAIN m.ships
    <3> DEFINE x == RemoteChange(p, s, i, m.ships[i])
    <3>1. /\ Result(p, m)[i] = x
          /\ i \in Notified(p, m) <=> Result(p, m)[i].notify
      BY <1>2, <2>3, ResultFacts
    <3>2. Covers(m, s, i)
      BY <1>12, <2>3 DEF Covers
    <3>3. IF x.notify THEN SendsOne(r, s, i, x.ship) ELSE Spots(r, s, i) = {}
      BY <2>1, <2>2, <2>3, <3>1
    <3>4. team'[p][s][i] = x.ship /\ sentTeam'[p][s][i] = x.sent
      BY <1>10, <2>3, <3>1
    <3>5. HearsSlot(p, r, s, i)
      <4> HIDE DEF r
      <4> QED BY <1>2, <1>8, <1>9, <1>12, <2>3, <3>2, <3>3, <3>4 DEF HearsSlot
    <3> QED BY <3>5 DEF SlotStep
  <2>4. CASE ~(s = m.side /\ i \in DOMAIN m.ships)
    <3>1. ~Covers(m, s, i)
      BY <2>4 DEF Covers
    <3>2. s # m.side \/ i \notin Notified(p, m)
      <4>1. Notified(p, m) \subseteq DOMAIN m.ships
        BY <1>2, ResultFacts DEF Notified
      <4> QED BY <2>4, <4>1
    <3>3. Spots(r, s, i) = {}
      BY <2>1, <2>2, <3>2
    <3>4. team'[p][s][i] = team[p][s][i] /\ sentTeam'[p][s][i] = sentTeam[p][s][i]
      BY <1>10, <2>4
    <3>5. LeavesSlot(p, r, s, i)
      <4> HIDE DEF r
      <4> QED BY <1>8, <1>9, <3>1, <3>3, <3>4 DEF LeavesSlot, TakesOther
    <3> QED BY <3>5 DEF SlotStep
  <2> QED BY <2>3, <2>4
<1>14. ~Heard1(r)
  <2>1. ~Conf!Has(c, "HANDSHAKE1")
    <3>1. \A j \in DOMAIN c : c[j] \in FleetPacket
      BY <1>4
    <3> QED BY <3>1, PacketFacts DEF Conf!Has
  <2>2. ~Conf!Has(k, "HANDSHAKE1")
    BY DEF Conf!Has, Conf!CancelPacket, Conf!Just
  <2>3. ~Conf!Has(r, "HANDSHAKE1")
    <3> HIDE DEF k, c
    <3> QED BY <1>5, <1>6, <2>1, <2>2, ConfFits, Conf!HasConcat
  <2> QED BY <2>3 DEF Heard1, Conf!Has
<1>15. StepOf(p, r)
  <2> HIDE DEF r
  <2> QED BY <1>9, <1>11, <1>13, <1>14 DEF StepOf
<1> QED BY <1>15

LEMMA TurnsKept ==
  ASSUME Conf!IInv, FleetsOK, \A s \in Party, i \in Slot : TurnInv(s, i), [Next]_vars
  PROVE  \A s \in Party, i \in Slot : TurnInv(s, i)'
<1>1. Conf!TypeOK
  BY DEF Conf!IInv
<1>2. \E p \in Party : \E r : StepOf(p, r)
  <2>1. CASE UNCHANGED vars
    <3>1. UNCHANGED <<chan, state, canceling>> /\ UNCHANGED teamVars
      BY <2>1 DEF vars, confirmVars, teamVars
    <3>2. PICK p \in Party : TRUE
      BY PartyAssumption
    <3>3. StepOf(p, <<>>)
      BY <1>1, <3>1, CloseIsStep
    <3> QED BY <3>3
  <2>2. ASSUME NEW p \in Party,
               Confirm(p) \/ LocalChange(p) \/ HandleInit(p) \/ HandleFleet(p) \/ Negotiate(p)
        PROVE  \E r : StepOf(p, r)
    BY <1>1, <2>2, ConfirmIsStep, LocalChangeIsStep, HandleInitIsStep, HandleFleetIsStep,
       NegotiateIsStep DEF TurnInv
  <2> QED BY <2>1, <2>2 DEF Next
<1>3. PICK p \in Party : \E r : StepOf(p, r)
  BY <1>2
<1>4. PICK r : StepOf(p, r)
  BY <1>3
<1>5. ASSUME NEW s \in Party, NEW i \in Slot PROVE TurnInv(s, i)'
  BY <1>4, TurnStep DEF StepOf
<1> QED BY <1>5

-----------------------------------------------------------------------------
(* The start.                                                              *)

(* The fleets and notes of p change only by an action of p, before p has   *)
(* started.                                                                *)
LEMMA OwnFleets ==
  ASSUME Conf!TypeOK, FleetsOK, [Next]_vars, NEW p \in Party
  PROVE  \/ team'[p] = team[p] /\ sentTeam'[p] = sentTeam[p]
         \/ /\ LocalChange(p) \/ HandleInit(p) \/ HandleFleet(p)
            /\ state[p] # "preBattle"
<1>1. CASE UNCHANGED vars
  BY <1>1 DEF vars, teamVars
<1>2. ASSUME NEW q \in Party, Confirm(q) \/ Negotiate(q)
      PROVE  team'[p] = team[p] /\ sentTeam'[p] = sentTeam[p]
  BY <1>2 DEF Confirm, Negotiate, teamVars
<1>3. ASSUME NEW q \in Party, q # p, LocalChange(q) \/ HandleInit(q) \/ HandleFleet(q)
      PROVE  team'[p] = team[p] /\ sentTeam'[p] = sentTeam[p]
  <2>0. Peer(q) \in Party /\ Peer(q) = p
    BY <1>3, PeerFacts
  <2>1. CASE LocalChange(q)
    <3>1. PICK r : StepOf(q, r)
      BY <2>1, LocalChangeIsStep
    <3> QED BY <2>0, <3>1 DEF StepOf, Moves
  <2>2. CASE HandleInit(q)
    <3>1. /\ sentTeam' = [sentTeam EXCEPT ![q][Peer(q)] = team[q][Peer(q)]]
          /\ UNCHANGED team
      BY <2>2, HandleInitIs
    <3> QED BY <1>3, <3>1 DEF FleetsOK
  <2>3. CASE HandleFleet(q)
    <3>1. PICK r : StepOf(q, r)
      BY <2>3, HandleFleetIsStep
    <3> QED BY <2>0, <3>1 DEF StepOf, Moves
  <2> QED BY <1>3, <2>1, <2>2, <2>3
<1>4. LocalChange(p) \/ HandleInit(p) \/ HandleFleet(p) => state[p] # "preBattle"
  BY DEF LocalChange, HandleInit, HandleFleet
<1> QED BY <1>1, <1>2, <1>3, <1>4 DEF Next

(* A side starts by the HANDSHAKE1 of its peer, and in no other way.       *)
LEMMA OnlyHandshake1Starts ==
  ASSUME Conf!TypeOK, [Next]_vars, NEW p \in Party, Started(p)', ~Started(p)
  PROVE  /\ Conf!HandleHandshake1(p) /\ localOk[p] /\ ~canceling[p]
         /\ UNCHANGED teamVars
<1>1. ~UNCHANGED vars
  BY DEF vars, confirmVars, Started
<1>2. state \in [Party -> Conf!NetState]
  BY DEF Conf!TypeOK
<1>3. ASSUME NEW q \in Party, Confirm(q) \/ LocalChange(q) PROVE FALSE
  BY <1>3, SameActions DEF Confirm, LocalChange, Conf!Confirm, Started
<1>4. ASSUME NEW q \in Party, HandleInit(q) PROVE FALSE
  BY <1>2, <1>4 DEF HandleInit, Started
<1>5. ASSUME NEW q \in Party, HandleFleet(q) PROVE FALSE
  BY <1>5 DEF HandleFleet, Started
<1>6. PICK q \in Party : Negotiate(q)
  BY <1>1, <1>3, <1>4, <1>5 DEF Next
<1>7. Conf!HandleHandshake1(q)
  <2>1. \/ Conf!Cancel(q) \/ Conf!HandleHandshake0(q) \/ Conf!HandleHandshakeCancel(q)
        \/ Conf!HandleHandshakeCancelAck(q) \/ Conf!RefusePacket(q)
        \/ Conf!PeerClosed(q) \/ Conf!Disconnect(q) \/ Conf!HandleHandshake1(q)
    BY <1>6, SameActions DEF Negotiate
  <2>2. state' # state
    BY DEF Started
  <2> QED BY <2>1, <2>2
          DEF Conf!Cancel, Conf!HandleHandshake0, Conf!HandleHandshakeCancel,
              Conf!HandleHandshakeCancelAck, Conf!RefusePacket, Conf!PeerClosed,
              Conf!Disconnect, Conf!Close
<1>8. /\ q = p /\ ~canceling[q] /\ localOk[q]
  <2>1. /\ canceling[q] => state' = state
        /\ state' = state \/ state' = [state EXCEPT ![q] = "preBattle"]
        /\ localOk[q] \/ canceling[q]
    BY <1>7 DEF Conf!HandleHandshake1
  <2> QED BY <1>2, <2>1 DEF Started
<1> QED BY <1>6, <1>7, <1>8 DEF Negotiate

(* In an open turn a side does not start.                                  *)
LEMMA StartsClosed ==
  ASSUME Conf!IInv, NEW p \in Party, Conf!HandleHandshake1(p), ~canceling[p],
         NEW s \in Party, NEW i \in Slot, Answered(p, s, i)
  PROVE  ~Open(p, s, i)
<1> DEFINE c == chan[Peer(p)]
<1>1. Conf!TypeOK
  BY DEF Conf!IInv
<1>2. c # <<>> /\ Head(c).type = "HANDSHAKE1"
  BY Same DEF Conf!HandleHandshake1, Conf!Arrives, Conf!Incoming
<1>3. 1 \in DOMAIN c /\ c[1].type = "HANDSHAKE1" /\ c \in Seq(Conf!Packet)
      /\ chan[p] \in Seq(Conf!Packet)
  BY <1>1, <1>2, ChannelType
<1>4. \A k \in Spots(c, s, i) : ~(k < 1)
  <2>1. Spots(c, s, i) \subseteq 1..Len(c) /\ Len(c) \in Nat
    BY <1>3, SpotsFacts
  <2> QED BY <2>1
<1>5. Spots(chan[p], s, i) = {}
  <2>1. Conf!Has(chan[Conf!Peer(p)], "HANDSHAKE1")
    BY <1>3, Same DEF Conf!Has
  <2>2. ~Conf!Has(chan[p], "FLEET")
    BY <2>1, ConfFits, Conf!SettingsBeforeStart DEF Conf!UpdateType
  <2> QED BY <2>2 DEF Spots, Covers, Conf!Has
<1> QED BY <1>3, <1>4, <1>5 DEF Answered

(* A confirmation comes from the player, who has ships in both fleets.     *)
LEMMA OnlyConfirmConfirms ==
  ASSUME Conf!TypeOK, FleetsOK, [Next]_vars, NEW p \in Party, localOk'[p], ~localOk[p]
  PROVE  Confirm(p)
<1>1. localOk \in [Party -> BOOLEAN]
  BY DEF Conf!TypeOK
<1>2. ~UNCHANGED vars
  BY DEF vars, confirmVars
<1>3. ASSUME NEW q \in Party, LocalChange(q) \/ HandleInit(q) PROVE FALSE
  BY <1>3 DEF LocalChange, HandleInit
<1>4. ASSUME NEW q \in Party, HandleFleet(q) PROVE FALSE
  <2>1. Conf!HandleUpdate(q)
    BY <1>4, HandleFleetIs
  <2> QED BY <1>1, <2>1 DEF Conf!HandleUpdate, Conf!CancelFlags
<1>5. ASSUME NEW q \in Party, Negotiate(q) PROVE FALSE
  <2>1. \/ Conf!Cancel(q) \/ Conf!HandleHandshake0(q) \/ Conf!HandleHandshakeCancel(q)
        \/ Conf!HandleHandshakeCancelAck(q) \/ Conf!RefusePacket(q)
        \/ Conf!PeerClosed(q) \/ Conf!Disconnect(q) \/ Conf!HandleHandshake1(q)
    BY <1>5, SameActions DEF Negotiate
  <2>2. localOk' = localOk \/ localOk' = [localOk EXCEPT ![q] = FALSE]
    BY <2>1
       DEF Conf!Cancel, Conf!CancelFlags, Conf!HandleHandshake0,
           Conf!HandleHandshakeCancel, Conf!HandleHandshakeCancelAck, Conf!RefusePacket,
           Conf!PeerClosed, Conf!Disconnect, Conf!Close, Conf!HandleHandshake1
  <2> QED BY <1>1, <2>2
<1>6. PICK q \in Party : Confirm(q)
  BY <1>2, <1>3, <1>4, <1>5 DEF Next
<1>7. localOk' = [localOk EXCEPT ![q] = TRUE]
  BY <1>6, SameActions DEF Confirm, Conf!Confirm
<1>8. q = p
  BY <1>1, <1>7
<1> QED BY <1>6, <1>8

LEMMA ConfirmedStep ==
  ASSUME Conf!TypeOK, Conf!WaitingIffConfirmed, FleetsOK, ConfirmedWithShips, [Next]_vars
  PROVE  ConfirmedWithShips'
<1> SUFFICES ASSUME NEW p \in Party, NEW s \in Party, localOk'[p]
             PROVE  HasShips(p, s)'
  BY DEF ConfirmedWithShips
<1>1. CASE team'[p] = team[p]
  <2>1. HasShips(p, s)
    BY OnlyConfirmConfirms DEF ConfirmedWithShips, Confirm
  <2> QED BY <1>1, <2>1 DEF HasShips
<1>2. CASE LocalChange(p)
  <2>1. /\ connected[p] /\ state[p] = "inSetup" /\ inputFunc[p] = "DoMelee"
        /\ localOk' = localOk
    BY <1>2 DEF LocalChange
  <2> QED BY <2>1 DEF Conf!WaitingIffConfirmed
<1>3. CASE HandleInit(p)
  <2>1. team' = team
    BY <1>3 DEF HandleInit
  <2> QED BY <1>1, <2>1
<1>4. CASE HandleFleet(p)
  <2>1. Conf!HandleUpdate(p)
    BY <1>4, HandleFleetIs
  <2>2. ~localOk'[p]
    BY <2>1 DEF Conf!HandleUpdate, Conf!CancelFlags, Conf!TypeOK
  <2> QED BY <2>2
<1> QED BY <1>1, <1>2, <1>3, <1>4, OwnFleets

-----------------------------------------------------------------------------
(* The invariant of the screen.                                            *)

LEMMA ScreenInit == Init => ScreenInv
<1> SUFFICES ASSUME Init PROVE ScreenInv
  OBVIOUS
<1>1. Conf!Init
  BY SameSpec DEF Init
<1>2. Conf!NegotiationInv
  BY <1>1, ConfFits, Conf!InvInit DEF Conf!NegotiationInv
<1>3. /\ state = [p \in Party |-> "init"]
      /\ localOk = [p \in Party |-> FALSE]
      /\ chan = [p \in Party |-> Conf!Just("INIT")]
  BY <1>1 DEF Conf!Init
<1>4. /\ team \in [Party -> [Party -> Fleet]]
      /\ sentTeam = [p \in Party |-> [s \in Party |-> [i \in Slot |-> Unset]]]
      /\ edits = [p \in Party |-> 0] /\ again = {}
  BY DEF Init
<1>5. FleetsOK
  BY <1>4 DEF FleetsOK
<1>6. ConfirmedWithShips /\ StartWithShips /\ NoOpenTurn
  BY <1>3 DEF ConfirmedWithShips, StartWithShips, NoOpenTurn, Started
<1>7. ASSUME NEW s \in Party, NEW i \in Slot PROVE TurnInv(s, i)
  <2>1. \A p \in Party : ~Open(p, s, i) /\ OpenCount(p, s, i) = 0
    BY <1>4 DEF Open, OpenCount
  <2>2. \A p \in Party : Spots(chan[p], s, i) = {}
    <3>1. \A p \in Party : \A k \in DOMAIN chan[p] : chan[p][k].type = "INIT"
      BY <1>3 DEF Conf!Just
    <3> QED BY <3>1 DEF Spots, Covers
  <2>3. \A p \in Party : Num(chan[p], s, i) = 0
    BY <2>2, FS_EmptySet DEF Num
  <2>4. NoTurnInInit(s, i) /\ \A p \in Party : Answered(p, s, i)
    BY <2>1 DEF NoTurnInInit, Answered
  <2>5. Balanced(s, i)
    BY <2>1, <2>3, PeerFacts DEF Balanced
  <2>6. ShipsFollow(s, i)
    BY <1>3, <2>1, <2>2, PeerFacts DEF ShipsFollow, LatestIs
  <2> QED BY <2>4, <2>5, <2>6 DEF TurnInv
<1> QED BY <1>2, <1>5, <1>6, <1>7 DEF ScreenInv

LEMMA NegotiationFacts ==
  ASSUME Conf!NegotiationInv
  PROVE  /\ Conf!TypeOK /\ Conf!WaitingIffConfirmed
         /\ Conf!IInv \/ \E p \in Party : Conf!LateCancel(p)
BY DEF Conf!NegotiationInv, Conf!IInv

(* Once a CANCEL has come too late nobody starts any more.                 *)
LEMMA LateNobodyStarts ==
  ASSUME NEW x \in Party, Conf!LateCancel(x),
         NEW p \in Party, Conf!HandleHandshake1(p), ~canceling[p]
  PROVE  FALSE
<1>1. state[x] = "preBattle" /\ canceling[Peer(x)]
  BY Same DEF Conf!LateCancel
<1>2. state[p] = "inSetup"
  BY DEF Conf!HandleHandshake1, Conf!HandshakeMeaningful
<1> QED BY <1>1, <1>2, PeerFacts

LEMMA ScreenStep ==
  ASSUME ScreenInv, [Next]_vars
  PROVE  ScreenInv'
<1>1. /\ Conf!NegotiationInv /\ Conf!TypeOK /\ Conf!WaitingIffConfirmed /\ FleetsOK
      /\ Conf!IInv \/ \E p \in Party : Conf!LateCancel(p)
      /\ ConfirmedWithShips /\ StartWithShips /\ NoOpenTurn
      /\ Conf!IInv => \A s \in Party, i \in Slot : TurnInv(s, i)
  BY NegotiationFacts DEF ScreenInv
<1>2. [Conf!Next]_(Conf!vars)
  BY <1>1, StepFits
<1>3. Conf!NegotiationInv'
  BY <1>1, <1>2, ConfFits, Conf!NegotiationStep
<1>4. FleetsOK'
  BY <1>1, FleetsStep
<1>5. ConfirmedWithShips'
  BY <1>1, ConfirmedStep
<1>6. StartWithShips'
  <2> SUFFICES ASSUME NEW p \in Party, NEW s \in Party, Started(p)'
               PROVE  HasShips(p, s)'
    BY DEF StartWithShips
  <2>1. CASE Started(p)
    <3>1. team'[p] = team[p]
      BY <1>1, <2>1, OwnFleets DEF Started
    <3> QED BY <1>1, <2>1, <3>1 DEF StartWithShips, HasShips
  <2>2. CASE ~Started(p)
    <3>1. localOk[p] /\ team' = team
      BY <1>1, <2>2, OnlyHandshake1Starts DEF teamVars
    <3> QED BY <1>1, <3>1 DEF ConfirmedWithShips, HasShips
  <2> QED BY <2>1, <2>2
<1>7. NoOpenTurn'
  <2> SUFFICES ASSUME NEW p \in Party, NEW s \in Party, NEW i \in Slot, Started(p)'
               PROVE  sentTeam'[p][s][i] = Unset
    BY DEF NoOpenTurn
  <2>1. CASE Started(p)
    <3>1. sentTeam'[p] = sentTeam[p]
      BY <1>1, <2>1, OwnFleets DEF Started
    <3> QED BY <1>1, <2>1, <3>1 DEF NoOpenTurn
  <2>2. CASE ~Started(p)
    <3>1. Conf!HandleHandshake1(p) /\ ~canceling[p] /\ sentTeam' = sentTeam
      BY <1>1, <2>2, OnlyHandshake1Starts DEF teamVars
    <3>2. Conf!IInv
      BY <1>1, <3>1, LateNobodyStarts
    <3>3. ~Open(p, s, i)
      BY <1>1, <3>1, <3>2, StartsClosed DEF TurnInv
    <3> QED BY <3>1, <3>3 DEF Open
  <2> QED BY <2>1, <2>2
<1>8. ASSUME Conf!IInv', NEW s \in Party, NEW i \in Slot PROVE TurnInv(s, i)'
  <2>1. \A p \in Party : ~Conf!LateCancel(p)
    <3> SUFFICES ASSUME NEW p \in Party, Conf!LateCancel(p) PROVE FALSE
      OBVIOUS
    <3>1. Conf!LateCancel(p)'
      BY <1>1, <1>2, ConfFits, Conf!LateStep
    <3>2. \A r \in Party : ~(Conf!IInv' /\ Conf!LateCancel(r)')
      BY DEF Conf!IInv, Conf!StartPart, Conf!LateCancel, Conf!ok
    <3> QED BY <1>8, <3>1, <3>2
  <2> QED BY <1>1, <2>1, TurnsKept
<1> QED BY <1>3, <1>4, <1>5, <1>6, <1>7, <1>8 DEF ScreenInv

-----------------------------------------------------------------------------
(* What follows from the invariant.                                        *)

LEMMA ScreenIsFair == ScreenInv => FairStart
<1> SUFFICES ASSUME ScreenInv PROVE FairStart
  OBVIOUS
<1>1. Conf!TypeOK /\ FleetsOK /\ StartWithShips /\ NoOpenTurn
  BY NegotiationFacts DEF ScreenInv
<1>2. TypeOK
  BY <1>1, SameSpec DEF TypeOK, FleetsOK
<1>3. Conf!OnlyLateCancelRefused
  BY ConfFits, Conf!NegotiationRefusesLate DEF ScreenInv
<1> QED BY <1>1, <1>2, <1>3, SameSpec DEF FairStart, OnlyLateCancelRefused

(* When both sides have started, no packet about a slot is on its way and  *)
(* no turn is open, so each side has the ship of the slot's owner.         *)
LEMMA StartedWithOwnersShip ==
  ASSUME ScreenInv, \A p \in Party : Started(p),
         NEW s \in Party, NEW i \in Slot, <<s, i>> \notin again
  PROVE  \A p \in Party : team[p][s][i] = team[s][s][i]
<1>1. ASSUME NEW p \in Party PROVE ~Conf!LateCancel(p)
  BY PeerFacts, Same DEF Conf!LateCancel, Started
<1>2. Conf!IInv
  BY <1>1, NegotiationFacts DEF ScreenInv
<1>3. ShipsFollow(s, i)
  BY <1>2 DEF ScreenInv, TurnInv
<1>4. Spots(chan[s], s, i) = {}
  <2>1. Conf!NoUpdateInFlight
    BY <1>2, ConfFits, Conf!InvStart DEF Conf!CertainStart
  <2>2. \A k \in DOMAIN chan[s] : chan[s][k].type # "FLEET"
    BY <1>1, <2>1 DEF Conf!NoUpdateInFlight, Conf!HasPacket, Started
  <2> QED BY <2>2 DEF Spots, Covers
<1>5. ~Open(Peer(s), s, i) /\ state[Peer(s)] # "init"
  BY PeerFacts DEF ScreenInv, NoOpenTurn, Open, Started
<1>6. team[Peer(s)][s][i] = team[s][s][i]
  BY <1>3, <1>4, <1>5 DEF ShipsFollow
<1> QED BY <1>6, PeerFacts

LEMMA ScreenAgrees == ScreenInv => SameFleets
<1> SUFFICES ASSUME ScreenInv, \A p \in Party : Started(p),
                    NEW s \in Party, NEW i \in Slot, <<s, i>> \notin again,
                    NEW p \in Party, NEW q \in Party
             PROVE  team[p][s][i] = team[q][s][i]
  BY DEF SameFleets
<1>1. \A r \in Party : team[r][s][i] = team[s][s][i]
  BY StartedWithOwnersShip
<1> QED BY <1>1

-----------------------------------------------------------------------------

(* The inductive invariant of the setup screen: of the packets about a     *)
(* slot there are as many on their way as there are open turns, and those  *)
(* that close a turn come before the HANDSHAKE1 by which its side starts.  *)
THEOREM ScreenInvariant == Spec => []ScreenInv
<1>1. Init => ScreenInv
  BY ScreenInit
<1>2. ScreenInv /\ [Next]_vars => ScreenInv'
  BY ScreenStep
<1> QED BY <1>1, <1>2, PTL DEF Spec

(* A battle begins with every turn of the Update negotiation closed and    *)
(* with ships on both sides (StartMeleeButtonPressed), and nothing but a   *)
(* CANCEL that came too late has been refused on the way.                  *)
THEOREM StartIsFair == Spec => []FairStart
BY ScreenInvariant, ScreenIsFair, PTL

(* The two machines begin the battle with the same ship in every slot that *)
(* no player edited within an open turn, whatever happened to the other    *)
(* slots (Melee_LocalChange_ship and Melee_RemoteChange_ship under the     *)
(* Confirm negotiation).                                                   *)
THEOREM StartWithSameFleets == Spec => []SameFleets
BY ScreenInvariant, ScreenAgrees, PTL

(* Whatever the players edit, the packets and flags of the setup screen    *)
(* behave as the Confirm negotiation has them, with settings of any kind.  *)
THEOREM FleetsFit == Spec => ImplementsConfirm
<1>1. Init => Confirmation!Init
  BY DEF Init
<1>2. ScreenInv /\ [Next]_vars => [Confirmation!Next]_confirmVars
  <2> SUFFICES ASSUME ScreenInv, [Next]_vars PROVE [Confirmation!Next]_confirmVars
    OBVIOUS
  <2>1. [Conf!Next]_(Conf!vars)
    BY NegotiationFacts, StepFits DEF ScreenInv
  <2> QED BY <2>1, SameSpec DEF Conf!vars, confirmVars
<1> QED BY <1>1, <1>2, ScreenInvariant, PTL DEF Spec, ImplementsConfirm
=============================================================================
