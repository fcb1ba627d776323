------------------------------ MODULE Lockstep ------------------------------
(***************************************************************************)
(* A SuperMelee battle played on two machines, each of which simulates the *)
(* whole battle. A machine sends the input of its own player for frame n   *)
(* and uses it itself in frame n + delay, so that the peer's input for the *)
(* same frame has time to arrive. When a ship has died the machines agree  *)
(* on the frame in which the battle is interrupted for the choice of the   *)
(* next ship, as the victory music takes a different time on each.         *)
(*                                                                         *)
(* Code: DoBattle and ProcessInput of battle.c, the buffers of netinput.c  *)
(* and checkbuf.c, networkBattleInput of netmelee.c, readyForBattleEnd and *)
(* new_ship of tactrans.c, and the packet handlers of these packets.       *)
(*                                                                         *)
(* An input stands for itself: it is the number of the frame for which it  *)
(* was read plus one, 0 for the filler of the initial buffers. A checksum  *)
(* is likewise the number of its frame: as long as both machines have used *)
(* the same inputs (SameInputs) their checksums of one frame are equal.    *)
(***************************************************************************)
EXTENDS Integers, Sequences, FiniteSets, FiniteSetsExt

CONSTANTS
  Party,        \* the two machines
  Delays,       \* the input delays that may have been agreed upon
  Interval,     \* NETPLAY_CHECKSUM_INTERVAL
  DeathFrames,  \* the frames in which a ship dies, on both machines
  MaxDitty      \* bound: most frames the music plays on after a death

ASSUME PartyAssumption == \E a, b \in Party : a # b /\ Party = {a, b}
ASSUME DelayAssumption == Delays \subseteq Nat /\ Interval \in Nat \ {0}
ASSUME DeathAssumption ==
  /\ DeathFrames \subseteq Nat /\ IsFiniteSet(DeathFrames) /\ DeathFrames # {}
  /\ MaxDitty \in Nat

VARIABLES
  delay,          \* BattleInput_inputDelay, equal on both machines
  pc,             \* where the machine is in DoBattle
  state,          \* conn->state
  ready,          \* conn->stateFlags.ready and conn->readyCallback
  frame,          \* battleFrameCount
  endFrameCount,  \* battleStateData->endFrameCount
  buffer,         \* battleInputBuffers: of the own and of the other player
  sums,           \* the checksum buffers: of the own and the other machine
  ditty,          \* frames for which DittyPlaying () still holds
  ended,          \* frames at which the battle was interrupted, in order
  chan,           \* chan[p]: packets p sent and its peer has not handled yet
  fault           \* what went wrong on p: "none", "sync" or a packet type

vars == <<delay, pc, state, ready, frame, endFrameCount, buffer, sums, ditty,
          ended, chan, fault>>

R == INSTANCE NetReady WITH Callback <- {"toEnd", "toEnd2", "negotiate"}

-----------------------------------------------------------------------------

Peer(p) == CHOOSE q \in Party : q # p

PacketType == {"BATTLEINPUT", "CHECKSUM", "READY", "FRAMECOUNT"}

Packet == [type : PacketType, frame : Nat]

(* Only BATTLEINPUT, CHECKSUM and FRAMECOUNT packets carry a frame.        *)
Pkt(type, n) == [type |-> type, frame |-> n]

BattleActive(p) == state[p] \in {"inBattle", "endingBattle", "endingBattle2"}

(* Faulty: room for the delay of one machine only.                         *)
BufferSizeOneWay == delay + 1

BufferSize == 2 * delay + 2

(* Faulty: one place less than two delays and the current frame need.      *)
ChecksumRoomShort == delay + 1

ChecksumRoom == (2 * delay + 2 + (Interval - 1)) \div Interval

(* ChecksumBuffer_getChecksumEntry                                         *)
Entry(n) == (n \div Interval) % ChecksumRoom

NoSum == -1

TypeOK ==
  /\ delay \in Delays
  /\ pc \in [Party -> {"frame", "input", "remote", "stalled", "simulate",
                       "waitReady", "ended", "checkpoint", "fight", "over", "left"}]
  /\ state \in [Party -> {"inBattle", "endingBattle", "endingBattle2",
                          "interBattle"}]
  /\ ready \in [Party -> R!Ready]
  /\ frame \in [Party -> Nat]
  /\ endFrameCount \in [Party -> Nat]
  /\ buffer \in [Party -> [own : Seq(Nat), other : Seq(Nat)]]
  /\ sums \in LET ring == [0..(ChecksumRoom - 1) -> Nat \cup {NoSum}]
              IN  [Party -> [own : ring, other : ring]]
  /\ ditty \in [Party -> 0..MaxDitty]
  /\ ended \in [Party -> Seq(Nat)]
  /\ chan \in [Party -> Seq(Packet)]
  /\ fault \in [Party -> PacketType \cup {"none", "sync"}]

(* Faulty: the buffers start empty.                                        *)
InitNoFiller ==
  /\ delay \in Delays
  /\ pc = [p \in Party |-> "frame"]
  /\ state = [p \in Party |-> "inBattle"]
  /\ ready = [p \in Party |-> R!NotReady]
  /\ frame = [p \in Party |-> 0]
  /\ endFrameCount = [p \in Party |-> 0]
  /\ buffer = [p \in Party |-> [own |-> <<>>, other |-> <<>>]]
  /\ sums = LET ring == [i \in 0..(ChecksumRoom - 1) |-> NoSum]
            IN  [p \in Party |-> [own |-> ring, other |-> ring]]
  /\ ditty \in [Party -> 0..MaxDitty]
  /\ ended = [p \in Party |-> <<>>]
  /\ chan = [p \in Party |-> <<>>]
  /\ fault = [p \in Party |-> "none"]

(* Battle, once both machines have met to go to inBattle.                  *)
Init ==
  /\ delay \in Delays
  /\ pc = [p \in Party |-> "frame"]
  /\ state = [p \in Party |-> "inBattle"]
  /\ ready = [p \in Party |-> R!NotReady]
  /\ frame = [p \in Party |-> 0]
  /\ endFrameCount = [p \in Party |-> 0]
  /\ buffer = LET filler == [i \in 1..delay |-> 0]
              IN  [p \in Party |-> [own |-> filler, other |-> filler]]
  /\ sums = LET ring == [i \in 0..(ChecksumRoom - 1) |-> NoSum]
            IN  [p \in Party |-> [own |-> ring, other |-> ring]]
  /\ ditty \in [Party -> 0..MaxDitty]
  /\ ended = [p \in Party |-> <<>>]
  /\ chan = [p \in Party |-> <<>>]
  /\ fault = [p \in Party |-> "none"]

-----------------------------------------------------------------------------
(* One frame: DoBattle.                                                    *)

(* The checksum of the state is sent before anything else.                 *)
SendChecksum(p) ==
  LET n == frame[p]
      checked == n % Interval = 0
  IN
  /\ pc[p] = "frame"
  /\ chan' = [chan EXCEPT ![p] = IF checked THEN Append(@, Pkt("CHECKSUM", n)) ELSE @]
  /\ sums' = IF checked THEN [sums EXCEPT ![p].own[Entry(n)] = n] ELSE sums
  /\ pc' = [pc EXCEPT ![p] = "input"]
  /\ UNCHANGED <<delay, state, ready, frame, endFrameCount, buffer, ditty, ended, fault>>

(* The own player comes first (setupBattleInputOrder): the input is sent   *)
(* and goes to the end of the own buffer.                                  *)
LocalInput(p) ==
  /\ pc[p] = "input"
  /\ chan' = [chan EXCEPT ![p] = Append(@, Pkt("BATTLEINPUT", frame[p]))]
  /\ buffer' = [buffer EXCEPT ![p].own =
       IF Len(@) < BufferSize THEN Append(@, frame[p] + 1) ELSE @]
  /\ pc' = [pc EXCEPT ![p] = "remote"]
  /\ UNCHANGED <<delay, state, ready, frame, endFrameCount, sums, ditty, ended, fault>>

(* Faulty: the checksum looked for is not there yet.                       *)
VerifiesEarly(p) ==
  frame[p] % Interval = 0 =>
    LET i == Entry(frame[p])
    IN  sums[p].own[i] # NoSum /\ sums[p].own[i] = sums[p].other[i]

(* verifyChecksums                                                         *)
Verifies(p) ==
  LET n == frame[p] - delay
      i == Entry(n)
  IN  n >= 0 /\ n % Interval = 0 =>
        sums[p].own[i] # NoSum /\ sums[p].own[i] = sums[p].other[i]

(* networkBattleInput finds no input and polls the network until it does;  *)
(* one poll handles every packet that has come in.                         *)
Stall(p) ==
  /\ pc[p] = "remote"
  /\ buffer[p].other = <<>>
  /\ pc' = [pc EXCEPT ![p] = "stalled"]
  /\ UNCHANGED <<delay, state, ready, frame, endFrameCount, buffer, sums, ditty, ended, chan, fault>>

(* Faulty: a missing input is not waited for.                              *)
UseInputsWithoutWaiting(p) ==
  /\ pc[p] \in {"remote", "stalled"}
  /\ buffer' = [buffer EXCEPT ![p].own = Tail(@),
                             ![p].other = IF @ = <<>> THEN @ ELSE Tail(@)]
  /\ pc' = [pc EXCEPT ![p] = "simulate"]
  /\ UNCHANGED <<delay, state, ready, frame, endFrameCount, sums, ditty, ended, chan, fault>>

(* networkBattleInput has the peer's input: the fronts of both buffers are *)
(* the inputs of this frame.                                               *)
UseInputs(p) ==
  /\ pc[p] \in {"remote", "stalled"}
  /\ buffer[p].other # <<>>
  /\ buffer' = [buffer EXCEPT ![p].own = Tail(@), ![p].other = Tail(@)]
  /\ IF Verifies(p)
     THEN /\ pc' = [pc EXCEPT ![p] = "simulate"]
          /\ UNCHANGED fault
     ELSE /\ pc' = [pc EXCEPT ![p] = "left"]
          /\ fault' = [fault EXCEPT ![p] = "sync"]
  /\ UNCHANGED <<delay, state, ready, frame, endFrameCount, sums, ditty, ended, chan>>

(* A dead ship calls new_ship in every frame until the battle may be       *)
(* interrupted.                                                            *)
Dying(p) == Cardinality({d \in DeathFrames : d <= frame[p]}) > Len(ended[p])

NextFrame(p) ==
  /\ frame' = [frame EXCEPT ![p] = @ + 1]
  /\ pc' = [pc EXCEPT ![p] = "frame"]

(* Faulty: the music is not asked for.                                     *)
PlayOnUnasked(p) ==
  /\ pc[p] = "simulate"
  /\ NextFrame(p)
  /\ ditty' = IF Dying(p) THEN [ditty EXCEPT ![p] = @ - 1] ELSE ditty
  /\ UNCHANGED <<delay, state, ready, endFrameCount, buffer, sums, ended, chan, fault>>

(* Nothing is over yet.                                                    *)
PlayOn(p) ==
  /\ pc[p] = "simulate"
  /\ Dying(p) => ditty[p] > 0
  /\ NextFrame(p)
  /\ ditty' = IF Dying(p) THEN [ditty EXCEPT ![p] = @ - 1] ELSE ditty
  /\ UNCHANGED <<delay, state, ready, endFrameCount, buffer, sums, ended, chan, fault>>

(* readyForBattleEndPlayer is reached.                                     *)
WantsEnd(p) == pc[p] = "simulate" /\ Dying(p) /\ ditty[p] = 0

(* Faulty: the frame named may be over when the peer hears of it.          *)
EndFrameNow(p) == frame[p]

(* The frame in which p proposes to interrupt the battle.                  *)
EndFrame(p) == frame[p] + 1

(* readyToEndCallback, on the flags r: begin the negotiation of the frame. *)
ReadyToEnd(p, r, before, after) ==
  /\ state' = [state EXCEPT ![p] = "endingBattle"]
  /\ endFrameCount' = [endFrameCount EXCEPT ![p] = Max({@, EndFrame(p)})]
  /\ chan' = [after EXCEPT ![p] = @ \o before \o <<Pkt("FRAMECOUNT", EndFrame(p))>>]
  /\ ready' = [ready EXCEPT ![p] = R!AfterLocal(r, "toEnd2")]

(* The peer is told that this machine is ready to interrupt the battle.    *)
SignalEnd(p) ==
  /\ WantsEnd(p)
  /\ state[p] = "inBattle" /\ ~ready[p].local
  /\ LET r == R!AfterLocal(ready[p], "toEnd")
     IN  IF R!MetByLocal(ready[p])
         THEN ReadyToEnd(p, r, <<Pkt("READY", 0)>>, chan)
         ELSE /\ ready' = [ready EXCEPT ![p] = r]
              /\ chan' = [chan EXCEPT ![p] = Append(@, Pkt("READY", 0))]
              /\ UNCHANGED <<state, endFrameCount>>
  /\ NextFrame(p)
  /\ UNCHANGED <<delay, buffer, sums, ditty, ended, fault>>

(* The simulation goes on until the peer is ready and then up to the frame *)
(* agreed upon.                                                            *)
ReachEndFrame(p) ==
  /\ WantsEnd(p)
  /\ \/ state[p] = "inBattle" /\ ready[p].local
     \/ state[p] # "inBattle" /\ frame[p] < endFrameCount[p]
  /\ NextFrame(p)
  /\ UNCHANGED <<delay, state, ready, endFrameCount, buffer, sums, ditty, ended, chan, fault>>

(* waitReady: the peer's FRAMECOUNT is still to come.                      *)
AwaitFrameCount(p) ==
  /\ WantsEnd(p)
  /\ state[p] = "endingBattle" /\ frame[p] >= endFrameCount[p]
  /\ pc' = [pc EXCEPT ![p] = "waitReady"]
  /\ UNCHANGED <<delay, state, ready, frame, endFrameCount, buffer, sums, ditty, ended, chan, fault>>

Awaited(p) ==
  /\ pc[p] = "waitReady"
  /\ state[p] = "endingBattle2"
  /\ pc' = [pc EXCEPT ![p] = "simulate"]
  /\ UNCHANGED <<delay, state, ready, frame, endFrameCount, buffer, sums, ditty, ended, chan, fault>>

(* Faulty: the peer's frame does not matter.                               *)
EndAtOwnFrame(p) ==
  /\ WantsEnd(p)
  /\ state[p] = "endingBattle2"
  /\ pc' = [pc EXCEPT ![p] = "ended"]
  /\ ended' = [ended EXCEPT ![p] = Append(@, frame[p])]
  /\ UNCHANGED <<delay, state, ready, frame, endFrameCount, buffer, sums, ditty, chan, fault>>

(* The frame agreed upon is reached.                                       *)
EndBattle(p) ==
  /\ WantsEnd(p)
  /\ state[p] = "endingBattle2" /\ frame[p] >= endFrameCount[p]
  /\ pc' = [pc EXCEPT ![p] = "ended"]
  /\ ended' = [ended EXCEPT ![p] = Append(@, frame[p])]
  /\ UNCHANGED <<delay, state, ready, frame, endFrameCount, buffer, sums, ditty, chan, fault>>

-----------------------------------------------------------------------------
(* The meetings between two parts of the battle: negotiateReady at the end *)
(* of the frame, at the checkpoint of new_ship, and, when the next ship is *)
(* chosen, to fight on in the same frame.                                  *)

Meeting == {"ended", "checkpoint", "fight"}

(* The callback of negotiateReady and what follows it.                     *)
Met(p) ==
  /\ state' = [state EXCEPT ![p] = IF pc[p] = "fight" THEN "inBattle" ELSE "interBattle"]
  /\ CASE pc[p] = "ended" ->
            /\ pc' = [pc EXCEPT ![p] = "checkpoint"]
            /\ endFrameCount' = [endFrameCount EXCEPT ![p] = 0]
            /\ \E n \in 0..MaxDitty : ditty' = [ditty EXCEPT ![p] = n]
            /\ UNCHANGED frame
       [] pc[p] = "checkpoint" ->
            /\ pc' = [pc EXCEPT ![p] =
                 IF Len(ended[p]) = Cardinality(DeathFrames) THEN "over" ELSE "fight"]
            /\ UNCHANGED <<frame, endFrameCount, ditty>>
       [] pc[p] = "fight" ->
            /\ NextFrame(p)
            /\ UNCHANGED <<endFrameCount, ditty>>

Negotiate(p) ==
  /\ pc[p] \in Meeting
  /\ ready[p].callback = "none"
  /\ ready' = [ready EXCEPT ![p] = R!AfterLocal(@, "negotiate")]
  /\ chan' = [chan EXCEPT ![p] = Append(@, Pkt("READY", 0))]
  /\ IF R!MetByLocal(ready[p]) THEN Met(p)
     ELSE UNCHANGED <<pc, state, frame, endFrameCount, ditty>>
  /\ UNCHANGED <<delay, buffer, sums, ended, fault>>

-----------------------------------------------------------------------------
(* The packet handlers. They run where the program polls the network: at   *)
(* the start of a frame, while the peer's input is missing, and while it   *)
(* waits for the peer.                                                     *)

Polls(p) ==
  pc[p] \in {"input", "stalled", "waitReady"} \cup Meeting

Incoming(p) == Head(chan[Peer(p)])

Arrives(p, type) ==
  Polls(p) /\ chan[Peer(p)] # <<>> /\ Incoming(p).type = type

Taken(p) == [chan EXCEPT ![Peer(p)] = Tail(@)]

(* The handler returns -1 and the connection is closed.                    *)
RefusePacket(p) ==
  /\ fault' = [fault EXCEPT ![p] = Incoming(p).type]
  /\ pc' = [pc EXCEPT ![p] = "left"]
  /\ UNCHANGED <<delay, state, ready, frame, endFrameCount, buffer, sums, ditty, ended, chan>>

HandleBattleInput(p) ==
  /\ Arrives(p, "BATTLEINPUT")
  /\ IF BattleActive(p) /\ Len(buffer[p].other) < BufferSize
     THEN /\ buffer' = [buffer EXCEPT ![p].other = Append(@, Incoming(p).frame + 1)]
          /\ chan' = Taken(p)
          /\ UNCHANGED <<delay, pc, state, ready, frame, endFrameCount, sums, ditty, ended, fault>>
     ELSE RefusePacket(p)

(* Faulty: a checksum of the next frame after the delay is discarded.      *)
InWindowShort(p, n) == n <= frame[p] + delay /\ n + delay >= frame[p]

(* A checksum from too far ahead or behind is discarded.                   *)
InWindow(p, n) == n <= frame[p] + delay + 1 /\ n + delay >= frame[p]

HandleChecksum(p) ==
  LET n == Incoming(p).frame
  IN
  /\ Arrives(p, "CHECKSUM")
  /\ IF BattleActive(p)
     THEN /\ sums' = IF n % Interval = 0 /\ InWindow(p, n)
                     THEN [sums EXCEPT ![p].other[Entry(n)] = n] ELSE sums
          /\ chan' = Taken(p)
          /\ UNCHANGED <<delay, pc, state, ready, frame, endFrameCount, buffer, ditty, ended, fault>>
     ELSE RefusePacket(p)

(* The peer's READY, with what the callback does when this side is ready.  *)
TakeReady(p) ==
  LET r == R!AfterRemote(ready[p])
  IN
  /\ IF ~R!MetByRemote(ready[p])
     THEN /\ ready' = [ready EXCEPT ![p] = r]
          /\ chan' = Taken(p)
          /\ UNCHANGED <<pc, state, frame, endFrameCount, ditty>>
     ELSE CASE ready[p].callback = "toEnd" ->
                 /\ ReadyToEnd(p, r, <<>>, Taken(p))
                 /\ UNCHANGED <<pc, frame, ditty>>
            [] ready[p].callback = "toEnd2" ->
                 /\ state' = [state EXCEPT ![p] = "endingBattle2"]
                 /\ ready' = [ready EXCEPT ![p] = r]
                 /\ chan' = Taken(p)
                 /\ UNCHANGED <<pc, frame, endFrameCount, ditty>>
            [] ready[p].callback = "negotiate" ->
                 /\ Met(p)
                 /\ ready' = [ready EXCEPT ![p] = r]
                 /\ chan' = Taken(p)
  /\ UNCHANGED <<delay, buffer, sums, ended, fault>>

(* PacketHandler_Ready: readyFlagsMeaningful holds throughout a battle.    *)
HandleReady(p) ==
  /\ Arrives(p, "READY")
  /\ IF ready[p].remote THEN RefusePacket(p) ELSE TakeReady(p)

(* Faulty: the frame is noted, the peer's readiness is not.                *)
FrameCountOnly(p) ==
  /\ Arrives(p, "FRAMECOUNT")
  /\ IF state[p] = "endingBattle"
     THEN /\ endFrameCount' = [endFrameCount EXCEPT ![p] = Max({@, Incoming(p).frame})]
          /\ chan' = Taken(p)
          /\ UNCHANGED <<delay, pc, state, ready, frame, buffer, sums, ditty, ended, fault>>
     ELSE RefusePacket(p)

(* A FRAMECOUNT stands for the peer's readiness to go to endingBattle2.    *)
HandleFrameCount(p) ==
  /\ Arrives(p, "FRAMECOUNT")
  /\ IF state[p] = "endingBattle"
     THEN /\ endFrameCount' = [endFrameCount EXCEPT ![p] = Max({@, Incoming(p).frame})]
          /\ ready' = [ready EXCEPT ![p] = R!AfterRemote(@)]
          /\ state' = IF R!MetByRemote(ready[p])
                      THEN [state EXCEPT ![p] = "endingBattle2"] ELSE state
          /\ chan' = Taken(p)
          /\ UNCHANGED <<delay, pc, frame, buffer, sums, ditty, ended, fault>>
     ELSE RefusePacket(p)

(* The connection is lost, or the peer has gone: every wait of the battle  *)
(* ends and the battle is aborted.                                         *)
Lose(p) ==
  /\ pc[p] \notin {"over", "left"}
  /\ pc' = [pc EXCEPT ![p] = "left"]
  /\ UNCHANGED <<delay, state, ready, frame, endFrameCount, buffer, sums, ditty, ended, chan, fault>>

PeerLost(p) == Polls(p) /\ pc[Peer(p)] = "left" /\ chan[Peer(p)] = <<>> /\ Lose(p)

Play(p) ==
  \/ SendChecksum(p) \/ LocalInput(p) \/ Stall(p) \/ UseInputs(p) \/ PlayOn(p) \/ SignalEnd(p)
  \/ ReachEndFrame(p) \/ AwaitFrameCount(p) \/ Awaited(p) \/ EndBattle(p)
  \/ Negotiate(p)

Receive(p) ==
  \/ HandleBattleInput(p) \/ HandleChecksum(p) \/ HandleReady(p)
  \/ HandleFrameCount(p)

(* Both machines have left the battle.                                     *)
Done == /\ \A p \in Party : pc[p] \in {"over", "left"}
        /\ UNCHANGED vars

Next == Done \/ \E p \in Party : Play(p) \/ Receive(p) \/ PeerLost(p) \/ Lose(p)

(* DoInput calls DoBattle again and again and every wait polls the network *)
(* with a timeout.                                                         *)
Fairness ==
  \A p \in Party : WF_vars(Play(p)) /\ WF_vars(Receive(p)) /\ WF_vars(PeerLost(p))

Spec == Init /\ [][Next]_vars /\ Fairness

-----------------------------------------------------------------------------

(* No battle packet is refused: none arrives in a state that does not      *)
(* expect it, and the input buffer of 2 * delay + 2 is never full when an  *)
(* input arrives (initBattleInputBuffers, PacketHandler_BattleInput).      *)
NoPacketRefused == \A p \in Party : fault[p] \notin PacketType

(* The checksums of a frame are there when they are verified: the ring     *)
(* buffers hold them and the window of PacketHandler_Checksum lets them    *)
(* through, so a battle is aborted for loss of synchronisation only when   *)
(* the machines really differ.                                             *)
NoFalseSyncLoss == \A p \in Party : fault[p] # "sync"

(* The inputs a machine is about to use in a frame are the ones both       *)
(* players gave delay frames earlier, so both machines use the same.       *)
SameInputs ==
  \A p \in Party : pc[p] \in {"remote", "stalled"} =>
    LET due == Max({0, frame[p] - delay + 1})
    IN  /\ Head(buffer[p].own) = due
        /\ buffer[p].other # <<>> => Head(buffer[p].other) = due

(* The machines interrupt the battle in the same frames.                   *)
EndTogether ==
  \A p, q \in Party :
    \A i \in DOMAIN ended[p] \cap DOMAIN ended[q] : ended[p][i] = ended[q][i]

(* No machine is ever more than the delay and the current frame ahead of   *)
(* the other, across every interruption of the battle (networkBattleInput  *)
(* waits).                                                                 *)
NeverFarAhead ==
  \A p, q \in Party :
    pc[p] # "left" /\ pc[q] # "left" => frame[p] - frame[q] <= delay + 1

(* The battle goes on to its end unless the connection is lost: neither    *)
(* machine waits for an input or a frame count that never comes.           *)
BattleEnds == <>(\A p \in Party : pc[p] \in {"over", "left"})

(* The two machines stay so close that every buffer is large enough:       *)
(* nothing that arrives is refused and no checksum is missed.              *)
BuffersSuffice ==
  TypeOK /\ NeverFarAhead /\ NoPacketRefused /\ NoFalseSyncLoss
=============================================================================
