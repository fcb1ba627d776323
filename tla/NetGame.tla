------------------------------ MODULE NetGame ------------------------------
(***************************************************************************)
(* Whole SuperMelee games over one connection: from the setup menu through *)
(* the preparation, the choice of ships and the battle, with its           *)
(* interruptions, back to the menu. The two machines run the same program  *)
(* and meet, by the Ready negotiation, wherever its next part may start    *)
(* only on both; a player who leaves a game resets it on both.             *)
(*                                                                         *)
(* Code: DoConfirmSettings and StartMelee of melee.c, Battle of battle.c,  *)
(* new_ship of tactrans.c, GetMeleeStarShips and MeleeGameOver of          *)
(* pickmele.c, negotiateReady, waitReady and waitReset of netmelee.c, and  *)
(* netplay/proto/ready.c and reset.c.                                      *)
(*                                                                         *)
(* Both players confirm here and neither withdraws (NetConfirm has the     *)
(* rest of that negotiation); the frames of a battle are those of          *)
(* Lockstep, and only the inputs around a reset are kept.                  *)
(***************************************************************************)
EXTENDS Integers, Sequences

CONSTANTS
  Party,      \* the two machines, and their players
  Host,       \* the one with conn->stateFlags.discriminant
  MaxDeaths,  \* bound: most ship deaths of a game
  MaxGames    \* bound: games played over the connection

ASSUME PartyAssumption == \E a, b \in Party : a # b /\ Party = {a, b}
ASSUME GameAssumption ==
  Host \in Party /\ MaxDeaths \in Nat \ {0} /\ MaxGames \in Nat

VARIABLES
  fate,        \* whose ships die, in order; the game ends with the last
  pc,          \* where the program is
  waiting,     \* it is in the loop of negotiateReady
  state,       \* conn->state
  localOk, remoteOk,        \* conn->stateFlags.handshake
  ready,                    \* conn->stateFlags.ready and readyCallback
  localReset, remoteReset,  \* conn->stateFlags.reset
  abort,       \* CHECK_ABORT of GLOBAL (CurrentActivity)
  game,        \* the games begun
  met,         \* history: the meetings passed in this game
  deaths,      \* ship deaths of this game
  picked,      \* the players whose choice of a ship is known
  seed,        \* the game for which the random seed was set
  peerDelay,   \* the game for which the peer's input delay came
  chan,        \* chan[p]: packets p sent and its peer has not handled yet
  fault,       \* what stopped p: "none", "assertion", "shipless" or the packet refused
  hasty        \* history: a game was begun with something left of one that was reset

vars == <<fate, pc, waiting, state, localOk, remoteOk, ready, localReset, remoteReset,
          abort, game, met, deaths, picked, seed, peerDelay, chan, fault, hasty>>

handshake == <<localOk, remoteOk>>
reset == <<localReset, remoteReset>>
progress == <<fate, game, deaths, picked, seed, peerDelay>>

R == INSTANCE NetReady WITH Callback <- {"toEnd", "toEnd2", "negotiate"}

-----------------------------------------------------------------------------

Peer(p) == CHOOSE q \in Party : q # p

PacketType == {"HANDSHAKE0", "HANDSHAKE1", "INPUTDELAY", "SEEDRANDOM", "READY",
               "SELECTSHIP", "BATTLEINPUT", "FRAMECOUNT", "RESET"}

NetState == {"inSetup", "preBattle", "interBattle", "selectShip", "inBattle",
             "endingBattle", "endingBattle2"}

(* The calls of negotiateReady. "unchosen" is the call of "chosen" after   *)
(* the choice was aborted with all ships chosen, and has lost them.        *)
Meeting == {"agree", "choose", "chosen", "unchosen", "fight", "ended", "checkpoint", "over"}

Place == Meeting \cup {"menu", "confirming", "picking", "battle", "dying",
                       "waitReady", "resetting", "resetWait", "left"}

TypeOK ==
  /\ pc \in [Party -> Place]
  /\ waiting \in [Party -> BOOLEAN]
  /\ state \in [Party -> NetState]
  /\ localOk \in [Party -> BOOLEAN] /\ remoteOk \in [Party -> BOOLEAN]
  /\ ready \in [Party -> R!Ready]
  /\ localReset \in [Party -> BOOLEAN] /\ remoteReset \in [Party -> BOOLEAN]
  /\ abort \in [Party -> BOOLEAN]
  /\ game \in [Party -> 0..MaxGames] /\ met \in [Party -> Nat]
  /\ fate \in Seq(Party) /\ deaths \in [Party -> 0..Len(fate)]
  /\ picked \in [Party -> SUBSET Party]
  /\ seed \in [Party -> 0..MaxGames] /\ peerDelay \in [Party -> 0..MaxGames]
  /\ chan \in [Party -> Seq(PacketType)]
  /\ fault \in [Party -> PacketType \cup {"none", "assertion", "shipless"}]
  /\ hasty \in BOOLEAN

No == [p \in Party |-> FALSE]
Zero == [p \in Party |-> 0]

(* A connection on which both sides have reached inSetup.                  *)
Init ==
  /\ fate \in UNION {[1..n -> Party] : n \in 1..MaxDeaths}
  /\ pc = [p \in Party |-> "menu"] /\ waiting = No
  /\ state = [p \in Party |-> "inSetup"]
  /\ localOk = No /\ remoteOk = No
  /\ ready = [p \in Party |-> R!NotReady]
  /\ localReset = No /\ remoteReset = No /\ abort = No
  /\ game = Zero /\ met = Zero /\ deaths = Zero
  /\ picked = [p \in Party |-> {}]
  /\ seed = Zero /\ peerDelay = Zero
  /\ chan = [p \in Party |-> <<>>]
  /\ fault = [p \in Party |-> "none"]
  /\ hasty = FALSE

Go(p, place) == pc' = [pc EXCEPT ![p] = place]

Send(p, types) == chan' = [chan EXCEPT ![p] = @ \o types]

Incoming(p) == Head(chan[Peer(p)])

(* Take the packet from the peer's channel and send an answer.             *)
Answer(p, types) == chan' = [chan EXCEPT ![p] = @ \o types, ![Peer(p)] = Tail(@)]

-----------------------------------------------------------------------------
(* From the menu to the first meeting.                                     *)

(* p is back in the menu from a game that was reset: a game of n deaths    *)
(* has 5n + 2 meetings.                                                    *)
Quit(p) == state[p] = "inSetup" /\ met[p] # 0 /\ met[p] # 5 * Len(fate) + 2

(* Nothing is left of the last game.                                       *)
Settled ==
  \A p \in Party :
    /\ pc[p] = "menu" /\ chan[p] = <<>>
    /\ ~localOk[p] /\ ~remoteOk[p] /\ ~ready[p].local /\ ~ready[p].remote

(* Netplay_confirm. A game that was reset counts as played to its end as   *)
(* soon as the next is begun.                                              *)
Confirm(p) ==
  /\ pc[p] = "menu" /\ state[p] = "inSetup" /\ ~localOk[p]
  /\ game[p] < MaxGames
  /\ met' = IF Quit(p) THEN [q \in Party |-> 5 * Len(fate) + 2] ELSE met
  /\ hasty' = (hasty \/ (Quit(p) /\ ~Settled))
  /\ localOk' = [localOk EXCEPT ![p] = TRUE]
  /\ Go(p, "confirming")
  /\ Send(p, IF remoteOk[p] THEN <<"HANDSHAKE1">> ELSE <<"HANDSHAKE0">>)
  /\ UNCHANGED <<waiting, state, remoteOk, ready, reset, abort, progress, fault>>

(* Faulty: the random seed is not sent before the meeting.                 *)
PreparePacketsNoSeed(p) == <<"INPUTDELAY">>

PreparePackets(p) ==
  <<"INPUTDELAY">> \o (IF p = Host THEN <<"SEEDRANDOM">> ELSE <<>>)

(* DoConfirmSettings once all players are ready.                           *)
Prepare(p) ==
  /\ pc[p] = "confirming" /\ state[p] = "preBattle"
  /\ game' = [game EXCEPT ![p] = @ + 1]
  /\ met' = [met EXCEPT ![p] = 0]
  /\ deaths' = [deaths EXCEPT ![p] = 0]
  /\ seed' = IF p = Host THEN [seed EXCEPT ![p] = @ + 1] ELSE seed
  /\ Send(p, PreparePackets(p))
  /\ Go(p, "agree")
  /\ UNCHANGED <<fate, waiting, state, handshake, ready, reset, abort, picked, peerDelay, fault, hasty>>

-----------------------------------------------------------------------------
(* The meetings: negotiateReady.                                           *)

(* The state in which a meeting leaves the connection.                     *)
NextState(place) ==
  CASE place \in {"agree", "chosen", "unchosen", "ended", "checkpoint"} -> "interBattle"
    [] place = "choose" -> "selectShip"
    [] place = "fight" -> "inBattle"
    [] place = "over" -> "inSetup"

(* Faulty: the game goes on after its last death.                          *)
NextPlaceNoEnd(p) ==
  CASE pc[p] = "agree" -> "choose"
    [] pc[p] = "choose" -> "picking"
    [] pc[p] = "chosen" -> "fight"
    [] pc[p] = "unchosen" -> IF deaths[p] = 0 THEN "left" ELSE "resetting"
    [] pc[p] = "fight" -> "battle"
    [] pc[p] = "ended" -> "checkpoint"
    [] pc[p] = "checkpoint" -> "fight"
    [] pc[p] = "over" -> "menu"

(* What the program does after a meeting. When the battle is over it looks *)
(* at CHECK_ABORT (Battle), and after MeleeGameOver again (StartMelee).    *)
(* Without ships the battle is aborted (new_ship), or there is none to     *)
(* spawn (GetInitialStarShips).                                            *)
NextPlace(p) ==
  CASE pc[p] = "agree" -> "choose"
    [] pc[p] = "choose" -> "picking"
    [] pc[p] = "chosen" -> "fight"
    [] pc[p] = "unchosen" -> IF deaths[p] = 0 THEN "left" ELSE "resetting"
    [] pc[p] = "fight" -> "battle"
    [] pc[p] = "ended" -> "checkpoint"
    [] pc[p] = "checkpoint" ->
         IF deaths[p] < Len(fate) THEN "choose"
         ELSE IF abort[p] THEN "resetting" ELSE "over"
    [] pc[p] = "over" -> IF abort[p] THEN "left" ELSE "menu"

(* negotiateReadyBothReadyCallback. GetMeleeStarShips forgets the choices  *)
(* of the last time before it negotiates.                                  *)
Met(p) ==
  /\ state' = [state EXCEPT ![p] = NextState(pc[p])]
  /\ Go(p, NextPlace(p))
  /\ waiting' = [waiting EXCEPT ![p] = FALSE]
  /\ met' = [met EXCEPT ![p] = @ + 1]
  /\ picked' = IF NextPlace(p) = "choose" THEN [picked EXCEPT ![p] = {}] ELSE picked
  /\ abort' = [abort EXCEPT ![p] = @ \/ pc[p] = "unchosen"]
  /\ fault' = IF pc[p] = "unchosen" /\ deaths[p] = 0
              THEN [fault EXCEPT ![p] = "shipless"] ELSE fault
  /\ UNCHANGED <<handshake, reset, fate, game, deaths, seed, peerDelay>>

(* The assertions of Netplay_localReady.                                   *)
MayBeReady(p) == state[p] # "inSetup" /\ ~ready[p].local

(* Netplay_localReady, and the packets it sends.                           *)
LocalReady(p, packets) ==
  /\ ready' = [ready EXCEPT ![p] = R!AfterLocal(@, "negotiate")]
  /\ Send(p, packets)
  /\ IF R!MetByLocal(ready[p]) THEN Met(p)
     ELSE /\ waiting' = [waiting EXCEPT ![p] = TRUE]
          /\ UNCHANGED <<pc, state, handshake, reset, abort, met, progress, fault>>
  /\ UNCHANGED hasty

AssertionFails(p) ==
  /\ fault' = [fault EXCEPT ![p] = "assertion"]
  /\ Go(p, "left")
  /\ UNCHANGED <<waiting, state, handshake, ready, reset, abort, met, progress, chan, hasty>>

(* Faulty: the peer is not told.                                           *)
NegotiateSilently(p) ==
  /\ pc[p] \in Meeting /\ ~waiting[p]
  /\ IF MayBeReady(p) THEN LocalReady(p, <<>>) ELSE AssertionFails(p)

Negotiate(p) ==
  /\ pc[p] \in Meeting /\ ~waiting[p]
  /\ IF MayBeReady(p) THEN LocalReady(p, <<"READY">>) ELSE AssertionFails(p)

-----------------------------------------------------------------------------
(* The choice of the ships: DoGetMelee.                                    *)

(* All players choose at first, afterwards the one whose ship died.        *)
Selecting(p) == IF deaths[p] = 0 THEN Party ELSE {fate[deaths[p]]}

(* The own choice. DoGetMelee ends at once if it is the last.              *)
Pick(p) ==
  /\ pc[p] = "picking" /\ ~abort[p]
  /\ p \in Selecting(p) \ picked[p]
  /\ picked' = [picked EXCEPT ![p] = @ \cup {p}]
  /\ Send(p, <<"SELECTSHIP">>)
  /\ IF Selecting(p) \subseteq picked[p] \cup {p} THEN Go(p, "chosen") ELSE UNCHANGED pc
  /\ UNCHANGED <<fate, waiting, state, handshake, ready, reset, abort, game, met,
                 deaths, seed, peerDelay, fault, hasty>>

(* The peer's choice was the last.                                         *)
Picked(p) ==
  /\ pc[p] = "picking" /\ ~abort[p]
  /\ Selecting(p) \subseteq picked[p]
  /\ Go(p, "chosen")
  /\ UNCHANGED <<waiting, state, handshake, ready, reset, abort, met, progress, chan, fault, hasty>>

(* The choice is aborted: DoGetMelee clears CHECK_ABORT, Battle or         *)
(* new_ship sets it again and the battle ends with a reset.                *)
PickAborted(p) ==
  /\ pc[p] = "picking" /\ abort[p]
  /\ ~(Selecting(p) \subseteq picked[p])
  /\ state' = [state EXCEPT ![p] = "interBattle"]
  /\ Go(p, "resetting")
  /\ UNCHANGED <<waiting, handshake, ready, reset, abort, met, progress, chan, fault, hasty>>

(* The poll that aborts the choice has completed it: DoGetMelee clears     *)
(* CHECK_ABORT and forgets the ships, and GetMeleeStarShips goes on.       *)
PickForgotten(p) ==
  /\ pc[p] = "picking" /\ abort[p]
  /\ Selecting(p) \subseteq picked[p]
  /\ abort' = [abort EXCEPT ![p] = FALSE]
  /\ Go(p, "unchosen")
  /\ UNCHANGED <<waiting, state, handshake, ready, reset, met, progress, chan, fault, hasty>>

-----------------------------------------------------------------------------
(* The battle. A ship dies in the same frame on both machines, which then  *)
(* agree when to interrupt the battle (Lockstep has the frames).           *)

ShipDies(p) ==
  /\ pc[p] = "battle"
  /\ deaths' = [deaths EXCEPT ![p] = @ + 1]
  /\ Go(p, "dying")
  /\ UNCHANGED <<waiting, state, handshake, ready, reset, abort, met, fate, game, picked,
                 seed, peerDelay, chan, fault, hasty>>

(* readyToEndCallback on the flags r, its packets after those in before.   *)
ReadyToEnd(p, r, before, channels) ==
  /\ state' = [state EXCEPT ![p] = "endingBattle"]
  /\ chan' = [channels EXCEPT ![p] = @ \o before \o <<"FRAMECOUNT">>]
  /\ ready' = [ready EXCEPT ![p] = R!AfterLocal(r, "toEnd2")]

(* readyForBattleEndPlayer in inBattle. It runs in RedrawQueue, before     *)
(* DoBattle looks at CHECK_ABORT.                                          *)
SignalEnd(p) ==
  LET r == R!AfterLocal(ready[p], "toEnd")
  IN
  /\ pc[p] = "dying"
  /\ state[p] = "inBattle" /\ ~ready[p].local
  /\ IF R!MetByLocal(ready[p])
     THEN ReadyToEnd(p, r, <<"READY">>, chan)
     ELSE /\ ready' = [ready EXCEPT ![p] = r]
          /\ Send(p, <<"READY">>)
          /\ UNCHANGED state
  /\ UNCHANGED <<pc, waiting, handshake, reset, abort, met, progress, fault, hasty>>

(* The own frame is reached and the peer's FRAMECOUNT has not come.        *)
AwaitFrameCount(p) ==
  /\ pc[p] = "dying" /\ state[p] = "endingBattle"
  /\ Go(p, "waitReady")
  /\ UNCHANGED <<waiting, state, handshake, ready, reset, abort, met, progress, chan, fault, hasty>>

EndReached(p) ==
  /\ pc[p] \in {"dying", "waitReady"} /\ state[p] = "endingBattle2"
  /\ Go(p, "ended")
  /\ UNCHANGED <<waiting, state, handshake, ready, reset, abort, met, progress, chan, fault, hasty>>

(* DoBattle finds CHECK_ABORT set. If it was set by the poll at the start  *)
(* of ProcessInput the own input of the frame has been sent since.         *)
AbortBattle(p) ==
  /\ pc[p] \in {"battle", "dying"} /\ abort[p]
  /\ \E inputs \in {<<>>, <<"BATTLEINPUT">>} : Send(p, inputs)
  /\ Go(p, "resetting")
  /\ UNCHANGED <<waiting, state, handshake, ready, reset, abort, met, progress, fault, hasty>>

-----------------------------------------------------------------------------
(* Leaving a game.                                                         *)

(* The player confirms the exit dialog, which any DoInput loop may open.   *)
Exit(p) ==
  /\ pc[p] \in {"picking", "battle", "dying", "waitReady"} \/ waiting[p]
  /\ ~abort[p]
  /\ abort' = [abort EXCEPT ![p] = TRUE]
  /\ UNCHANGED <<pc, waiting, state, handshake, ready, reset, met, progress, chan, fault, hasty>>

(* Netplay_resetConditionTriggered with waitResetBothResetCallback set,    *)
(* and the end of Battle.                                                  *)
BackToMenu(p) ==
  /\ localReset' = [localReset EXCEPT ![p] = FALSE]
  /\ remoteReset' = [remoteReset EXCEPT ![p] = FALSE]
  /\ state' = [state EXCEPT ![p] = "inSetup"]
  /\ abort' = [abort EXCEPT ![p] = FALSE]
  /\ Go(p, "menu")

(* waitReset, Netplay_localReset: a reset that the peer has begun is over  *)
(* now, any other begins.                                                  *)
WaitReset(p) ==
  /\ pc[p] = "resetting"
  /\ IF remoteReset[p]
     THEN BackToMenu(p) /\ UNCHANGED chan
     ELSE /\ localReset' = [localReset EXCEPT ![p] = TRUE]
          /\ Send(p, <<"RESET">>)
          /\ Go(p, "resetWait")
          /\ UNCHANGED <<remoteReset, state, abort>>
  /\ UNCHANGED <<waiting, handshake, ready, met, progress, fault, hasty>>

-----------------------------------------------------------------------------
(* The packet handlers.                                                    *)

Polls(p) ==
  /\ pc[p] \notin {"resetting", "left"}
  /\ chan[Peer(p)] # <<>>

Arrives(p, type) == Polls(p) /\ Incoming(p) = type /\ ~localReset[p]

HandleHandshake0(p) ==
  /\ Arrives(p, "HANDSHAKE0")
  /\ state[p] = "inSetup" /\ ~remoteOk[p]
  /\ remoteOk' = [remoteOk EXCEPT ![p] = TRUE]
  /\ Answer(p, IF localOk[p] THEN <<"HANDSHAKE1">> ELSE <<>>)
  /\ UNCHANGED <<pc, waiting, state, localOk, ready, reset, abort, met, progress, fault, hasty>>

HandleHandshake1(p) ==
  /\ Arrives(p, "HANDSHAKE1")
  /\ state[p] = "inSetup" /\ localOk[p]
  /\ localOk' = [localOk EXCEPT ![p] = FALSE]
  /\ remoteOk' = [remoteOk EXCEPT ![p] = FALSE]
  /\ state' = [state EXCEPT ![p] = "preBattle"]
  /\ Answer(p, IF remoteOk[p] THEN <<>> ELSE <<"HANDSHAKE1">>)
  /\ UNCHANGED <<pc, waiting, ready, reset, abort, met, progress, fault, hasty>>

HandleInputDelay(p) ==
  /\ Arrives(p, "INPUTDELAY")
  /\ state[p] = "preBattle"
  /\ peerDelay' = [peerDelay EXCEPT ![p] = @ + 1]
  /\ Answer(p, <<>>)
  /\ UNCHANGED <<fate, pc, waiting, state, handshake, ready, reset, abort, game, met,
                 deaths, picked, seed, fault, hasty>>

HandleSeedRandom(p) ==
  /\ Arrives(p, "SEEDRANDOM")
  /\ state[p] = "preBattle" /\ p # Host
  /\ seed' = [seed EXCEPT ![p] = @ + 1]
  /\ Answer(p, <<>>)
  /\ UNCHANGED <<fate, pc, waiting, state, handshake, ready, reset, abort, game, met,
                 deaths, picked, peerDelay, fault, hasty>>

(* Faulty: not while a ship is chosen.                                     *)
ReadyFlagsNotSelecting(p) == state[p] \notin {"inSetup", "selectShip"}

(* readyFlagsMeaningful                                                    *)
ReadyFlagsMeaningful(p) == state[p] # "inSetup"

HandleReady(p) ==
  LET r == R!AfterRemote(ready[p])
  IN
  /\ Arrives(p, "READY")
  /\ ReadyFlagsMeaningful(p) /\ ~ready[p].remote
  /\ IF ~R!MetByRemote(ready[p])
     THEN /\ ready' = [ready EXCEPT ![p] = r]
          /\ Answer(p, <<>>)
          /\ UNCHANGED <<pc, waiting, state, handshake, reset, abort, met, progress, fault>>
     ELSE CASE ready[p].callback = "toEnd" ->
                 /\ ReadyToEnd(p, r, <<>>, [chan EXCEPT ![Peer(p)] = Tail(@)])
                 /\ UNCHANGED <<pc, waiting, handshake, reset, abort, met, progress, fault>>
            [] ready[p].callback = "toEnd2" ->
                 /\ state' = [state EXCEPT ![p] = "endingBattle2"]
                 /\ ready' = [ready EXCEPT ![p] = r]
                 /\ Answer(p, <<>>)
                 /\ UNCHANGED <<pc, waiting, handshake, reset, abort, met, progress, fault>>
            [] ready[p].callback = "negotiate" ->
                 /\ Met(p)
                 /\ ready' = [ready EXCEPT ![p] = r]
                 /\ Answer(p, <<>>)
  /\ UNCHANGED hasty

HandleSelectShip(p) ==
  /\ Arrives(p, "SELECTSHIP")
  /\ state[p] = "selectShip" /\ Peer(p) \in Selecting(p) \ picked[p]
  /\ picked' = [picked EXCEPT ![p] = @ \cup {Peer(p)}]
  /\ Answer(p, <<>>)
  /\ UNCHANGED <<fate, pc, waiting, state, handshake, ready, reset, abort, game, met,
                 deaths, seed, peerDelay, fault, hasty>>

HandleBattleInput(p) ==
  /\ Arrives(p, "BATTLEINPUT")
  /\ state[p] \in {"inBattle", "endingBattle", "endingBattle2"}
  /\ Answer(p, <<>>)
  /\ UNCHANGED <<pc, waiting, state, handshake, ready, reset, abort, met, progress, fault, hasty>>

HandleFrameCount(p) ==
  /\ Arrives(p, "FRAMECOUNT")
  /\ state[p] = "endingBattle"
  /\ ready' = [ready EXCEPT ![p] = R!AfterRemote(@)]
  /\ state' = IF R!MetByRemote(ready[p])
              THEN [state EXCEPT ![p] = "endingBattle2"] ELSE state
  /\ Answer(p, <<>>)
  /\ UNCHANGED <<pc, waiting, handshake, reset, abort, met, progress, fault, hasty>>

(* Faulty: the peer's reset is noted but not confirmed.                    *)
ResetUnconfirmed(p) ==
  /\ Polls(p) /\ Incoming(p) = "RESET"
  /\ ~remoteReset[p]
  /\ Answer(p, <<>>)
  /\ IF pc[p] = "resetWait"
     THEN BackToMenu(p)
     ELSE /\ remoteReset' = [remoteReset EXCEPT ![p] = TRUE]
          /\ localReset' = [localReset EXCEPT ![p] = TRUE]
          /\ abort' = [abort EXCEPT ![p] = @ \/ state[p] # "inSetup"]
          /\ UNCHANGED <<pc, state>>
  /\ UNCHANGED <<waiting, handshake, ready, met, progress, fault, hasty>>

(* PacketHandler_Reset, Netplay_remoteReset, resetFeedback: the reset of   *)
(* the peer is confirmed unless p has sent its own. The answer leaves      *)
(* before the player is told, and p does nothing until the player has read *)
(* that, so both are one step; p goes on only if its player does.          *)
HandleReset(p) ==
  /\ Polls(p) /\ Incoming(p) = "RESET"
  /\ ~remoteReset[p]
  /\ Answer(p, IF localReset[p] THEN <<>> ELSE <<"RESET">>)
  /\ IF pc[p] = "resetWait"
     THEN BackToMenu(p)
     ELSE /\ remoteReset' = [remoteReset EXCEPT ![p] = TRUE]
          /\ localReset' = [localReset EXCEPT ![p] = TRUE]
          /\ abort' = [abort EXCEPT ![p] = @ \/ state[p] # "inSetup"]
          /\ UNCHANGED <<pc, state>>
  /\ UNCHANGED <<waiting, handshake, ready, met, progress, fault, hasty>>

(* A packet of the game that is being reset.                               *)
DropPacket(p) ==
  /\ Polls(p) /\ Incoming(p) # "RESET" /\ localReset[p]
  /\ Answer(p, <<>>)
  /\ UNCHANGED <<pc, waiting, state, handshake, ready, reset, abort, met, progress, fault, hasty>>

Acceptable(p, type) ==
  \/ type = "RESET" /\ ~remoteReset[p]
  \/ type # "RESET" /\ localReset[p]
  \/ type = "HANDSHAKE0" /\ state[p] = "inSetup" /\ ~remoteOk[p]
  \/ type = "HANDSHAKE1" /\ state[p] = "inSetup" /\ localOk[p]
  \/ type = "INPUTDELAY" /\ state[p] = "preBattle"
  \/ type = "SEEDRANDOM" /\ state[p] = "preBattle" /\ p # Host
  \/ type = "READY" /\ ReadyFlagsMeaningful(p) /\ ~ready[p].remote
  \/ type = "SELECTSHIP" /\ state[p] = "selectShip" /\ Peer(p) \in Selecting(p) \ picked[p]
  \/ type = "BATTLEINPUT" /\ state[p] \in {"inBattle", "endingBattle", "endingBattle2"}
  \/ type = "FRAMECOUNT" /\ state[p] = "endingBattle"

(* The handler returns -1 and the connection is closed.                    *)
RefusePacket(p) ==
  /\ Polls(p)
  /\ ~Acceptable(p, Incoming(p))
  /\ fault' = [fault EXCEPT ![p] = Incoming(p)]
  /\ Go(p, "left")
  /\ UNCHANGED <<waiting, state, handshake, ready, reset, abort, met, progress, chan, hasty>>

(* The connection is lost. Every loop notices sooner or later; what the    *)
(* program does with the rest of the game is no longer of interest.        *)
Lose(p) ==
  /\ pc[p] # "left"
  /\ Go(p, "left")
  /\ UNCHANGED <<waiting, state, handshake, ready, reset, abort, met, progress, chan, fault, hasty>>

PeerLost(p) == pc[Peer(p)] = "left" /\ chan[Peer(p)] = <<>> /\ Lose(p)

Receive(p) ==
  \/ HandleHandshake0(p) \/ HandleHandshake1(p) \/ HandleInputDelay(p)
  \/ HandleSeedRandom(p) \/ HandleReady(p) \/ HandleSelectShip(p)
  \/ HandleBattleInput(p) \/ HandleFrameCount(p) \/ HandleReset(p)
  \/ DropPacket(p) \/ RefusePacket(p)

(* What the program does by itself.                                        *)
Proceed(p) ==
  \/ Prepare(p) \/ Negotiate(p) \/ Picked(p) \/ PickAborted(p) \/ PickForgotten(p)
  \/ SignalEnd(p) \/ AwaitFrameCount(p) \/ EndReached(p) \/ AbortBattle(p)
  \/ WaitReset(p)

Player(p) == Confirm(p) \/ Pick(p) \/ Exit(p)

Next ==
  \E p \in Party : Player(p) \/ ShipDies(p) \/ Proceed(p) \/ Receive(p) \/ PeerLost(p) \/ Lose(p)

Fairness ==
  \A p \in Party : WF_vars(Proceed(p)) /\ WF_vars(Receive(p)) /\ WF_vars(PeerLost(p))

Spec == Init /\ [][Next]_vars /\ Fairness

-----------------------------------------------------------------------------

NoReset == \A p \in Party : ~localReset[p] /\ ~remoteReset[p] /\ pc[p] # "left"

(* Unless a game is being reset, a side passes a meeting only when the     *)
(* other waits there, with the READY it needs on its way: the two programs *)
(* are never more than one meeting apart (negotiateReady). This is so in   *)
(* every game, also after one that was reset, as long as no game is begun  *)
(* with something left of one that was reset.                              *)
MeetTogether ==
  NoReset /\ ~hasty => \A p, q \in Party :
    game[p] = game[q] /\ met[p] > met[q] =>
      /\ met[p] = met[q] + 1
      /\ waiting[q]
      /\ \E i \in DOMAIN chan[p] : chan[p][i] = "READY"

(* Both machines fight with the same random seed and know each other's     *)
(* input delay when they leave the first meeting: "before the reception of *)
(* 'Done' it will have received the seed" (DoConfirmSettings).             *)
Prepared ==
  \A p \in Party :
    state[p] \notin {"inSetup", "preBattle"} => seed[p] = game[p] /\ peerDelay[p] = game[p]

(* A reset that has not been confirmed can still be: the RESET of the side *)
(* that asked for it or the answer is on its way.                          *)
ResetNotLost ==
  \A p \in Party :
    LET q == Peer(p)
        has(r) == \E i \in DOMAIN chan[r] : chan[r][i] = "RESET"
    IN  /\ remoteReset[p] => localReset[p]
        /\ localReset[p] /\ ~remoteReset[p] => has(p) \/ has(q)

(* Only what a side still sends after its RESET can be refused, by a side  *)
(* that has returned to the menu, as long as no game is begun with         *)
(* something left of one that was reset (Netplay_remoteReset).             *)
OnlyLatePacketRefused ==
  ~hasty => \A p \in Party : fault[p] \in PacketType =>
    fault[p] \in {"BATTLEINPUT", "READY"} /\ state[p] = "inSetup"

(* The assertions of Netplay_localReady hold: no flag is left from an      *)
(* earlier negotiation.                                                    *)
NoAssertionFails == \A p \in Party : fault[p] # "assertion"

(* A game that is aborted during the choice of the ships ends in the menu  *)
(* (Battle), and does not go on to a battle without ships.                 *)
AbortedGameEnds == \A p \in Party : fault[p] # "shipless"

(* Nobody waits at a meeting for ever, unless a game is reset or the       *)
(* connection is lost: no player has to do anything for it to end.         *)
MeetingsEnd ==
  \A p \in Party : waiting[p] ~>
    (~waiting[p] \/ hasty \/ \E q \in Party : localReset[q] \/ pc[q] = "left")

(* The side that asks for a reset is answered and returns to its menu.     *)
ResetAnswered ==
  \A p \in Party : pc[p] = "resetWait" ~> (pc[p] # "resetWait" \/ hasty)

(* Every side whose peer has reset the game returns to its menu: "the game *)
(* will wait until the reset callback for each connection has been called" *)
(* (reset.c).                                                              *)
ResetCompletes ==
  \A p \in Party : remoteReset[p] ~> (~remoteReset[p] \/ pc[p] = "left")

(* The flags of both machines fit together in every phase of a game, as    *)
(* long as no game is begun with something left of one that was reset.     *)
FlagsAgree == ~hasty => TypeOK /\ Prepared /\ ResetNotLost /\ NoAssertionFails

(* Neither a meeting nor the answer to a reset is waited for in vain.      *)
WaitsEnd == MeetingsEnd /\ ResetAnswered
=============================================================================
