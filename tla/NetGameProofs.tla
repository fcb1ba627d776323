---------------------------- MODULE NetGameProofs ----------------------------
(***************************************************************************)
(* Proofs about the games over a connection, for any number of games and   *)
(* of ship deaths, any of which the players may leave: until a game is     *)
(* begun with something left of one that was reset, the programs are never *)
(* more than one meeting apart, the flags of both machines fit together,   *)
(* and no packet is refused but one sent after a reset.                    *)
(*                                                                         *)
(* The argument gives every machine a place in the course of the games. At *)
(* each place a machine says something to the other, a few packets of      *)
(* which the last is its signal, and it goes on to the next place when     *)
(* both have signaled. So what one has said there or one place ahead is    *)
(* what the other has heard, followed by what is on its way.               *)
(***************************************************************************)
EXTENDS NetGame, SequenceTheorems, TLAPS

-----------------------------------------------------------------------------
(* Places.                                                                 *)

Stage == {"handshake", "agree", "choose", "chosen", "fight", "toEnd", "toEnd2",
          "ended", "checkpoint", "over"}

Position == [game : Nat, turn : Nat, stage : Stage]

(* What p negotiates now or next.                                          *)
StageOf(p) ==
  IF pc[p] = "menu" THEN "handshake"
  ELSE IF pc[p] = "confirming"
  THEN IF state[p] = "inSetup" THEN "handshake" ELSE "agree"
  ELSE IF pc[p] \in {"picking", "unchosen"} THEN "chosen"
  ELSE IF pc[p] \in {"battle", "dying", "waitReady"}
  THEN IF state[p] = "inBattle" THEN "toEnd"
       ELSE IF state[p] = "endingBattle" THEN "toEnd2" ELSE "ended"
  ELSE pc[p]

(* The game it belongs to, and the ships that had died when its turn began.*)
Round(p) == IF pc[p] \in {"menu", "confirming"} THEN game[p] + 1 ELSE game[p]

Turn(p) ==
  IF StageOf(p) \in {"handshake", "agree"} THEN 0
  ELSE IF StageOf(p) \in {"choose", "chosen", "fight", "over"} \/ pc[p] = "battle"
  THEN deaths[p] ELSE deaths[p] - 1

At(p) == [game |-> Round(p), turn |-> Turn(p), stage |-> StageOf(p)]

NextStage(stage) ==
  IF stage = "handshake" THEN "agree" ELSE IF stage = "agree" THEN "choose"
  ELSE IF stage = "choose" THEN "chosen" ELSE IF stage = "chosen" THEN "fight"
  ELSE IF stage = "fight" THEN "toEnd" ELSE IF stage = "toEnd" THEN "toEnd2"
  ELSE IF stage = "toEnd2" THEN "ended" ELSE "checkpoint"

Following(f, x) ==
  IF x.stage = "over" THEN [game |-> x.game + 1, turn |-> 0, stage |-> "handshake"]
  ELSE IF x.stage = "checkpoint"
  THEN [game |-> x.game, turn |-> x.turn + 1,
        stage |-> IF x.turn + 1 < Len(f) THEN "choose" ELSE "over"]
  ELSE [game |-> x.game, turn |-> x.turn, stage |-> NextStage(x.stage)]

(* p chooses a ship at x.                                                  *)
Chooses(f, p, x) == x.turn = 0 \/ p = f[x.turn]

(* What p says at x, its signal included.                                  *)
Whole(f, p, x) ==
  IF x.stage = "handshake" THEN <<"HANDSHAKE0", "HANDSHAKE1">>
  ELSE IF x.stage = "agree"
  THEN IF p = Host THEN <<"INPUTDELAY", "SEEDRANDOM", "READY">>
       ELSE <<"INPUTDELAY", "READY">>
  ELSE IF x.stage = "chosen" /\ Chooses(f, p, x)
  THEN <<"SELECTSHIP", "READY">>
  ELSE IF x.stage = "toEnd2" THEN <<"FRAMECOUNT">>
  ELSE <<"READY">>

(* What p may have said at x when it stops.                                *)
Parts(f, p, x) ==
  IF x.stage = "handshake"
  THEN {<<>>, <<"HANDSHAKE0">>, <<"HANDSHAKE1">>, <<"HANDSHAKE0", "HANDSHAKE1">>}
  ELSE IF x.stage = "agree" THEN {<<>>, PreparePackets(p), Whole(f, p, x)}
  ELSE IF x.stage = "chosen" /\ Chooses(f, p, x) THEN {<<>>, <<"SELECTSHIP">>, Whole(f, p, x)}
  ELSE IF x.stage = "toEnd2" THEN {<<"FRAMECOUNT">>}
  ELSE {<<>>, <<"READY">>}

(* What p has said where it is. A player who confirms after the peer has   *)
(* done so says one packet less.                                           *)
SaidFirst(p) ==
  IF StageOf(p) = "agree" /\ pc[p] # "confirming" THEN PreparePackets(p)
  ELSE IF StageOf(p) = "chosen" /\ p \in picked[p] THEN <<"SELECTSHIP">>
  ELSE <<>>

Said(p) ==
  IF StageOf(p) = "handshake"
  THEN IF ~localOk[p] THEN {<<>>}
       ELSE IF ~remoteOk[p] THEN {<<"HANDSHAKE0">>}
       ELSE {<<"HANDSHAKE1">>, <<"HANDSHAKE0", "HANDSHAKE1">>}
  ELSE IF ready[p].local THEN {Whole(fate, p, At(p))} ELSE {SaidFirst(p)}

Signaled(p) ==
  IF StageOf(p) = "handshake" THEN localOk[p] /\ remoteOk[p] ELSE ready[p].local

(* What p has heard from the peer at the place where it is.                *)
HeardFirst(p) ==
  IF StageOf(p) = "handshake"
  THEN IF remoteOk[p] THEN <<"HANDSHAKE0">> ELSE <<>>
  ELSE IF StageOf(p) = "agree"
  THEN IF peerDelay[p] # Round(p) THEN <<>>
       ELSE IF p # Host /\ seed[p] = Round(p) THEN <<"INPUTDELAY", "SEEDRANDOM">>
       ELSE <<"INPUTDELAY">>
  ELSE IF StageOf(p) = "chosen" /\ Peer(p) \in picked[p] THEN <<"SELECTSHIP">>
  ELSE <<>>

Heard(p) == IF ready[p].remote THEN Whole(fate, Peer(p), At(p)) ELSE HeardFirst(p)

Confirmed == {<<"HANDSHAKE1">>, <<"HANDSHAKE0", "HANDSHAKE1">>}

(* The sender p has said o at x. The receiver is at y and has heard what   *)
(* is said there so far; body is on its way.                               *)
Flow(f, p, x, o, body, y, heard, signaled, confirmed) ==
  \/ x = y /\ heard \o body = o /\ (o \in Confirmed => confirmed)
  \/ x = Following(f, y) /\ heard \o body = Whole(f, p, y) \o o /\ signaled /\ o \notin Confirmed
  \/ y = Following(f, x) /\ heard = <<>> /\ body = <<>> /\ o \in Confirmed \cup {Whole(f, p, x)}

-----------------------------------------------------------------------------
(* Resets.                                                                 *)

(* p has sent a RESET; p has handled that of its peer.                     *)
Asked(p) == localReset[p] \/ Quit(p)
Told(p) == remoteReset[p] \/ Quit(p)

(* The program of p is in a game, or between two; nobody resets it.        *)
Active(p) == pc[p] \notin {"resetting", "resetWait", "left"} /\ ~Quit(p)
Live(p) == Active(p) /\ ~localReset[p]

(* p goes no further.                                                      *)
Stopped(p) == pc[p] = "resetting" \/ Asked(p)

(* The number of meetings passed at x, for the places where p may stop.    *)
MetAt(x) ==
  IF x.stage = "chosen" THEN 5 * x.turn + 2
  ELSE IF x.stage = "fight" THEN 5 * x.turn + 3
  ELSE IF x.stage = "over" THEN 5 * x.turn + 1 ELSE 5 * x.turn + 4

Fighting == {"toEnd", "toEnd2", "ended"}

StopAt(p, x, o) ==
  /\ x.stage \in {"chosen", "fight", "over"} \cup Fighting
  /\ x.game = game[p]
  /\ x.turn <= Len(fate)
  /\ x.stage = "over" => x.turn = Len(fate)
  /\ x.stage # "over" => x.turn < Len(fate)
  /\ met[p] = MetAt(x)
  /\ x.stage \notin {"toEnd", "toEnd2"} => o \in {<<>>, <<"SELECTSHIP">>}

(* What p sends after its part of the last negotiation.                    *)
End(p, x, end) ==
  \/ end = <<>> /\ ~Asked(p)
  \/ end = <<"BATTLEINPUT">> /\ ~Asked(p) /\ ~Live(p) /\ x.stage \in Fighting
  \/ end = <<"RESET">> /\ Asked(p)
  \/ end = <<"BATTLEINPUT", "RESET">> /\ Asked(p) /\ x.stage \in Fighting

(* The packets from p to a peer that nobody resets.                        *)
FlowOf(p, x, o, body) ==
  LET q == Peer(p)
  IN  Flow(fate, p, x, o, body, At(q), Heard(q), Signaled(q), localOk[q])

Stream(p, x, o, body, end) ==
  /\ chan[p] = body \o end
  /\ FlowOf(p, x, o, body)
  /\ End(p, x, end)
  /\ Live(p) => x = At(p) /\ o \in Said(p)
  /\ Stopped(p) \/ end # <<>> => StopAt(p, x, o)

Flows(p) ==
  Live(Peer(p)) =>
    \E x \in Position, body, end \in Seq(PacketType) :
      \E o \in Parts(fate, p, x) : Stream(p, x, o, body, end)

NoResetIn(s) == \A i \in 1 .. Len(s) : s[i] # "RESET"

(* What comes after a RESET: the side that sent it as an answer may still  *)
(* be in the middle of the game. Its peer has asked for the reset.         *)
Late(s, q) ==
  /\ NoResetIn(s)
  /\ s # <<>> => Head(s) \in {"BATTLEINPUT", "READY"} /\ ~remoteReset[q] /\ Asked(q)

Outgoing(p) ==
  LET q == Peer(p)
  IN  /\ ~Asked(p) => NoResetIn(chan[p])
      /\ Asked(p) /\ Told(q) => Late(chan[p], q)
      /\ Asked(p) /\ ~Told(q) =>
           \E before, after \in Seq(PacketType) :
             /\ chan[p] = before \o <<"RESET">> \o after
             /\ NoResetIn(before) /\ Late(after, q)

MidGame(p) ==
  met[p] # 0 /\ met[p] # 5 * Len(fate) + 2 /\ game[p] > 0

Resets(p) ==
  LET q == Peer(p)
  IN  /\ remoteReset[p] => localReset[p]
      /\ localReset[p] => ~Quit(p) /\ MidGame(p)
      /\ Told(p) => Asked(q)
      /\ ~(remoteReset[p] /\ remoteReset[q])
      /\ localReset[p] /\ ~remoteReset[p] => pc[p] \in {"resetWait", "left"}
      /\ pc[p] = "resetWait" => localReset[p] /\ ~remoteReset[p]
      /\ remoteReset[p] /\ Active(p) =>
           (abort[p] \/ pc[p] = "unchosen") /\ (ready[p].remote => StageOf(p) = "toEnd")
      /\ Quit(p) => pc[p] \in {"menu", "left"} /\ MidGame(p)
      /\ pc[p] = "resetting" => state[p] # "inSetup" /\ MidGame(p)
      /\ Stopped(p) /\ Stopped(q) => met[p] = met[q] /\ game[p] = game[q]

-----------------------------------------------------------------------------
(* Where the program is.                                                   *)

Resting(p) ==
  /\ ~ready[p].local /\ ~waiting[p] /\ ~abort[p]
  /\ (game[p] = 0 /\ met[p] = 0) \/ (game[p] > 0 /\ met[p] = 5 * Len(fate) + 2)

InMenu(p) ==
  /\ pc[p] = "menu" => state[p] = "inSetup" /\ ~localOk[p] /\ Resting(p)
  /\ pc[p] = "confirming" =>
       /\ \/ state[p] = "inSetup" /\ localOk[p]
          \/ state[p] = "preBattle" /\ ~localOk[p] /\ ~remoteOk[p]
       /\ Resting(p) /\ game[p] < MaxGames
  /\ pc[p] \notin {"menu", "confirming"} => ~localOk[p] /\ ~remoteOk[p] /\ game[p] > 0

InGame(p) ==
  LET d == deaths[p]
  IN
  /\ pc[p] = "agree" => state[p] = "preBattle" /\ met[p] = 0 /\ d = 0
  /\ pc[p] = "choose" =>
       state[p] = "interBattle" /\ met[p] = 5 * d + 1 /\ d < Len(fate) /\ picked[p] = {}
  /\ pc[p] \in {"picking", "chosen", "unchosen"} =>
       /\ state[p] = "selectShip" /\ met[p] = 5 * d + 2 /\ d < Len(fate)
       /\ picked[p] \subseteq Selecting(p)
  /\ pc[p] \in {"chosen", "unchosen"} => Selecting(p) \subseteq picked[p]
  /\ pc[p] = "fight" => state[p] = "interBattle" /\ met[p] = 5 * d + 3 /\ d < Len(fate)
  /\ pc[p] = "battle" => state[p] = "inBattle" /\ met[p] = 5 * d + 4 /\ d < Len(fate)
  /\ pc[p] = "dying" => state[p] \in {"inBattle", "endingBattle", "endingBattle2"}
  /\ pc[p] = "waitReady" => state[p] \in {"endingBattle", "endingBattle2"}
  /\ pc[p] = "ended" => state[p] = "endingBattle2"
  /\ pc[p] \in {"dying", "waitReady", "ended"} => d > 0 /\ met[p] = 5 * d - 1
  /\ pc[p] = "checkpoint" => state[p] = "interBattle" /\ d > 0 /\ met[p] = 5 * d
  /\ pc[p] = "over" => state[p] = "interBattle" /\ d = Len(fate) /\ met[p] = 5 * d + 1

(* The flags of the Ready negotiation.                                     *)
ReadyAt(p) ==
  LET r == ready[p]
  IN
  /\ ~(r.local /\ r.remote)
  /\ waiting[p] => pc[p] \in Meeting /\ r.callback = "negotiate"
  /\ pc[p] \in Meeting => r.local = waiting[p]
  /\ pc[p] \in {"picking", "battle"} => ~r.local
  /\ state[p] = "inBattle" /\ r.local => r.callback = "toEnd"
  /\ state[p] = "endingBattle" => r.local /\ r.callback = "toEnd2"
  /\ pc[p] \in {"dying", "waitReady"} /\ state[p] = "endingBattle2" => ~r.local
  /\ StageOf(p) = "handshake" => ~r.remote

(* What the peer has said of the game.                                     *)
Informed(p) ==
  /\ StageOf(p) = "handshake" => peerDelay[p] = game[p] /\ seed[p] = game[p]
  /\ StageOf(p) = "agree" =>
       /\ peerDelay[p] \in {Round(p) - 1, Round(p)}
       /\ IF p = Host THEN seed[p] = game[p] ELSE seed[p] \in {Round(p) - 1, Round(p)}
       /\ p # Host /\ seed[p] = Round(p) => peerDelay[p] = Round(p)
       /\ ready[p].remote => peerDelay[p] = Round(p) /\ (p = Host \/ seed[p] = Round(p))
  /\ StageOf(p) \notin {"handshake", "agree"} =>
       seed[p] = game[p] /\ peerDelay[p] = game[p]

Placed(p) == Active(p) => InMenu(p) /\ InGame(p) /\ ReadyAt(p) /\ Informed(p)

(* Only what is sent after a reset is refused.                             *)
Faultless(p) ==
  /\ fault[p] # "assertion"
  /\ fault[p] \in PacketType => fault[p] \in {"BATTLEINPUT", "READY"} /\ state[p] = "inSetup"
  /\ fault[p] # "none" => pc[p] = "left"
  /\ state[p] \notin {"inSetup", "preBattle"} => seed[p] = game[p] /\ peerDelay[p] = game[p]

IInv ==
  /\ TypeOK /\ Len(fate) >= 1
  /\ \A p \in Party : Placed(p) /\ Resets(p) /\ Outgoing(p) /\ Flows(p) /\ Faultless(p)

(* A game that is reset leaves nothing but the flags that Settled looks at.*)
Settles(p) ==
  /\ pc[p] \in {"resetting", "resetWait"} \/ Quit(p) => seed[p] = game[p] /\ peerDelay[p] = game[p]
  /\ pc[p] \in {"resetting", "resetWait"} \/ (Quit(p) /\ pc[p] = "menu") => ~waiting[p]
  /\ Quit(p) /\ pc[p] = "menu" => ~abort[p]

Leftovers == \A p \in Party : Settles(p)

-----------------------------------------------------------------------------
(* Sequences.                                                              *)

LEMMA PeerFacts ==
  ASSUME NEW p \in Party
  PROVE  /\ Peer(p) \in Party /\ Peer(p) # p
         /\ Peer(Peer(p)) = p
         /\ \A q \in Party : q = p \/ q = Peer(p)
<1>1. PICK a \in Party, b \in Party : a # b /\ Party = {a, b}
  BY PartyAssumption
<1>2. \A r \in Party : Peer(r) \in Party /\ Peer(r) # r
  <2> TAKE r \in Party
  <2>1. \E q \in Party : q # r
    BY <1>1
  <2> QED BY <2>1 DEF Peer
<1> QED BY <1>1, <1>2

LEMMA Join ==
  ASSUME NEW S, NEW a \in Seq(S), NEW b \in Seq(S), NEW c \in Seq(S)
  PROVE  /\ a \o b \in Seq(S) /\ (a \o b) \o c = a \o (b \o c)
         /\ a \o <<>> = a /\ <<>> \o a = a
<1>1. a \o b \in Seq(S) /\ b \o c \in Seq(S)
  OBVIOUS
<1>2. (a \o b) \o c \in Seq(S) /\ a \o (b \o c) \in Seq(S)
  BY <1>1
<1>3. Len((a \o b) \o c) = Len(a \o (b \o c))
  BY <1>1
<1>4. \A i \in 1 .. Len((a \o b) \o c) : ((a \o b) \o c)[i] = (a \o (b \o c))[i]
  BY <1>1
<1> QED BY <1>1, <1>2, <1>3, <1>4, SeqEqual

(* The first element of b moves from b to a.                               *)
LEMMA Move ==
  ASSUME NEW S, NEW a \in Seq(S), NEW b \in Seq(S), b # <<>>
  PROVE  /\ Append(a, Head(b)) \in Seq(S) /\ Tail(b) \in Seq(S)
         /\ Append(a, Head(b)) \o Tail(b) = a \o b
         /\ Len(a) < Len(a \o b) /\ (a \o b)[Len(a) + 1] = Head(b)
         /\ Append(a, Head(b)) = a \o <<Head(b)>>
<1>1. Head(b) \in S /\ Tail(b) \in Seq(S) /\ Len(b) >= 1
  OBVIOUS
<1>2. Append(a, Head(b)) \in Seq(S)
  BY <1>1
<1>3. Append(a, Head(b)) \o Tail(b) \in Seq(S) /\ a \o b \in Seq(S)
  BY <1>1, <1>2
<1>4. Len(Append(a, Head(b)) \o Tail(b)) = Len(a \o b)
  BY <1>1, <1>2
<1>5. \A i \in 1 .. Len(a \o b) : (Append(a, Head(b)) \o Tail(b))[i] = (a \o b)[i]
  BY <1>1, <1>2
<1>6. Append(a, Head(b)) \o Tail(b) = a \o b
  BY <1>3, <1>4, <1>5, SeqEqual
<1>7. Append(a, Head(b)) = a \o <<Head(b)>>
  BY <1>1
<1> QED BY <1>1, <1>2, <1>6, <1>7

LEMMA Cancel ==
  ASSUME NEW S, NEW a \in Seq(S), NEW b \in Seq(S), NEW c \in Seq(S), a \o b = a \o c
  PROVE  b = c
<1>1. Len(b) = Len(c)
  BY Len(a \o b) = Len(a) + Len(b), Len(a \o c) = Len(a) + Len(c)
<1>2. \A i \in 1 .. Len(b) : b[i] = c[i]
  <2> TAKE i \in 1 .. Len(b)
  <2>1. (a \o b)[Len(a) + i] = b[i] /\ (a \o c)[Len(a) + i] = c[i]
    BY <1>1
  <2> QED BY <2>1
<1> QED BY <1>1, <1>2, SeqEqual

(* What stands first in two joined sequences.                              *)
LEMMA First ==
  ASSUME NEW S, NEW a \in Seq(S), NEW b \in Seq(S)
  PROVE  /\ a # <<>> => a \o b # <<>> /\ Head(a \o b) = Head(a) /\ Tail(a \o b) = Tail(a) \o b
         /\ a \o b # <<>> <=> a # <<>> \/ b # <<>>
<1>1. ASSUME a # <<>>
      PROVE  a \o b # <<>> /\ Head(a \o b) = Head(a) /\ Tail(a \o b) = Tail(a) \o b
  <2>1. Len(a) >= 1 /\ a \o b \in Seq(S) /\ Len(a \o b) = Len(a) + Len(b)
    BY <1>1
  <2>2. Head(a \o b) = Head(a)
    BY <2>1
  <2>3. Tail(a \o b) \in Seq(S) /\ Tail(a) \o b \in Seq(S)
        /\ Len(Tail(a \o b)) = Len(Tail(a) \o b)
    BY <1>1, <2>1
  <2>4. \A i \in 1 .. Len(Tail(a \o b)) : Tail(a \o b)[i] = (Tail(a) \o b)[i]
    BY <1>1, <2>1, <2>3
  <2> QED BY <2>1, <2>2, <2>3, <2>4, SeqEqual
<1>2. a = <<>> => a \o b = b
  OBVIOUS
<1> QED BY <1>1, <1>2

-----------------------------------------------------------------------------
(* What is said at a place.                                                *)

LEMMA Tuples ==
  ASSUME NEW a \in PacketType, NEW b \in PacketType, NEW c \in PacketType
  PROVE  /\ Append(<<>>, a) = <<a>> /\ Append(<<a>>, b) = <<a, b>>
         /\ Append(<<a, b>>, c) = <<a, b, c>>
         /\ <<a>> \o <<b>> = <<a, b>> /\ <<a, b>> \o <<c>> = <<a, b, c>>
         /\ <<>> \o <<a>> = <<a>>
<1>1. <<a>> \in Seq(PacketType) /\ <<b>> \in Seq(PacketType) /\ <<a, b>> \in Seq(PacketType)
      /\ <<a, b, c>> \in Seq(PacketType)
  OBVIOUS
<1>2. Append(<<>>, a) = <<a>>
  OBVIOUS
<1>3. <<a>> \o <<b>> = <<a, b>> /\ Append(<<a>>, b) = <<a, b>>
  <2>1. \A i \in 1 .. 2 : (<<a>> \o <<b>>)[i] = <<a, b>>[i] /\ Append(<<a>>, b)[i] = <<a, b>>[i]
    BY <1>1
  <2>2. <<a>> \o <<b>> \in Seq(PacketType) /\ Len(<<a>> \o <<b>>) = 2
        /\ Append(<<a>>, b) \in Seq(PacketType) /\ Len(Append(<<a>>, b)) = 2 /\ Len(<<a, b>>) = 2
    BY <1>1
  <2> QED BY <1>1, <2>1, <2>2, SeqEqual
<1>4. Append(<<a, b>>, c) = <<a, b, c>> /\ <<a, b>> \o <<c>> = <<a, b, c>>
  <2>0. <<c>> \in Seq(PacketType)
    OBVIOUS
  <2>1. \A i \in 1 .. 3 : Append(<<a, b>>, c)[i] = <<a, b, c>>[i]
                           /\ (<<a, b>> \o <<c>>)[i] = <<a, b, c>>[i]
    BY <2>0, <1>1
  <2>2. /\ Append(<<a, b>>, c) \in Seq(PacketType) /\ Len(Append(<<a, b>>, c)) = 3
        /\ Len(<<a, b, c>>) = 3
        /\ <<a, b>> \o <<c>> \in Seq(PacketType) /\ Len(<<a, b>> \o <<c>>) = 3
    BY <2>0, <1>1
  <2> QED BY <1>1, <2>1, <2>2, SeqEqual
<1> QED BY <1>1, <1>2, <1>3, <1>4, Join

LEMMA PreparedPackets ==
  ASSUME NEW p \in Party
  PROVE  /\ PreparePackets(p) \in Seq(PacketType)
         /\ PreparePackets(p) = IF p = Host THEN <<"INPUTDELAY", "SEEDRANDOM">>
                                ELSE <<"INPUTDELAY">>
<1>1. <<"INPUTDELAY", "SEEDRANDOM">> \in Seq(PacketType) /\ <<"INPUTDELAY">> \in Seq(PacketType)
  BY DEF PacketType
<1>2. <<"INPUTDELAY">> \o <<"SEEDRANDOM">> = <<"INPUTDELAY", "SEEDRANDOM">>
  <2>1. "INPUTDELAY" \in PacketType /\ "SEEDRANDOM" \in PacketType
    BY DEF PacketType
  <2>2. \A a, b \in PacketType : <<a>> \o <<b>> = <<a, b>>
    BY Tuples
  <2> QED BY <2>1, <2>2
<1>3. <<"INPUTDELAY">> \o <<>> = <<"INPUTDELAY">>
  BY <1>1, Join
<1> QED BY <1>1, <1>2, <1>3 DEF PreparePackets

LEMMA Words ==
  ASSUME NEW f \in Seq(Party), NEW p \in Party, NEW x \in Position
  PROVE  /\ Whole(f, p, x) \in Seq(PacketType) /\ Whole(f, p, x) # <<>>
         /\ Parts(f, p, x) \subseteq Seq(PacketType)
         /\ PreparePackets(p) = IF p = Host THEN <<"INPUTDELAY", "SEEDRANDOM">>
                                ELSE <<"INPUTDELAY">>
<1>1. /\ <<"HANDSHAKE0">> \in Seq(PacketType) /\ <<"HANDSHAKE1">> \in Seq(PacketType)
      /\ <<"HANDSHAKE0", "HANDSHAKE1">> \in Seq(PacketType)
      /\ <<"INPUTDELAY", "SEEDRANDOM">> \in Seq(PacketType)
      /\ <<"INPUTDELAY", "SEEDRANDOM", "READY">> \in Seq(PacketType)
      /\ <<"INPUTDELAY", "READY">> \in Seq(PacketType) /\ <<"INPUTDELAY">> \in Seq(PacketType)
      /\ <<"SELECTSHIP", "READY">> \in Seq(PacketType) /\ <<"SELECTSHIP">> \in Seq(PacketType)
      /\ <<"FRAMECOUNT">> \in Seq(PacketType) /\ <<"READY">> \in Seq(PacketType)
      /\ <<>> \in Seq(PacketType)
  BY DEF PacketType
<1>3. Whole(f, p, x) \in Seq(PacketType) /\ Whole(f, p, x) # <<>>
  BY <1>1 DEF Whole
<1> QED BY <1>1, <1>3, PreparedPackets DEF Parts

LEMMA Ways ==
  ASSUME NEW f \in Seq(Party), NEW x \in Position
  PROVE  /\ Following(f, x) \in Position
         /\ Following(f, x) # x /\ Following(f, Following(f, x)) # x
BY DEF Following, NextStage, Position, Stage

(* What is said at x before the signal.                                    *)
Openings(f, p, x) ==
  IF x.stage = "handshake" THEN {<<>>, <<"HANDSHAKE0">>}
  ELSE IF x.stage = "agree" THEN {<<>>, <<"INPUTDELAY">>, <<"INPUTDELAY", "SEEDRANDOM">>}
  ELSE IF x.stage = "chosen" THEN {<<>>, <<"SELECTSHIP">>}
  ELSE {<<>>}

LEMMA PartsLength ==
  ASSUME NEW f \in Seq(Party), NEW p \in Party, NEW x \in Position, NEW o \in Parts(f, p, x)
  PROVE  Len(o) <= Len(Whole(f, p, x))
<1> DEFINE W == Whole(f, p, x)
<1>1. o = <<>> \/ \E a \in PacketType : o = <<a>> \/ o = W \/ (o = PreparePackets(p) /\ x.stage = "agree")
  <2>1. "HANDSHAKE0" \in PacketType /\ "HANDSHAKE1" \in PacketType /\ "FRAMECOUNT" \in PacketType
        /\ "READY" \in PacketType /\ "SELECTSHIP" \in PacketType
    BY DEF PacketType
  <2> QED BY <2>1, Zenon DEF Parts, Whole
<1>2. Len(W) >= 1
  BY Words
<1>3. ASSUME NEW a \in PacketType, o = <<a>> PROVE Len(o) <= Len(W)
  BY <1>2, <1>3
<1>4. ASSUME o = PreparePackets(p), x.stage = "agree" PROVE Len(o) <= Len(W)
  <2>1. CASE p = Host
    <3>1. o = <<"INPUTDELAY", "SEEDRANDOM">> /\ W = <<"INPUTDELAY", "SEEDRANDOM", "READY">>
      BY <1>4, <2>1, Words DEF Whole
    <3> QED BY <3>1, Len(<<"INPUTDELAY", "SEEDRANDOM">>) = 2,
               Len(<<"INPUTDELAY", "SEEDRANDOM", "READY">>) = 3
  <2>2. CASE p # Host
    <3>1. o = <<"INPUTDELAY">> /\ W = <<"INPUTDELAY", "READY">>
      BY <1>4, <2>2, Words DEF Whole
    <3> QED BY <3>1, Len(<<"INPUTDELAY">>) = 1, Len(<<"INPUTDELAY", "READY">>) = 2
  <2> QED BY <2>1, <2>2
<1>5. o = <<>> => Len(o) <= Len(W)
  BY <1>2
<1> HIDE DEF W
<1>6. Len(W) <= Len(W)
  BY <1>2, Words DEF W
<1> QED BY <1>1, <1>3, <1>4, <1>5, <1>6 DEF W

(* Nothing follows the signal.                                             *)
LEMMA WholeIsAll ==
  ASSUME NEW f \in Seq(Party), NEW p \in Party, NEW x \in Position, NEW o \in Parts(f, p, x),
         NEW c \in Seq(PacketType), o = Whole(f, p, x) \o c
  PROVE  c = <<>>
<1>1. Len(o) = Len(Whole(f, p, x)) + Len(c)
  BY Words
<1>2. Len(o) <= Len(Whole(f, p, x))
  BY PartsLength
<1>3. Len(c) = 0
  BY <1>1, <1>2, Words
<1> QED BY <1>3

(* The parts but one begin as the whole does.                              *)
LEMMA PartsBegin ==
  ASSUME NEW f \in Seq(Party), NEW p \in Party, NEW x \in Position, NEW o \in Parts(f, p, x),
         o # <<"HANDSHAKE1">>, NEW i \in 1 .. Len(o)
  PROVE  i <= Len(Whole(f, p, x)) /\ o[i] = Whole(f, p, x)[i]
<1>1. i <= Len(Whole(f, p, x))
  BY PartsLength, Words
<1>2. CASE o = Whole(f, p, x)
  BY <1>1, <1>2
<1>3. CASE o = <<>>
  BY <1>3
<1>4. CASE o = <<"HANDSHAKE0">> /\ Whole(f, p, x) = <<"HANDSHAKE0", "HANDSHAKE1">>
  BY <1>4, Len(<<"HANDSHAKE0">>) = 1
<1>5. CASE o = <<"SELECTSHIP">> /\ Whole(f, p, x) = <<"SELECTSHIP", "READY">>
  BY <1>5, Len(<<"SELECTSHIP">>) = 1
<1>6. CASE o = PreparePackets(p) /\ x.stage = "agree"
  <2>1. CASE p = Host
    <3>1. o = <<"INPUTDELAY", "SEEDRANDOM">>
          /\ Whole(f, p, x) = <<"INPUTDELAY", "SEEDRANDOM", "READY">>
      BY <1>6, <2>1, Words DEF Whole
    <3> QED BY <3>1, Len(<<"INPUTDELAY", "SEEDRANDOM">>) = 2
  <2>2. CASE p # Host
    <3>1. o = <<"INPUTDELAY">> /\ Whole(f, p, x) = <<"INPUTDELAY", "READY">>
      BY <1>6, <2>2, Words DEF Whole
    <3> QED BY <3>1, Len(<<"INPUTDELAY">>) = 1
  <2> QED BY <2>1, <2>2
<1>7. \/ o = Whole(f, p, x) \/ o = <<>>
      \/ o = <<"HANDSHAKE0">> /\ x.stage = "handshake"
      \/ o = <<"SELECTSHIP">> /\ x.stage = "chosen" /\ Chooses(f, p, x)
      \/ o = PreparePackets(p) /\ x.stage = "agree"
  BY Zenon DEF Parts, Whole
<1>8. /\ x.stage = "handshake" => Whole(f, p, x) = <<"HANDSHAKE0", "HANDSHAKE1">>
      /\ x.stage = "chosen" /\ Chooses(f, p, x) => Whole(f, p, x) = <<"SELECTSHIP", "READY">>
  BY DEF Whole
<1> QED BY <1>2, <1>3, <1>4, <1>5, <1>6, <1>7, <1>8

(* The packet t that comes next.                                           *)
NextPacket(f, p, y, h, t) ==
  \/ y.stage = "handshake" /\ h = <<>> /\ t = "HANDSHAKE0"
  \/ y.stage = "agree" /\ h = <<>> /\ t = "INPUTDELAY"
  \/ y.stage = "agree" /\ p = Host /\ h = <<"INPUTDELAY">> /\ t = "SEEDRANDOM"
  \/ y.stage = "chosen" /\ Chooses(f, p, y) /\ h = <<>> /\ t = "SELECTSHIP"
  \/ Append(h, t) = Whole(f, p, y)

LEMMA NextInWhole ==
  ASSUME NEW f \in Seq(Party), NEW p \in Party, NEW y \in Position, NEW h \in Openings(f, p, y), NEW t \in PacketType,
         NEW k, k = Len(h) + 1, k <= Len(Whole(f, p, y)) => t = Whole(f, p, y)[k],
         \A i \in 1 .. Len(h) : i <= Len(Whole(f, p, y)) => h[i] = Whole(f, p, y)[i]
  PROVE  NextPacket(f, p, y, h, t)
<1>0. /\ Append(<<>>, t) = <<t>> /\ \A a \in PacketType : Append(<<a>>, t) = <<a, t>>
      /\ \A a, b \in PacketType : Append(<<a, b>>, t) = <<a, b, t>>
  BY Tuples
<1>1. CASE y.stage = "handshake"
  <2>1. Whole(f, p, y) = <<"HANDSHAKE0", "HANDSHAKE1">>
    BY <1>1 DEF Whole
  <2>2. CASE h = <<>>
    BY <1>1, <2>1, <2>2, Len(<<>>) = 0, Len(<<"HANDSHAKE0", "HANDSHAKE1">>) = 2 DEF NextPacket
  <2>3. CASE h = <<"HANDSHAKE0">>
    <3>1. t = "HANDSHAKE1"
      BY <2>1, <2>3, Len(<<"HANDSHAKE0">>) = 1, Len(<<"HANDSHAKE0", "HANDSHAKE1">>) = 2
    <3> QED BY <3>1, <2>1, <2>3, <1>0 DEF NextPacket, PacketType
  <2> QED BY <1>1, <2>2, <2>3 DEF Openings
<1>2. CASE y.stage = "agree" /\ p = Host
  <2>1. Whole(f, p, y) = <<"INPUTDELAY", "SEEDRANDOM", "READY">>
        /\ Len(<<"INPUTDELAY", "SEEDRANDOM", "READY">>) = 3
    BY <1>2 DEF Whole
  <2>2. CASE h = <<>>
    BY <1>2, <2>1, <2>2, Len(<<>>) = 0 DEF NextPacket
  <2>3. CASE h = <<"INPUTDELAY">>
    BY <1>2, <2>1, <2>3, Len(<<"INPUTDELAY">>) = 1 DEF NextPacket
  <2>4. CASE h = <<"INPUTDELAY", "SEEDRANDOM">>
    <3>1. t = "READY"
      BY <2>1, <2>4, Len(<<"INPUTDELAY", "SEEDRANDOM">>) = 2
    <3> QED BY <3>1, <2>1, <2>4, <1>0 DEF NextPacket, PacketType
  <2> QED BY <1>2, <2>2, <2>3, <2>4 DEF Openings
<1>3. CASE y.stage = "agree" /\ p # Host
  <2>1. Whole(f, p, y) = <<"INPUTDELAY", "READY">> /\ Len(<<"INPUTDELAY", "READY">>) = 2
    BY <1>3 DEF Whole
  <2>2. CASE h = <<>>
    BY <1>3, <2>1, <2>2, Len(<<>>) = 0 DEF NextPacket
  <2>3. CASE h = <<"INPUTDELAY">>
    <3>1. t = "READY"
      BY <2>1, <2>3, Len(<<"INPUTDELAY">>) = 1
    <3> QED BY <3>1, <2>1, <2>3, <1>0 DEF NextPacket, PacketType
  <2>4. h # <<"INPUTDELAY", "SEEDRANDOM">>
    BY <2>1, Len(<<"INPUTDELAY", "SEEDRANDOM">>) = 2
  <2> QED BY <1>3, <2>2, <2>3, <2>4 DEF Openings
<1>4. CASE y.stage = "chosen" /\ Chooses(f, p, y)
  <2>1. Whole(f, p, y) = <<"SELECTSHIP", "READY">> /\ Len(<<"SELECTSHIP", "READY">>) = 2
    BY <1>4 DEF Whole
  <2>2. CASE h = <<>>
    BY <1>4, <2>1, <2>2, Len(<<>>) = 0 DEF NextPacket
  <2>3. CASE h = <<"SELECTSHIP">>
    <3>1. t = "READY"
      BY <2>1, <2>3, Len(<<"SELECTSHIP">>) = 1
    <3> QED BY <3>1, <2>1, <2>3, <1>0 DEF NextPacket, PacketType
  <2> QED BY <1>4, <2>2, <2>3 DEF Openings
<1>5. CASE y.stage \notin {"handshake", "agree"} /\ ~(y.stage = "chosen" /\ Chooses(f, p, y))
  <2>1. \E s \in {"FRAMECOUNT", "READY"} : Whole(f, p, y) = <<s>>
    BY <1>5 DEF Whole
  <2>2. PICK s \in {"FRAMECOUNT", "READY"} : Whole(f, p, y) = <<s>>
    BY <2>1
  <2>3. h = <<>>
    BY <1>5, <2>2, Len(<<s>>) = 1, Len(<<"SELECTSHIP">>) = 1 DEF Openings
  <2> QED BY <1>0, <2>2, <2>3, Len(<<s>>) = 1, Len(<<>>) = 0 DEF NextPacket
<1> QED BY <1>1, <1>2, <1>3, <1>4, <1>5

LEMMA OpeningShort ==
  ASSUME NEW f \in Seq(Party), NEW p \in Party, NEW y \in Position, NEW h \in Openings(f, p, y),
         NEW o \in Seq(PacketType)
  PROVE  h \in Seq(PacketType) /\ h # Whole(f, p, y) \o o
<1> DEFINE W == Whole(f, p, y)
<1>1. h \in Seq(PacketType)
  <2>1. /\ <<>> \in Seq(PacketType) /\ <<"HANDSHAKE0">> \in Seq(PacketType)
        /\ <<"INPUTDELAY">> \in Seq(PacketType) /\ <<"INPUTDELAY", "SEEDRANDOM">> \in Seq(PacketType)
        /\ <<"SELECTSHIP">> \in Seq(PacketType)
    BY DEF PacketType
  <2> QED BY <2>1, Zenon DEF Openings
<1>2. SUFFICES ASSUME h = W \o o PROVE FALSE
  BY <1>1
<1>3. W \in Seq(PacketType)
  BY Words
<1>4. Len(W) <= Len(h) /\ \A i \in 1 .. Len(h) : i <= Len(W) => h[i] = W[i]
  BY <1>2, <1>3
<1>5. "RESET" \in PacketType
  BY DEF PacketType
<1>6. NextPacket(f, p, y, h, "RESET")
  <2>1. Len(h) \in Nat /\ Len(W) \in Nat
    BY <1>1, <1>3
  <2>2. ~(Len(h) + 1 <= Len(W))
    BY <2>1, <1>4
  <2> HIDE DEF W
  <2> QED BY <2>2, <1>4, <1>5, NextInWhole DEF W
<1>7. Append(h, "RESET") = W
  BY <1>6 DEF NextPacket
<1>8. Len(Append(h, "RESET")) = Len(h) + 1
  BY <1>1, <1>5
<1> QED BY <1>1, <1>3, <1>4, <1>7, <1>8

LEMMA NextHeard ==
  ASSUME NEW h \in Seq(PacketType), NEW body \in Seq(PacketType), body # <<>>,
         NEW w \in Seq(PacketType), NEW c \in Seq(PacketType), h \o body = w \o c,
         NEW k, k = Len(h) + 1
  PROVE  /\ k <= Len(w) => Head(body) = w[k]
         /\ \A i \in 1 .. Len(h) : i <= Len(w) => h[i] = w[i]
<1>1. Len(h \o body) = Len(h) + Len(body) /\ Len(body) >= 1
  OBVIOUS
<1>2. \A i \in 1 .. Len(w) : (h \o body)[i] = w[i]
  OBVIOUS
<1>3. (h \o body)[Len(h) + 1] = Head(body)
  BY Move
<1>6. \A i \in 1 .. Len(h) : (h \o body)[i] = h[i]
  OBVIOUS
<1>4. \A i \in 1 .. Len(h) : i <= Len(w) => h[i] = w[i]
  BY <1>2, <1>6
<1>5. k <= Len(w) => Head(body) = w[k]
  <2>1. SUFFICES ASSUME k <= Len(w) PROVE Head(body) = w[k]
    OBVIOUS
  <2>2. k \in 1 .. Len(w)
    BY <2>1
  <2> QED BY <2>2, <1>2, <1>3
<1> QED BY <1>4, <1>5

LEMMA SingleWord ==
  ASSUME NEW h \in Seq(PacketType), NEW body \in Seq(PacketType), body # <<>>,
         NEW a \in PacketType, h \o body = <<a>>
  PROVE  h = <<>> /\ body = <<a>> /\ Head(body) = a /\ Tail(body) = <<>>
<1>1. Len(h) + Len(body) = 1 /\ Len(body) # 0
  BY Len(h \o body) = Len(h) + Len(body), Len(<<a>>) = 1
<1>2. Len(h) = 0 /\ Len(body) = 1
  <2>1. \A m, n \in Nat : m + n = 1 /\ n # 0 => m = 0 /\ n = 1
    OBVIOUS
  <2>2. Len(h) \in Nat /\ Len(body) \in Nat
    OBVIOUS
  <2> QED BY <1>1, <2>1, <2>2
<1>4. h = <<>>
  BY <1>2
<1>3. body = <<a>>
  BY <1>4
<1> QED BY <1>3, <1>4

(* A packet on its way to a machine that waits for one is the next there.  *)
LEMMA Expect ==
  ASSUME NEW f \in Seq(Party), NEW p \in Party, NEW x \in Position, NEW y \in Position,
         NEW o \in Parts(f, p, x), NEW h \in Openings(f, p, y),
         NEW body \in Seq(PacketType), body # <<>>, NEW sg, NEW cf,
         Flow(f, p, x, o, body, y, h, sg, cf)
  PROVE  \/ NextPacket(f, p, y, h, Head(body))
         \/ /\ x = y /\ x.stage = "handshake" /\ o = <<"HANDSHAKE1">> /\ h = <<>>
            /\ Head(body) = "HANDSHAKE1" /\ Tail(body) = <<>>
<1> DEFINE W == Whole(f, p, y)
<1>1. h \in Seq(PacketType) /\ W \in Seq(PacketType) /\ o \in Seq(PacketType)
      /\ Head(body) \in PacketType
  BY OpeningShort, Words
<1>2. CASE x = y /\ h \o body = o /\ o = <<"HANDSHAKE1">>
  <2>1. h = <<>> /\ Head(body) = "HANDSHAKE1" /\ Tail(body) = <<>>
    BY <1>1, <1>2, SingleWord DEF PacketType
  <2>2. x.stage = "handshake"
    <3>1. <<"HANDSHAKE1">> # <<"READY">> /\ <<"HANDSHAKE1">> # <<"FRAMECOUNT">>
          /\ <<"HANDSHAKE1">> # <<"SELECTSHIP">> /\ <<"HANDSHAKE1">> # <<>>
          /\ <<"HANDSHAKE1">> # <<"INPUTDELAY">>
      OBVIOUS
    <3>2. Len(<<"INPUTDELAY", "SEEDRANDOM">>) = 2 /\ Len(<<"INPUTDELAY", "SEEDRANDOM", "READY">>) = 3
          /\ Len(<<"INPUTDELAY", "READY">>) = 2 /\ Len(<<"SELECTSHIP", "READY">>) = 2
          /\ Len(<<"HANDSHAKE1">>) = 1
      OBVIOUS
    <3>3. PreparePackets(p) # <<"HANDSHAKE1">>
      BY <3>1, <3>2, PreparedPackets
    <3>4. x.stage # "handshake" => Whole(f, p, x) # <<"HANDSHAKE1">>
      BY <3>1, <3>2 DEF Whole
    <3> QED BY <3>1, <3>3, <3>4, <1>2, Zenon DEF Parts
  <2> QED BY <2>1, <2>2, <1>2
<1>3. CASE x = y /\ h \o body = o /\ o # <<"HANDSHAKE1">>
  <2>1. \A i \in 1 .. Len(o) : i <= Len(W) /\ o[i] = W[i]
    BY <1>3, PartsBegin
  <2>2. o \o <<>> = o /\ <<>> \in Seq(PacketType)
    BY <1>1, Join
  <2>3. \A i \in 1 .. Len(h) : i <= Len(o) => h[i] = o[i]
    BY <2>2, <1>1, <1>3, NextHeard
  <2>4. Len(h) + 1 <= Len(o) /\ Len(h) + 1 \in 1 .. Len(o) /\ \A i \in 1 .. Len(h) : i \in 1 .. Len(o)
    BY <1>1, <1>3, Move
  <2>5. Head(body) = o[Len(h) + 1]
    BY <2>2, <2>4, <1>1, <1>3, NextHeard
  <2>6. Head(body) = W[Len(h) + 1] /\ \A i \in 1 .. Len(h) : h[i] = W[i]
    BY <2>1, <2>3, <2>4, <2>5
  <2> HIDE DEF W
  <2> QED BY <2>6, <1>1, NextInWhole DEF W
<1>4. CASE h \o body = W \o o
  <2>1. /\ Len(h) + 1 <= Len(W) => Head(body) = W[Len(h) + 1]
        /\ \A i \in 1 .. Len(h) : i <= Len(W) => h[i] = W[i]
    BY <1>1, <1>4, NextHeard
  <2> HIDE DEF W
  <2> QED BY <2>1, <1>1, NextInWhole DEF W
<1> QED BY <1>2, <1>3, <1>4 DEF Flow

-----------------------------------------------------------------------------
(* What is on its way, when the receiver hears or goes on and when the     *)
(* sender says more or goes on.                                            *)

LEMMA PartsLetters ==
  ASSUME NEW f \in Seq(Party), NEW p \in Party, NEW x \in Position, NEW o \in Parts(f, p, x),
         NEW i \in 1 .. Len(o)
  PROVE  o[i] \notin {"BATTLEINPUT", "RESET"}
<1>1. CASE o = <<"HANDSHAKE1">>
  BY <1>1, Len(<<"HANDSHAKE1">>) = 1
<1>2. CASE o # <<"HANDSHAKE1">>
  <2>1. i <= Len(Whole(f, p, x)) /\ o[i] = Whole(f, p, x)[i]
    BY <1>2, PartsBegin
  <2>2. \A j \in 1 .. Len(Whole(f, p, x)) : Whole(f, p, x)[j] \notin {"BATTLEINPUT", "RESET"}
    <3>1. CASE x.stage = "handshake"
      BY <3>1 DEF Whole
    <3>2. CASE x.stage = "agree"
      BY <3>2 DEF Whole
    <3>3. CASE x.stage \notin {"handshake", "agree"}
      BY <3>3 DEF Whole
    <3> QED BY <3>1, <3>2, <3>3
  <2>3. i \in 1 .. Len(Whole(f, p, x))
    BY <2>1, Words
  <2> QED BY <2>1, <2>2, <2>3
<1> QED BY <1>1, <1>2

LEMMA BodyLetters ==
  ASSUME NEW f \in Seq(Party), NEW p \in Party, NEW x \in Position, NEW y \in Position,
         NEW o \in Parts(f, p, x), NEW h \in Seq(PacketType), NEW body \in Seq(PacketType),
         NEW sg, NEW cf, Flow(f, p, x, o, body, y, h, sg, cf),
         NEW i \in 1 .. Len(body)
  PROVE  body[i] \notin {"BATTLEINPUT", "RESET"}
<1>1. (h \o body)[Len(h) + i] = body[i] /\ Len(h \o body) = Len(h) + Len(body)
  OBVIOUS
<1>2. o \in Seq(PacketType) /\ \A j \in 1 .. Len(o) : o[j] \notin {"BATTLEINPUT", "RESET"}
  BY Words, PartsLetters
<1>3. CASE h \o body = o
  <2>1. Len(h) + i \in 1 .. Len(o)
    BY <1>1, <1>3
  <2> QED BY <2>1, <1>1, <1>2, <1>3
<1>4. CASE h \o body = Whole(f, p, y) \o o
  <2>1. Whole(f, p, y) \in Seq(PacketType)
        /\ \A j \in 1 .. Len(Whole(f, p, y)) : Whole(f, p, y)[j] \notin {"BATTLEINPUT", "RESET"}
    <3>1. \A j \in 1 .. Len(Whole(f, p, y)) : Whole(f, p, y)[j] \notin {"BATTLEINPUT", "RESET"}
      <4>1. CASE y.stage = "handshake"
        BY <4>1 DEF Whole
      <4>2. CASE y.stage = "agree" /\ p = Host
        BY <4>2 DEF Whole
      <4>3. CASE y.stage = "agree" /\ p # Host
        BY <4>3 DEF Whole
      <4>4. CASE y.stage \notin {"handshake", "agree"}
        BY <4>4 DEF Whole
      <4> QED BY <4>1, <4>2, <4>3, <4>4
    <3> QED BY <3>1, Words
  <2>2. \A j \in 1 .. Len(Whole(f, p, y) \o o) :
          (Whole(f, p, y) \o o)[j] \notin {"BATTLEINPUT", "RESET"}
    BY <2>1, <1>2
  <2>3. Len(h) + i \in 1 .. Len(Whole(f, p, y) \o o)
    BY <1>1, <1>4
  <2> QED BY <2>2, <2>3, <1>1, <1>4
<1>5. CASE body = <<>>
  BY <1>5
<1> QED BY <1>3, <1>4, <1>5 DEF Flow

LEMMA FlowHear ==
  ASSUME NEW f \in Seq(Party), NEW p \in Party, NEW x \in Position, NEW y \in Position,
         NEW o \in Parts(f, p, x), NEW h \in Seq(PacketType),
         NEW body \in Seq(PacketType), body # <<>>, NEW sg, NEW cf,
         Flow(f, p, x, o, body, y, h, sg, cf)
  PROVE  Flow(f, p, x, o, Tail(body), y, Append(h, Head(body)), sg, cf)
<1>1. Append(h, Head(body)) \o Tail(body) = h \o body
  BY Move
<1> QED BY <1>1 DEF Flow

LEMMA FlowArrive ==
  ASSUME NEW f \in Seq(Party), NEW p \in Party, NEW x \in Position, NEW y \in Position,
         NEW o \in Parts(f, p, x), NEW body \in Seq(PacketType), NEW sg, NEW cf,
         Flow(f, p, x, o, body, y, Whole(f, p, y), sg, cf)
  PROVE  \A sg2, cf2 : Flow(f, p, x, o, body, Following(f, y), <<>>, sg2, cf2)
<1> DEFINE W == Whole(f, p, y)
<1>1. W \in Seq(PacketType) /\ W # <<>> /\ o \in Seq(PacketType) /\ <<>> \in Seq(PacketType)
  BY Words
<1>2. CASE x = y /\ W \o body = o
  <2>1. body = <<>>
    BY <1>2, WholeIsAll
  <2>2. o = W
    BY <2>1, <1>1, <1>2, Join
  <2> QED BY <2>1, <2>2, <1>2 DEF Flow
<1>3. CASE x = Following(f, y) /\ W \o body = W \o o /\ o \notin Confirmed
  <2>1. body = o
    BY <1>1, <1>3, Cancel
  <2>2. <<>> \o body = body
    BY Join, <1>1
  <2> QED BY <2>1, <2>2, <1>3 DEF Flow
<1> QED BY <1>1, <1>2, <1>3 DEF Flow

(* The other way through the handshake.                                    *)
LEMMA FlowArriveFirst ==
  ASSUME NEW f \in Seq(Party), NEW p \in Party, NEW x \in Position
  PROVE  \A sg, cf : Flow(f, p, x, <<"HANDSHAKE1">>, <<>>, Following(f, x), <<>>, sg, cf)
BY DEF Flow, Confirmed

LEMMA FlowSay ==
  ASSUME NEW f \in Seq(Party), NEW p \in Party, NEW x \in Position, NEW y \in Position,
         NEW o \in Parts(f, p, x), NEW h \in Seq(PacketType), NEW s \in Seq(PacketType),
         NEW body \in Seq(PacketType), NEW sg, NEW cf,
         Flow(f, p, x, o, body, y, h, sg, cf),
         o \notin Confirmed \cup {Whole(f, p, x)},
         o \o s \in Confirmed => x # Following(f, y) /\ cf
  PROVE  Flow(f, p, x, o \o s, body \o s, y, h, sg, cf)
<1>1. o \in Seq(PacketType) /\ Whole(f, p, y) \in Seq(PacketType)
  BY Words
<1>2. h \o (body \o s) = (h \o body) \o s
  BY Join, SMTT(30)
<1>3. Whole(f, p, y) \o (o \o s) = (Whole(f, p, y) \o o) \o s
  BY <1>1, Join, SMTT(30)
<1> QED BY <1>2, <1>3 DEF Flow

(* The sender goes on and says s: its peer is where it was, and has        *)
(* signaled, or one place ahead.                                           *)
LEMMA FlowLeave ==
  ASSUME NEW f \in Seq(Party), NEW p \in Party, NEW x \in Position, NEW y \in Position,
         NEW o \in Parts(f, p, x), NEW h \in Seq(PacketType), NEW s \in Seq(PacketType),
         NEW body \in Seq(PacketType), NEW sg, NEW cf,
         Flow(f, p, x, o, body, y, h, sg, cf),
         \/ x = y /\ sg /\ o = Whole(f, p, x)
         \/ y = Following(f, x),
         s \notin Confirmed
  PROVE  Flow(f, p, Following(f, x), s, body \o s, y, h, sg, cf)
<1>1. o \in Seq(PacketType) /\ Whole(f, p, y) \in Seq(PacketType)
  BY Words
<1>2. Following(f, x) # x /\ Following(f, Following(f, x)) # x
  BY Ways
<1>3. CASE x = y /\ sg /\ o = Whole(f, p, x)
  <2>1. h \o body = o
    BY <1>2, <1>3 DEF Flow
  <2>2. h \o (body \o s) = Whole(f, p, y) \o s
    <3>1. h \o (body \o s) = (h \o body) \o s
      BY Join
    <3> QED BY <3>1, <2>1, <1>3
  <2>3. Following(f, x) = Following(f, y) /\ sg
    BY <1>3
  <2> QED BY <2>2, <2>3, Zenon DEF Flow
<1>4. CASE y = Following(f, x)
  <2>1. h = <<>> /\ body = <<>>
    BY <1>2, <1>4 DEF Flow
  <2>2. <<>> \o s = s /\ <<>> \o (<<>> \o s) = s
    OBVIOUS
  <2> QED BY <2>1, <2>2, <1>4 DEF Flow
<1> QED BY <1>3, <1>4

(* A machine that has heard all its peer says where it is, and goes on:    *)
(* the peer has signaled there, or is one place ahead.                     *)
LEMMA FlowTogether ==
  ASSUME NEW f \in Seq(Party), NEW q \in Party, NEW x \in Position, NEW y \in Position,
         NEW o \in Parts(f, q, y), NEW body \in Seq(PacketType), NEW sg, NEW cf,
         Flow(f, q, y, o, body, x, Whole(f, q, x), sg, cf)
  PROVE  \/ x = y /\ o = Whole(f, q, x)
         \/ y = Following(f, x)
<1>1. Whole(f, q, x) \in Seq(PacketType) /\ Whole(f, q, x) # <<>> /\ o \in Seq(PacketType)
  BY Words
<1>2. CASE y = x /\ Whole(f, q, x) \o body = o
  <2>1. body = <<>>
    BY <1>2, WholeIsAll
  <2>2. Whole(f, q, x) \o <<>> = Whole(f, q, x)
    BY <1>1, Join
  <2> QED BY <2>1, <2>2, <1>2
<1> QED BY <1>1, <1>2 DEF Flow

-----------------------------------------------------------------------------
(* One machine.                                                            *)

(* A step of the other machine: all that is kept of p is as it was.        *)
Same(p) ==
  /\ fate' = fate
  /\ pc'[p] = pc[p] /\ waiting'[p] = waiting[p] /\ state'[p] = state[p]
  /\ localOk'[p] = localOk[p] /\ remoteOk'[p] = remoteOk[p] /\ ready'[p] = ready[p]
  /\ localReset'[p] = localReset[p] /\ remoteReset'[p] = remoteReset[p]
  /\ abort'[p] = abort[p] /\ game'[p] = game[p] /\ met'[p] = met[p]
  /\ deaths'[p] = deaths[p] /\ picked'[p] = picked[p]
  /\ seed'[p] = seed[p] /\ peerDelay'[p] = peerDelay[p] /\ fault'[p] = fault[p]

LEMMA SameMeans ==
  ASSUME NEW p \in Party, Same(p)
  PROVE  /\ At(p)' = At(p) /\ Said(p)' = Said(p) /\ Heard(p)' = Heard(p)
         /\ Signaled(p)' = Signaled(p) /\ localOk'[p] = localOk[p]
         /\ Quit(p)' = Quit(p) /\ Asked(p)' = Asked(p) /\ Told(p)' = Told(p)
         /\ Active(p)' = Active(p) /\ Live(p)' = Live(p) /\ Stopped(p)' = Stopped(p)
         /\ MidGame(p)' = MidGame(p) /\ Faultless(p)' = Faultless(p)
<1>1. StageOf(p)' = StageOf(p) /\ Round(p)' = Round(p)
  BY DEF Same, StageOf, Round
<1>2. Turn(p)' = Turn(p)
  BY <1>1 DEF Same, Turn
<1>3. At(p)' = At(p)
  BY <1>1, <1>2 DEF At
<1>4. SaidFirst(p)' = SaidFirst(p) /\ HeardFirst(p)' = HeardFirst(p)
  BY <1>1 DEF Same, SaidFirst, HeardFirst
<1>5. Said(p)' = Said(p) /\ Heard(p)' = Heard(p) /\ Signaled(p)' = Signaled(p)
  BY <1>1, <1>3, <1>4 DEF Same, Said, Heard, Signaled
<1>6. Quit(p)' = Quit(p) /\ MidGame(p)' = MidGame(p)
  BY DEF Same, Quit, MidGame
<1>7. /\ Asked(p)' = Asked(p) /\ Told(p)' = Told(p) /\ Active(p)' = Active(p)
      /\ Live(p)' = Live(p) /\ Stopped(p)' = Stopped(p)
  BY <1>6 DEF Same, Asked, Told, Active, Live, Stopped
<1>8. Faultless(p)' = Faultless(p)
  BY DEF Same, Faultless
<1> QED BY <1>3, <1>5, <1>6, <1>7, <1>8 DEF Same

LEMMA SamePlaced ==
  ASSUME NEW p \in Party, Same(p), Placed(p)
  PROVE  Placed(p)'
<1>1. StageOf(p)' = StageOf(p) /\ Round(p)' = Round(p)
  BY DEF Same, StageOf, Round
<1>2. InMenu(p)' = InMenu(p)
  BY DEF Same, InMenu, Resting
<1>3. InGame(p)' = InGame(p)
  BY DEF Same, InGame, Selecting
<1>4. ReadyAt(p)' = ReadyAt(p) /\ Informed(p)' = Informed(p)
  BY <1>1 DEF Same, ReadyAt, Informed
<1> QED BY <1>2, <1>3, <1>4, SameMeans DEF Placed

LEMMA SameStop ==
  ASSUME NEW p \in Party, Same(p), NEW x, NEW o, NEW end
  PROVE  StopAt(p, x, o)' = StopAt(p, x, o) /\ End(p, x, end)' = End(p, x, end)
BY SameMeans DEF Same, StopAt, End

LEMMA AtPosition ==
  ASSUME TypeOK, NEW p \in Party, Active(p), Placed(p)
  PROVE  At(p) \in Position
<1>1. InMenu(p) /\ InGame(p)
  BY DEF Placed
<1>2. game[p] \in Nat /\ deaths[p] \in Nat /\ pc[p] \in Place /\ state[p] \in NetState
  BY GameAssumption DEF TypeOK
<1>3. StageOf(p) \in Stage
  BY <1>1, <1>2 DEF StageOf, Stage, Active, InMenu, Place, Meeting
<1>4. Turn(p) \in Nat
  <2>1. StageOf(p) \notin {"handshake", "agree", "choose", "chosen", "fight", "over"}
        /\ pc[p] # "battle" => deaths[p] > 0
    BY <1>1, <1>2, <1>3 DEF InGame, StageOf, Active, Place, Meeting
  <2> QED BY <2>1, <1>2 DEF Turn
<1>5. Round(p) \in Nat
  BY <1>2 DEF Round
<1> QED BY <1>3, <1>4, <1>5 DEF At, Position

LEMMA ChoosesHere ==
  ASSUME TypeOK, NEW p \in Party, NEW r \in Party, StageOf(p) = "chosen"
  PROVE  Chooses(fate, r, At(p)) <=> r \in Selecting(p)
<1>1. At(p).turn = deaths[p]
  BY DEF At, Turn
<1> QED BY <1>1 DEF Chooses, Selecting

LEMMA SaidIsPart ==
  ASSUME TypeOK, NEW p \in Party, Active(p), Placed(p), NEW o \in Said(p)
  PROVE  o \in Parts(fate, p, At(p))
<1>1. At(p).stage = StageOf(p)
  BY DEF At
<1>2. InMenu(p) /\ InGame(p) /\ ReadyAt(p)
  BY DEF Placed
<1>3. CASE StageOf(p) = "handshake"
  BY <1>1, <1>3, Zenon DEF Said, Parts
<1>4. CASE StageOf(p) = "agree"
  <2>1. o = Whole(fate, p, At(p)) \/ o = <<>> \/ o = PreparePackets(p)
    BY <1>4, Zenon DEF Said, SaidFirst
  <2> QED BY <2>1, <1>1, <1>4, Zenon DEF Parts
<1>5. CASE StageOf(p) = "chosen"
  <2>1. p \in picked[p] => p \in Selecting(p)
    BY <1>2, <1>5 DEF InGame, StageOf
  <2>2. Chooses(fate, p, At(p)) <=> p \in Selecting(p)
    BY <1>5, ChoosesHere
  <2>3. o = Whole(fate, p, At(p)) \/ o = <<>> \/ (o = <<"SELECTSHIP">> /\ p \in picked[p])
    BY <1>5, Zenon DEF Said, SaidFirst
  <2>4. CASE Chooses(fate, p, At(p))
    BY <2>3, <2>4, <1>1, <1>5, Zenon DEF Parts
  <2>5. CASE ~Chooses(fate, p, At(p))
    <3>1. Whole(fate, p, At(p)) = <<"READY">>
      BY <2>5, <1>1, <1>5 DEF Whole
    <3>2. o = <<"READY">> \/ o = <<>>
      BY <2>1, <2>2, <2>3, <2>5, <3>1
    <3> QED BY <2>5, <3>2, <1>1, <1>5 DEF Parts
  <2> QED BY <2>4, <2>5
<1>6. CASE StageOf(p) = "toEnd2"
  <2>1. ready[p].local
    BY <1>2, <1>6 DEF ReadyAt, StageOf, TypeOK, Place, Meeting
  <2>2. Whole(fate, p, At(p)) = <<"FRAMECOUNT">> /\ Parts(fate, p, At(p)) = {<<"FRAMECOUNT">>}
    BY <1>1, <1>6 DEF Whole, Parts
  <2>3. o = Whole(fate, p, At(p))
    BY <2>1, <1>6, Zenon DEF Said
  <2> QED BY <2>2, <2>3
<1>7. CASE StageOf(p) \notin {"handshake", "agree", "chosen", "toEnd2"}
  BY <1>1, <1>7, Zenon DEF Said, SaidFirst, Parts, Whole
<1> QED BY <1>3, <1>4, <1>5, <1>6, <1>7

LEMMA HeardIsOpening ==
  ASSUME TypeOK, NEW p \in Party
  PROVE  HeardFirst(p) \in Openings(fate, Peer(p), At(p))
<1>1. At(p).stage = StageOf(p)
  BY DEF At
<1> QED BY <1>1, Zenon DEF HeardFirst, Openings

(* The signal is the last that p says.                                     *)
LEMMA LastWord ==
  ASSUME TypeOK, NEW p \in Party, Active(p), Placed(p), ~ready[p].local,
         \/ pc[p] \in Meeting
         \/ pc[p] = "dying" /\ state[p] = "inBattle"
  PROVE  SaidFirst(p) \o <<"READY">> = Whole(fate, p, At(p))
<1>1. At(p).stage = StageOf(p) /\ InGame(p) /\ InMenu(p)
  BY DEF At, Placed
<1>2. <<>> \o <<"READY">> = <<"READY">>
  BY Tuples DEF PacketType
<1>3. CASE StageOf(p) = "agree"
  <2>1. pc[p] # "confirming"
    BY DEF Meeting
  <2>2. SaidFirst(p) = PreparePackets(p)
    BY <2>1, <1>3 DEF SaidFirst
  <2>3. "INPUTDELAY" \in PacketType /\ "SEEDRANDOM" \in PacketType /\ "READY" \in PacketType
    BY DEF PacketType
  <2>4. <<"INPUTDELAY", "SEEDRANDOM">> \o <<"READY">> = <<"INPUTDELAY", "SEEDRANDOM", "READY">>
    BY <2>3, Tuples
  <2>5. <<"INPUTDELAY">> \o <<"READY">> = <<"INPUTDELAY", "READY">>
    BY <2>3, Tuples
  <2>6. PreparePackets(p) = IF p = Host THEN <<"INPUTDELAY", "SEEDRANDOM">> ELSE <<"INPUTDELAY">>
    BY PreparedPackets
  <2> QED BY <2>2, <2>4, <2>5, <2>6, <1>1, <1>3 DEF Whole
<1>4. CASE StageOf(p) = "chosen"
  <2>1. pc[p] \in {"chosen", "unchosen"}
    BY <1>4 DEF StageOf, Meeting
  <2>2. p \in picked[p] <=> p \in Selecting(p)
    BY <2>1, <1>1 DEF InGame
  <2>3. Chooses(fate, p, At(p)) <=> p \in Selecting(p)
    BY <1>4, ChoosesHere
  <2>4. <<"SELECTSHIP">> \o <<"READY">> = <<"SELECTSHIP", "READY">>
    BY Tuples DEF PacketType
  <2> QED BY <2>2, <2>3, <2>4, <1>1, <1>2, <1>4 DEF Whole, SaidFirst
<1>5. CASE StageOf(p) \notin {"agree", "chosen"}
  <2>1. StageOf(p) \notin {"handshake", "toEnd2"}
    BY DEF StageOf, Meeting
  <2> QED BY <2>1, <1>1, <1>2, <1>5, Zenon DEF Whole, SaidFirst
<1> QED BY <1>3, <1>4, <1>5

-----------------------------------------------------------------------------
(* The packets of a machine that nobody resets, to one that nobody resets. *)

LEMMA LiveFlow ==
  ASSUME IInv, NEW p \in Party, Live(p), Live(Peer(p))
  PROVE  \E o \in Said(p) : FlowOf(p, At(p), o, chan[p])
<1>1. PICK x \in Position, body \in Seq(PacketType), end \in Seq(PacketType) :
        \E o \in Parts(fate, p, x) : Stream(p, x, o, body, end)
  BY DEF IInv, Flows
<1>2. PICK o \in Parts(fate, p, x) : Stream(p, x, o, body, end)
  BY <1>1
<1>3. end = <<>>
  BY <1>2 DEF Stream, End, Asked, Live, Active
<1>4. chan[p] = body
  BY <1>2, <1>3, Join DEF Stream
<1> QED BY <1>2, <1>4 DEF Stream

LEMMA FlowsFromLive ==
  \A p \in Party :
    /\ TypeOK /\ Live(p) /\ Placed(p)
    /\ \E o \in Said(p) : FlowOf(p, At(p), o, chan[p])
    => Flows(p)
<1> SUFFICES ASSUME NEW p \in Party, TypeOK, Live(p), Placed(p),
                    NEW o \in Said(p), FlowOf(p, At(p), o, chan[p])
             PROVE  Flows(p)
  OBVIOUS
<1>1. Active(p) /\ ~Asked(p) /\ ~Stopped(p)
  BY DEF Live, Active, Asked, Stopped
<1>2. At(p) \in Position
  BY <1>1, AtPosition
<1>3. o \in Parts(fate, p, At(p))
  BY <1>1, SaidIsPart
<1>4. chan[p] \in Seq(PacketType) /\ <<>> \in Seq(PacketType) /\ chan[p] \o <<>> = chan[p]
  BY Join DEF TypeOK
<1>5. Stream(p, At(p), o, chan[p], <<>>)
  BY <1>1, <1>4 DEF Stream, End
<1> QED BY <1>2, <1>3, <1>4, <1>5 DEF Flows

LEMMA FlowsFromLiveNext ==
  (\A p \in Party :
    /\ TypeOK /\ Live(p) /\ Placed(p)
    /\ \E o \in Said(p) : FlowOf(p, At(p), o, chan[p])
    => Flows(p))'
BY FlowsFromLive, PTL

-----------------------------------------------------------------------------
(* What comes to p in its step.                                            *)

LEMMA InFlow ==
  ASSUME NEW p \in Party, NEW q \in Party, q = Peer(p), Same(q),
         NEW x \in Position, NEW o \in Parts(fate, q, x), NEW body \in Seq(PacketType),
         NEW rest \in Seq(PacketType), NEW end \in Seq(PacketType), NEW left \in Seq(PacketType),
         Stream(q, x, o, body, end), chan'[q] = rest \o left,
         left = end \/ (end # <<>> /\ End(q, x, left)),
         Flow(fate, q, x, o, rest, At(p)', Heard(p)', Signaled(p)', localOk'[p])
  PROVE  Flows(q)'
<1>1. Peer(q) = p
  BY PeerFacts
<1>2. o \in Parts(fate', q, x) /\ fate' = fate
  BY DEF Same
<1>3. FlowOf(q, x, o, rest)'
  BY <1>1, <1>2 DEF FlowOf
<1>4. End(q, x, left)'
  <2>1. End(q, x, left)
    BY DEF Stream, End
  <2> QED BY <2>1, SameStop
<1>5. (Live(q)' => x = At(q)' /\ o \in Said(q)') /\ (Stopped(q)' \/ left # <<>> => StopAt(q, x, o)')
  BY SameMeans, SameStop DEF Stream
<1>6. Stream(q, x, o, rest, left)'
  BY <1>3, <1>4, <1>5 DEF Stream
<1> QED BY <1>2, <1>6 DEF Flows

LEMMA InStay ==
  ASSUME IInv, NEW p \in Party, NEW q \in Party, q = Peer(p), Same(q), Live(p),
         chan'[q] = chan[q], At(p)' = At(p), Heard(p)' = Heard(p),
         Signaled(p) => Signaled(p)', localOk[p] => localOk'[p]
  PROVE  Flows(q)'
<1>1. Peer(q) = p
  BY PeerFacts
<1>2. PICK x \in Position, body \in Seq(PacketType), end \in Seq(PacketType) :
        \E o \in Parts(fate, q, x) : Stream(q, x, o, body, end)
  BY <1>1 DEF IInv, Flows
<1>3. PICK o \in Parts(fate, q, x) : Stream(q, x, o, body, end)
  BY <1>2
<1>4. Flow(fate, q, x, o, body, At(p), Heard(p), Signaled(p), localOk[p])
  BY <1>1, <1>3 DEF Stream, FlowOf
<1>5. Flow(fate, q, x, o, body, At(p)', Heard(p)', Signaled(p)', localOk'[p])
  BY <1>4 DEF Flow
<1>6. chan'[q] = body \o end
  BY <1>3 DEF Stream
<1> QED BY <1>3, <1>5, <1>6, InFlow

(* The packet t that p handles is the next one of its peer.                *)
LEMMA Incomes ==
  ASSUME IInv, NEW p \in Party, NEW q \in Party, q = Peer(p), Live(p), chan[q] # <<>>
  PROVE  \E x \in Position, body, end \in Seq(PacketType) : \E o \in Parts(fate, q, x) :
           /\ Stream(q, x, o, body, end)
           /\ Flow(fate, q, x, o, body, At(p), Heard(p), Signaled(p), localOk[p])
           /\ \/ body # <<>> /\ Head(chan[q]) = Head(body) /\ Tail(chan[q]) = Tail(body) \o end
              \/ body = <<>> /\ end # <<>> /\ chan[q] = end
<1>1. Peer(q) = p
  BY PeerFacts
<1>2. PICK x \in Position, body \in Seq(PacketType), end \in Seq(PacketType) :
        \E o \in Parts(fate, q, x) : Stream(q, x, o, body, end)
  BY <1>1 DEF IInv, Flows
<1>3. PICK o \in Parts(fate, q, x) : Stream(q, x, o, body, end)
  BY <1>2
<1>4. Flow(fate, q, x, o, body, At(p), Heard(p), Signaled(p), localOk[p])
  BY <1>1, <1>3 DEF Stream, FlowOf
<1>5. chan[q] = body \o end
  BY <1>3 DEF Stream
<1>6. body # <<>> => Head(chan[q]) = Head(body) /\ Tail(chan[q]) = Tail(body) \o end
  BY <1>5, First
<1>7. body = <<>> => end # <<>> /\ chan[q] = end
  BY <1>5, Join
<1>8. \/ body # <<>> /\ Head(chan[q]) = Head(body) /\ Tail(chan[q]) = Tail(body) \o end
      \/ body = <<>> /\ end # <<>> /\ chan[q] = end
  BY <1>6, <1>7
<1> QED BY <1>3, <1>4, <1>8

LEMMA Endings ==
  ASSUME NEW q \in Party, NEW x, NEW end, End(q, x, end), end # <<>>
  PROVE  /\ Head(end) \in {"BATTLEINPUT", "RESET"}
         /\ Head(end) = "BATTLEINPUT" => x.stage \in Fighting
         /\ Head(end) = "BATTLEINPUT" => Tail(end) = IF Asked(q) THEN <<"RESET">> ELSE <<>>
         /\ Head(end) = "RESET" => Asked(q) /\ Tail(end) = <<>>
<1>1. end # <<>>
  OBVIOUS
<1>2. CASE end = <<"BATTLEINPUT">> /\ ~Asked(q) /\ x.stage \in Fighting
  BY <1>2
<1>3. CASE end = <<"RESET">> /\ Asked(q)
  BY <1>3
<1>4. CASE end = <<"BATTLEINPUT", "RESET">> /\ Asked(q) /\ x.stage \in Fighting
  <2>1. Tail(<<"BATTLEINPUT", "RESET">>) = <<"RESET">>
    OBVIOUS
  <2> QED BY <1>4, <2>1
<1> QED BY <1>1, <1>2, <1>3, <1>4 DEF End

(* The packet at the head of the channel from q is one that q said at x.   *)
Arrival(p, q, x, o, body, end) ==
  /\ Stream(q, x, o, body, end) /\ body # <<>> /\ Head(body) = Head(chan[q])
  /\ Tail(chan[q]) = Tail(body) \o end
  /\ Flow(fate, q, x, o, body, At(p), HeardFirst(p), Signaled(p), localOk[p])
  /\ \/ NextPacket(fate, q, At(p), HeardFirst(p), Head(chan[q]))
     \/ /\ x = At(p) /\ x.stage = "handshake" /\ o = <<"HANDSHAKE1">>
        /\ HeardFirst(p) = <<>> /\ Head(chan[q]) = "HANDSHAKE1" /\ Tail(body) = <<>>

(* A machine in a game expects what comes next, so it has not heard all.   *)
LEMMA Expected ==
  ASSUME IInv, NEW p \in Party, NEW q \in Party, q = Peer(p), Live(p), chan[q] # <<>>,
         Head(chan[q]) \notin {"BATTLEINPUT", "RESET"}
  PROVE  /\ ~ready[p].remote
         /\ \E x \in Position, body, end \in Seq(PacketType) : \E o \in Parts(fate, q, x) :
              Arrival(p, q, x, o, body, end)
<1>1. PICK x \in Position, body \in Seq(PacketType), end \in Seq(PacketType) :
        \E o \in Parts(fate, q, x) :
           /\ Stream(q, x, o, body, end)
           /\ Flow(fate, q, x, o, body, At(p), Heard(p), Signaled(p), localOk[p])
           /\ \/ body # <<>> /\ Head(chan[q]) = Head(body) /\ Tail(chan[q]) = Tail(body) \o end
              \/ body = <<>> /\ end # <<>> /\ chan[q] = end
  BY Incomes
<1>2. PICK o \in Parts(fate, q, x) :
           /\ Stream(q, x, o, body, end)
           /\ Flow(fate, q, x, o, body, At(p), Heard(p), Signaled(p), localOk[p])
           /\ \/ body # <<>> /\ Head(chan[q]) = Head(body) /\ Tail(chan[q]) = Tail(body) \o end
              \/ body = <<>> /\ end # <<>> /\ chan[q] = end
  BY <1>1
<1>3. body # <<>> /\ Head(body) = Head(chan[q]) /\ Tail(chan[q]) = Tail(body) \o end
  <2>1. End(q, x, end)
    BY <1>2 DEF Stream
  <2>2. end # <<>> => Head(end) \in {"BATTLEINPUT", "RESET"}
    BY <2>1, Endings
  <2> QED BY <1>2, <2>2
<1>4. Active(p) /\ Placed(p) /\ ReadyAt(p) /\ TypeOK /\ At(p) \in Position /\ fate \in Seq(Party)
  BY AtPosition DEF IInv, Live, Placed, TypeOK
<1>5. ~ready[p].remote
  <2>1. SUFFICES ASSUME ready[p].remote PROVE FALSE
    OBVIOUS
  <2>2. Heard(p) = Whole(fate, q, At(p)) /\ StageOf(p) # "handshake" /\ ~ready[p].local
    BY <2>1, <1>4 DEF Heard, ReadyAt
  <2>3. ~Signaled(p)
    BY <2>2 DEF Signaled
  <2>4. x = At(p) /\ Whole(fate, q, At(p)) \o body = o
    BY <1>2, <1>3, <2>2, <2>3 DEF Flow
  <2> QED BY <2>4, <1>3, <1>4, WholeIsAll
<1>6. Heard(p) = HeardFirst(p)
  BY <1>5 DEF Heard
<1>7. HeardFirst(p) \in Openings(fate, q, At(p))
  BY <1>4, HeardIsOpening
<1>8. \/ NextPacket(fate, q, At(p), HeardFirst(p), Head(chan[q]))
      \/ /\ x = At(p) /\ x.stage = "handshake" /\ o = <<"HANDSHAKE1">>
         /\ HeardFirst(p) = <<>> /\ Head(chan[q]) = "HANDSHAKE1" /\ Tail(body) = <<>>
  BY <1>2, <1>3, <1>4, <1>6, <1>7, Expect
<1>9. Arrival(p, q, x, o, body, end)
  BY <1>2, <1>3, <1>6, <1>8 DEF Arrival
<1> QED BY <1>5, <1>9

LEMMA InHear ==
  ASSUME IInv, NEW p \in Party, NEW q \in Party, q = Peer(p), Same(q), Live(p), chan[q] # <<>>,
         Head(chan[q]) \notin {"BATTLEINPUT", "RESET"}, chan'[q] = Tail(chan[q]),
         At(p)' = At(p), Heard(p)' = Append(HeardFirst(p), Head(chan[q])),
         Signaled(p) => Signaled(p)', localOk[p] => localOk'[p]
  PROVE  Flows(q)'
<1>1. PICK x \in Position, body \in Seq(PacketType), end \in Seq(PacketType) :
        \E o \in Parts(fate, q, x) : Arrival(p, q, x, o, body, end)
  BY Expected
<1>2. PICK o \in Parts(fate, q, x) : Arrival(p, q, x, o, body, end)
  BY <1>1
<1>9. /\ Stream(q, x, o, body, end) /\ body # <<>> /\ Head(body) = Head(chan[q])
      /\ Tail(chan[q]) = Tail(body) \o end
      /\ Flow(fate, q, x, o, body, At(p), HeardFirst(p), Signaled(p), localOk[p])
  BY <1>2 DEF Arrival
<1>3. Active(p) /\ Placed(p) /\ TypeOK /\ At(p) \in Position /\ fate \in Seq(Party)
  BY AtPosition DEF IInv, Live, TypeOK
<1>4. HeardFirst(p) \in Seq(PacketType)
  BY <1>3, HeardIsOpening, OpeningShort
<1>5. Flow(fate, q, x, o, Tail(body), At(p), Heard(p)', Signaled(p), localOk[p])
  BY <1>3, <1>4, <1>9, FlowHear
<1>6. Flow(fate, q, x, o, Tail(body), At(p)', Heard(p)', Signaled(p)', localOk'[p])
  BY <1>5 DEF Flow
<1>7. Tail(body) \in Seq(PacketType)
  BY <1>9
<1> QED BY <1>6, <1>7, <1>9, InFlow

LEMMA InHearArrive ==
  ASSUME IInv, NEW p \in Party, NEW q \in Party, q = Peer(p), Same(q), Live(p), chan[q] # <<>>,
         Head(chan[q]) \notin {"BATTLEINPUT", "RESET"}, chan'[q] = Tail(chan[q]),
         \/ Append(HeardFirst(p), Head(chan[q])) = Whole(fate, q, At(p))
         \/ Head(chan[q]) = "HANDSHAKE1",
         At(p)' = Following(fate, At(p)), Heard(p)' = <<>>
  PROVE  Flows(q)'
<1>1. PICK x \in Position, body \in Seq(PacketType), end \in Seq(PacketType) :
        \E o \in Parts(fate, q, x) : Arrival(p, q, x, o, body, end)
  BY Expected
<1>2. PICK o \in Parts(fate, q, x) : Arrival(p, q, x, o, body, end)
  BY <1>1
<1>9. /\ Stream(q, x, o, body, end) /\ body # <<>> /\ Head(body) = Head(chan[q])
      /\ Tail(chan[q]) = Tail(body) \o end
      /\ Flow(fate, q, x, o, body, At(p), HeardFirst(p), Signaled(p), localOk[p])
  BY <1>2 DEF Arrival
<1>3. Active(p) /\ Placed(p) /\ TypeOK /\ At(p) \in Position /\ fate \in Seq(Party)
  BY AtPosition DEF IInv, Live, TypeOK
<1>4. HeardFirst(p) \in Seq(PacketType)
  BY <1>3, HeardIsOpening, OpeningShort
<1>5. Tail(body) \in Seq(PacketType)
  BY <1>9
<1>6. Flow(fate, q, x, o, Tail(body), Following(fate, At(p)), <<>>, Signaled(p)', localOk'[p])
  <2>1. CASE Append(HeardFirst(p), Head(chan[q])) = Whole(fate, q, At(p))
    <3>1. Flow(fate, q, x, o, Tail(body), At(p), Whole(fate, q, At(p)), Signaled(p), localOk[p])
      BY <2>1, <1>3, <1>4, <1>9, FlowHear
    <3> QED BY <3>1, <1>3, <1>5, FlowArrive
  <2>2. CASE x = At(p) /\ o = <<"HANDSHAKE1">> /\ Tail(body) = <<>>
    BY <2>2, <1>3, FlowArriveFirst
  <2>3. CASE Head(chan[q]) = "HANDSHAKE1" /\ NextPacket(fate, q, At(p), HeardFirst(p), Head(chan[q]))
    <3>1. Append(HeardFirst(p), Head(chan[q])) = Whole(fate, q, At(p))
      BY <2>3 DEF NextPacket
    <3> QED BY <3>1, <2>1
  <2> QED BY <2>1, <2>2, <2>3, <1>2 DEF Arrival
<1> QED BY <1>5, <1>6, <1>9, InFlow

LEMMA InArrive ==
  ASSUME IInv, NEW p \in Party, NEW q \in Party, q = Peer(p), Same(q), Live(p),
         chan'[q] = chan[q], ready[p].remote,
         At(p)' = Following(fate, At(p)), Heard(p)' = <<>>
  PROVE  Flows(q)'
<1>1. Peer(q) = p
  BY PeerFacts
<1>2. PICK x \in Position, body \in Seq(PacketType), end \in Seq(PacketType) :
        \E o \in Parts(fate, q, x) : Stream(q, x, o, body, end)
  BY <1>1 DEF IInv, Flows
<1>3. PICK o \in Parts(fate, q, x) : Stream(q, x, o, body, end)
  BY <1>2
<1>4. Flow(fate, q, x, o, body, At(p), Heard(p), Signaled(p), localOk[p])
  BY <1>1, <1>3 DEF Stream, FlowOf
<1>5. Active(p) /\ Placed(p) /\ TypeOK /\ At(p) \in Position /\ fate \in Seq(Party)
  BY AtPosition DEF IInv, Live, TypeOK
<1>6. Heard(p) = Whole(fate, q, At(p))
  BY DEF Heard
<1>7. Flow(fate, q, x, o, body, Following(fate, At(p)), <<>>, Signaled(p)', localOk'[p])
  BY <1>3, <1>4, <1>5, <1>6, FlowArrive
<1>8. chan'[q] = body \o end
  BY <1>3 DEF Stream
<1> QED BY <1>3, <1>7, <1>8, InFlow

LEMMA InInput ==
  ASSUME IInv, NEW p \in Party, NEW q \in Party, q = Peer(p), Same(q), Live(p), chan[q] # <<>>,
         Head(chan[q]) = "BATTLEINPUT", chan'[q] = Tail(chan[q]),
         At(p)' = At(p), Heard(p)' = Heard(p),
         Signaled(p)' = Signaled(p), localOk'[p] = localOk[p]
  PROVE  Flows(q)'
<1>1. PICK x \in Position, body \in Seq(PacketType), end \in Seq(PacketType) :
        \E o \in Parts(fate, q, x) :
           /\ Stream(q, x, o, body, end)
           /\ Flow(fate, q, x, o, body, At(p), Heard(p), Signaled(p), localOk[p])
           /\ \/ body # <<>> /\ Head(chan[q]) = Head(body) /\ Tail(chan[q]) = Tail(body) \o end
              \/ body = <<>> /\ end # <<>> /\ chan[q] = end
  BY Incomes
<1>2. PICK o \in Parts(fate, q, x) :
           /\ Stream(q, x, o, body, end)
           /\ Flow(fate, q, x, o, body, At(p), Heard(p), Signaled(p), localOk[p])
           /\ \/ body # <<>> /\ Head(chan[q]) = Head(body) /\ Tail(chan[q]) = Tail(body) \o end
              \/ body = <<>> /\ end # <<>> /\ chan[q] = end
  BY <1>1
<1>3. Active(p) /\ Placed(p) /\ TypeOK /\ At(p) \in Position /\ fate \in Seq(Party)
  BY AtPosition DEF IInv, Live, TypeOK
<1>4. Heard(p) \in Seq(PacketType)
  <2>1. HeardFirst(p) \in Seq(PacketType)
    BY <1>2, <1>3, HeardIsOpening, OpeningShort
  <2> QED BY <2>1, <1>3, Words DEF Heard
<1>5. body = <<>> /\ end # <<>> /\ chan[q] = end
  <2>1. SUFFICES ASSUME body # <<>>, Head(body) = "BATTLEINPUT" PROVE FALSE
    BY <1>2
  <2>2. body[1] = "BATTLEINPUT" /\ 1 \in 1 .. Len(body)
    BY <2>1
  <2> QED BY <2>2, <1>2, <1>3, <1>4, BodyLetters
<1>6. End(q, x, end)
  BY <1>2 DEF Stream
<1>7. Tail(end) = IF Asked(q) THEN <<"RESET">> ELSE <<>>
  BY <1>5, <1>6, Endings
<1>8. End(q, x, Tail(end)) /\ Tail(end) \in Seq(PacketType)
  BY <1>7, <1>5 DEF End
<1>9. chan'[q] = body \o Tail(end)
  BY <1>5, <1>8
<1>10. Flow(fate, q, x, o, body, At(p)', Heard(p)', Signaled(p)', localOk'[p])
  BY <1>2
<1> QED BY <1>2, <1>5, <1>8, <1>9, <1>10, InFlow

-----------------------------------------------------------------------------
(* What p says in its step.                                                *)

LEMMA FirstIsNotAll ==
  ASSUME TypeOK, NEW p \in Party, StageOf(p) # "handshake"
  PROVE  SaidFirst(p) # Whole(fate, p, At(p))
<1>1. At(p).stage = StageOf(p)
  BY DEF At
<1>2. SaidFirst(p) = <<>> => SaidFirst(p) # Whole(fate, p, At(p))
  BY DEF Whole
<1>3. CASE StageOf(p) = "agree" /\ SaidFirst(p) = PreparePackets(p)
  <2>1. CASE p = Host
    <3>1. SaidFirst(p) = <<"INPUTDELAY", "SEEDRANDOM">>
          /\ Whole(fate, p, At(p)) = <<"INPUTDELAY", "SEEDRANDOM", "READY">>
      BY <2>1, <1>1, <1>3, PreparedPackets DEF Whole
    <3> QED BY <3>1, Len(<<"INPUTDELAY", "SEEDRANDOM">>) = 2,
               Len(<<"INPUTDELAY", "SEEDRANDOM", "READY">>) = 3
  <2>2. CASE p # Host
    <3>1. SaidFirst(p) = <<"INPUTDELAY">> /\ Whole(fate, p, At(p)) = <<"INPUTDELAY", "READY">>
      BY <2>2, <1>1, <1>3, PreparedPackets DEF Whole
    <3> QED BY <3>1, Len(<<"INPUTDELAY">>) = 1, Len(<<"INPUTDELAY", "READY">>) = 2
  <2> QED BY <2>1, <2>2
<1>4. CASE StageOf(p) = "chosen" /\ SaidFirst(p) = <<"SELECTSHIP">>
  <2>1. Whole(fate, p, At(p)) = <<"READY">> \/ Whole(fate, p, At(p)) = <<"SELECTSHIP", "READY">>
    BY <1>1, <1>4 DEF Whole
  <2> QED BY <2>1, <1>4, Len(<<"SELECTSHIP">>) = 1, Len(<<"SELECTSHIP", "READY">>) = 2
<1> QED BY <1>2, <1>3, <1>4 DEF SaidFirst

(* What p says while it has not signaled lacks the signal.                 *)
LEMMA SaidAll ==
  ASSUME TypeOK, NEW p \in Party, NEW o \in Said(p),
         o = Whole(fate, p, At(p)) \/ (StageOf(p) = "handshake" /\ o \in Confirmed)
  PROVE  Signaled(p)
<1>1. CASE StageOf(p) # "handshake"
  <2>1. o = Whole(fate, p, At(p))
    BY <1>1
  <2> QED BY <1>1, <2>1, FirstIsNotAll DEF Said, Signaled
<1>2. CASE StageOf(p) = "handshake"
  <2>1. Whole(fate, p, At(p)) \in Confirmed
    BY <1>2 DEF At, Whole, Confirmed
  <2>2. <<>> \notin Confirmed /\ <<"HANDSHAKE0">> \notin Confirmed
    BY Len(<<"HANDSHAKE0">>) = 1, Len(<<"HANDSHAKE0", "HANDSHAKE1">>) = 2 DEF Confirmed
  <2> QED BY <1>2, <2>1, <2>2 DEF Said, Signaled
<1> QED BY <1>1, <1>2

(* A machine that has heard all is no place ahead of its peer.             *)
LEMMA Together ==
  ASSUME IInv, NEW p \in Party, NEW q \in Party, q = Peer(p), Live(p), Live(q),
         \/ ready[p].remote
         \/ /\ chan[q] # <<>> /\ Head(chan[q]) \notin {"BATTLEINPUT", "RESET"}
            /\ \/ Append(HeardFirst(p), Head(chan[q])) = Whole(fate, q, At(p))
               \/ Head(chan[q]) = "HANDSHAKE1"
  PROVE  (At(q) = At(p) /\ Signaled(q)) \/ At(q) = Following(fate, At(p))
<1>1. /\ Active(p) /\ Placed(p) /\ TypeOK /\ At(p) \in Position /\ fate \in Seq(Party)
      /\ Active(q) /\ Placed(q) /\ At(q) \in Position
  BY AtPosition DEF IInv, Live, TypeOK
<1>2. CASE ready[p].remote
  <2>1. Peer(q) = p
    BY PeerFacts
  <2>2. PICK o \in Said(q) : FlowOf(q, At(q), o, chan[q])
    BY <2>1, LiveFlow
  <2>3. o \in Parts(fate, q, At(q))
    BY <1>1, SaidIsPart
  <2>4. Flow(fate, q, At(q), o, chan[q], At(p), Whole(fate, q, At(p)), Signaled(p), localOk[p])
    BY <1>2, <2>1, <2>2 DEF FlowOf, Heard
  <2>5. (At(q) = At(p) /\ o = Whole(fate, q, At(p))) \/ At(q) = Following(fate, At(p))
    BY <1>1, <2>3, <2>4, FlowTogether DEF TypeOK
  <2> QED BY <1>1, <2>5, SaidAll
<1>3. CASE /\ chan[q] # <<>> /\ Head(chan[q]) \notin {"BATTLEINPUT", "RESET"}
           /\ \/ Append(HeardFirst(p), Head(chan[q])) = Whole(fate, q, At(p))
              \/ Head(chan[q]) = "HANDSHAKE1"
  <2>1. PICK x \in Position, body \in Seq(PacketType), end \in Seq(PacketType) :
          \E o \in Parts(fate, q, x) : Arrival(p, q, x, o, body, end)
    BY <1>3, Expected
  <2>2. PICK o \in Parts(fate, q, x) : Arrival(p, q, x, o, body, end)
    BY <2>1
  <2>3. /\ x = At(q) /\ o \in Said(q) /\ body # <<>> /\ Head(body) = Head(chan[q])
        /\ Flow(fate, q, x, o, body, At(p), HeardFirst(p), Signaled(p), localOk[p])
    BY <2>2 DEF Arrival, Stream
  <2>4. HeardFirst(p) \in Seq(PacketType) /\ Tail(body) \in Seq(PacketType)
    BY <1>1, <2>3, HeardIsOpening, OpeningShort
  <2>5. CASE Append(HeardFirst(p), Head(chan[q])) = Whole(fate, q, At(p))
    <3>1. Flow(fate, q, x, o, Tail(body), At(p), Whole(fate, q, At(p)), Signaled(p), localOk[p])
      BY <1>1, <2>3, <2>4, <2>5, FlowHear, ZenonT(40)
    <3>2. (x = At(p) /\ o = Whole(fate, q, At(p))) \/ x = Following(fate, At(p))
      BY <1>1, <2>4, <3>1, FlowTogether
    <3> QED BY <1>1, <2>3, <3>2, SaidAll
  <2>6. CASE x = At(p) /\ x.stage = "handshake" /\ o = <<"HANDSHAKE1">>
    <3>1. StageOf(q) = "handshake" /\ o \in Confirmed
      BY <2>3, <2>6 DEF Confirmed, At
    <3> QED BY <3>1, <1>1, <2>3, <2>6, SaidAll
  <2> QED BY <2>2, <2>5, <2>6, <1>3 DEF Arrival, NextPacket
<1> QED BY <1>2, <1>3

LEMMA OutStay ==
  ASSUME IInv, TypeOK', NEW p \in Party, NEW q \in Party, q = Peer(p), Same(q),
         Live(p), Live(p)', Placed(p)', At(p)' = At(p),
         NEW s \in Seq(PacketType), chan'[p] = chan[p] \o s,
         \A o \in Said(p) : Live(q) /\ FlowOf(p, At(p), o, chan[p]) =>
           \/ s = <<>> /\ o \in Said(p)'
           \/ /\ o \notin Confirmed \cup {Whole(fate, p, At(p))} /\ o \o s \in Said(p)'
              /\ o \o s \in Confirmed => At(p) # Following(fate, At(q)) /\ localOk[q]
  PROVE  Flows(p)'
<1> SUFFICES ASSUME Live(q)' PROVE Flows(p)'
  BY DEF Flows
<1>1. Live(q)
  BY SameMeans
<1>2. PICK o \in Said(p) : FlowOf(p, At(p), o, chan[p])
  BY <1>1, LiveFlow
<1>3. /\ Active(p) /\ Placed(p) /\ TypeOK /\ At(p) \in Position /\ fate \in Seq(Party)
      /\ Active(q) /\ Placed(q) /\ At(q) \in Position /\ chan[p] \in Seq(PacketType)
  BY <1>1, AtPosition DEF IInv, Live, TypeOK
<1>4. o \in Parts(fate, p, At(p)) /\ o \in Seq(PacketType)
  BY <1>3, SaidIsPart, Words
<1>5. Heard(q) \in Seq(PacketType)
  <2>1. HeardFirst(q) \in Seq(PacketType)
    BY <1>3, <1>4, HeardIsOpening, OpeningShort, PeerFacts
  <2> QED BY <2>1, <1>3, Words, PeerFacts DEF Heard
<1>6. /\ o \o s \in Said(p)'
      /\ Flow(fate, p, At(p), o \o s, chan'[p], At(q), Heard(q), Signaled(q), localOk[q])
  <2>1. Flow(fate, p, At(p), o, chan[p], At(q), Heard(q), Signaled(q), localOk[q])
    BY <1>2 DEF FlowOf
  <2>2. CASE s = <<>> /\ o \in Said(p)'
    BY <2>1, <2>2, <1>3, <1>4, Join
  <2>3. CASE /\ o \notin Confirmed \cup {Whole(fate, p, At(p))} /\ o \o s \in Said(p)'
             /\ o \o s \in Confirmed => At(p) # Following(fate, At(q)) /\ localOk[q]
    BY <2>1, <2>3, <1>3, <1>4, <1>5, FlowSay
  <2> QED BY <2>2, <2>3, <1>1, <1>2
<1>7. FlowOf(p, At(p), o \o s, chan[p])'
  BY <1>6, SameMeans DEF FlowOf, Same
<1> QED BY <1>6, <1>7, FlowsFromLiveNext

(* p says s, goes on and says more at the next place.                      *)
LEMMA Leaving ==
  ASSUME IInv, NEW p \in Party, NEW q \in Party, q = Peer(p), Live(p), Live(q),
         NEW s \in Seq(PacketType), NEW more \in Seq(PacketType), more \notin Confirmed,
         (At(q) = At(p) /\ Signaled(q)) \/ At(q) = Following(fate, At(p)),
         \A o \in Said(p) : FlowOf(p, At(p), o, chan[p]) =>
           \/ s = <<>> /\ (o = Whole(fate, p, At(p)) \/ At(q) = Following(fate, At(p)))
           \/ /\ o \notin Confirmed \cup {Whole(fate, p, At(p))} /\ o \o s = Whole(fate, p, At(p))
              /\ At(q) = At(p) => localOk[q] \/ o \o s \notin Confirmed
  PROVE  Flow(fate, p, Following(fate, At(p)), more, (chan[p] \o s) \o more,
              At(q), Heard(q), Signaled(q), localOk[q])
<1>2. PICK o \in Said(p) : FlowOf(p, At(p), o, chan[p])
  BY LiveFlow
<1>3. /\ Active(p) /\ Placed(p) /\ TypeOK /\ At(p) \in Position /\ fate \in Seq(Party)
      /\ Active(q) /\ Placed(q) /\ At(q) \in Position /\ chan[p] \in Seq(PacketType)
  BY AtPosition DEF IInv, Live, TypeOK
<1>4. o \in Parts(fate, p, At(p)) /\ o \in Seq(PacketType)
  BY <1>3, SaidIsPart, Words
<1>5. Heard(q) \in Seq(PacketType)
  <2>1. HeardFirst(q) \in Seq(PacketType)
    BY <1>3, <1>4, HeardIsOpening, OpeningShort, PeerFacts
  <2> QED BY <2>1, <1>3, Words, PeerFacts DEF Heard
<1>6. Flow(fate, p, At(p), o, chan[p], At(q), Heard(q), Signaled(q), localOk[q])
  BY <1>2 DEF FlowOf
<1>7. At(p) # Following(fate, At(p)) /\ At(p) # Following(fate, Following(fate, At(p)))
  BY <1>3, Ways
<1>8. CASE s = <<>> /\ (o = Whole(fate, p, At(p)) \/ At(q) = Following(fate, At(p)))
  <2>1. chan[p] \o s = chan[p]
    BY <1>3, <1>8, Join
  <2> QED BY <2>1, <1>3, <1>4, <1>5, <1>6, <1>8, FlowLeave
<1>9. CASE /\ o \notin Confirmed \cup {Whole(fate, p, At(p))} /\ o \o s = Whole(fate, p, At(p))
           /\ At(q) = At(p) => localOk[q] \/ o \o s \notin Confirmed
  <2>1. At(q) = At(p) /\ Signaled(q)
    BY <1>6, <1>7, <1>9 DEF Flow
  <2>2. Flow(fate, p, At(p), o \o s, chan[p] \o s, At(q), Heard(q), Signaled(q), localOk[q])
    BY <2>1, <1>3, <1>4, <1>5, <1>6, <1>7, <1>9, FlowSay
  <2>3. Whole(fate, p, At(p)) \in Parts(fate, p, At(p))
    <3>1. At(p).stage # "handshake" => Whole(fate, p, At(p)) \in Parts(fate, p, At(p))
      BY Zenon DEF Parts, Whole
    <3>2. At(p).stage = "handshake" => Whole(fate, p, At(p)) \in Parts(fate, p, At(p))
      BY Zenon DEF Parts, Whole
    <3> QED BY <3>1, <3>2
  <2>4. chan[p] \o s \in Seq(PacketType)
    BY <1>3
  <2>5. Flow(fate, p, At(p), Whole(fate, p, At(p)), chan[p] \o s, At(q), Heard(q), Signaled(q), localOk[q])
    BY <2>2, <1>9
  <2> QED BY <2>1, <2>3, <2>4, <2>5, <1>3, <1>5, FlowLeave
<1> QED BY <1>2, <1>8, <1>9

LEMMA OutLeave ==
  ASSUME TypeOK', NEW p \in Party, NEW q \in Party, q = Peer(p), Same(q),
         Live(p)', Placed(p)', NEW x, At(p)' = x, NEW more \in Said(p)',
         Live(q) => Flow(fate, p, x, more, chan'[p], At(q), Heard(q), Signaled(q), localOk[q])
  PROVE  Flows(p)'
<1> SUFFICES ASSUME Live(q)' PROVE Flows(p)'
  BY DEF Flows
<1>1. FlowOf(p, At(p), more, chan[p])'
  BY SameMeans DEF FlowOf, Same
<1> QED BY <1>1, FlowsFromLiveNext

(* p goes no further: what it has said remains.                            *)
LEMMA OutStop ==
  ASSUME TypeOK', NEW p \in Party, NEW q \in Party, q = Peer(p), Same(q),
         ~Live(p)', NEW x \in Position, NEW o \in Parts(fate, p, x), NEW body \in Seq(PacketType),
         NEW end \in Seq(PacketType), chan'[p] = body \o end,
         Live(q) => Flow(fate, p, x, o, body, At(q), Heard(q), Signaled(q), localOk[q]),
         End(p, x, end)', Stopped(p)' \/ end # <<>> => StopAt(p, x, o)'
  PROVE  Flows(p)'
<1> SUFFICES ASSUME Live(q)' PROVE Flows(p)'
  BY DEF Flows
<1>1. FlowOf(p, x, o, body)' /\ fate' = fate
  BY SameMeans DEF FlowOf, Same
<1>2. Stream(p, x, o, body, end)'
  BY <1>1 DEF Stream
<1>3. o \in Parts(fate', p, x)
  BY <1>1
<1> QED BY <1>2, <1>3 DEF Flows

(* p, which goes no further, drops a packet or leaves.                     *)
LEMMA OutKeep ==
  ASSUME IInv, TypeOK', NEW p \in Party, NEW q \in Party, q = Peer(p), Same(q),
         ~Live(p)', chan'[p] = chan[p], Asked(p)' = Asked(p), game'[p] = game[p],
         met'[p] = met[p], Stopped(p)' => Stopped(p)
  PROVE  Flows(p)'
<1> SUFFICES ASSUME Live(q) PROVE Flows(p)'
  BY SameMeans DEF Flows
<1>1. PICK x \in Position, body \in Seq(PacketType), end \in Seq(PacketType) :
        \E o \in Parts(fate, p, x) : Stream(p, x, o, body, end)
  BY DEF IInv, Flows
<1>2. PICK o \in Parts(fate, p, x) : Stream(p, x, o, body, end)
  BY <1>1
<1>3. Flow(fate, p, x, o, body, At(q), Heard(q), Signaled(q), localOk[q])
  BY <1>2 DEF Stream, FlowOf
<1>4. fate' = fate
  BY DEF Same
<1>5. End(p, x, end)' /\ (Stopped(p)' \/ end # <<>> => StopAt(p, x, o)')
  BY <1>2, <1>4 DEF Stream, End, StopAt
<1>6. chan'[p] = body \o end
  BY <1>2 DEF Stream
<1> QED BY <1>2, <1>3, <1>5, <1>6, OutStop

-----------------------------------------------------------------------------
(* Resets in a step.                                                       *)

(* The channel from q loses its first packet, which is no RESET, or none.  *)
Pops(q) ==
  \/ chan'[q] = chan[q]
  \/ chan[q] # <<>> /\ Head(chan[q]) # "RESET" /\ chan'[q] = Tail(chan[q])

LEMMA NoResetJoin ==
  ASSUME NEW a \in Seq(PacketType), NEW b \in Seq(PacketType)
  PROVE  /\ NoResetIn(a) /\ NoResetIn(b) <=> NoResetIn(a \o b)
         /\ NoResetIn(a) /\ a # <<>> => NoResetIn(Tail(a)) /\ Head(a) # "RESET"
<1>1. ASSUME NoResetIn(a), NoResetIn(b) PROVE NoResetIn(a \o b)
  BY <1>1 DEF NoResetIn
<1>2. ASSUME NoResetIn(a \o b) PROVE NoResetIn(a) /\ NoResetIn(b)
  <2>1. \A i \in 1 .. Len(a) : i \in 1 .. Len(a \o b) /\ (a \o b)[i] = a[i]
    OBVIOUS
  <2>2. \A i \in 1 .. Len(b) : Len(a) + i \in 1 .. Len(a \o b) /\ (a \o b)[Len(a) + i] = b[i]
    OBVIOUS
  <2> QED BY <1>2, <2>1, <2>2 DEF NoResetIn
<1>3. ASSUME NoResetIn(a), a # <<>> PROVE NoResetIn(Tail(a)) /\ Head(a) # "RESET"
  <2>1. Len(a) >= 1 /\ Head(a) = a[1] /\ Len(Tail(a)) = Len(a) - 1
    BY <1>3
  <2>2. \A i \in 1 .. Len(Tail(a)) : Tail(a)[i] = a[i + 1] /\ i + 1 \in 1 .. Len(a)
    BY <1>3, <2>1
  <2> QED BY <1>3, <2>1, <2>2 DEF NoResetIn
<1> QED BY <1>1, <1>2, <1>3

(* Popping what the peer handles keeps the account of the RESET.           *)
LEMMA OutgoingPops ==
  ASSUME TypeOK, NEW p \in Party, NEW q \in Party, q = Peer(p), Same(q), Outgoing(q),
         Asked(p)' <=> Asked(p), Told(p)' <=> Told(p), remoteReset'[p] = remoteReset[p],
         Pops(q), ~(Asked(q) /\ Told(p)) \/ chan'[q] = chan[q]
  PROVE  Outgoing(q)'
<1>1. Peer(q) = p /\ Asked(q)' = Asked(q) /\ chan[q] \in Seq(PacketType)
  BY PeerFacts, SameMeans DEF TypeOK
<1>2. CASE chan'[q] = chan[q]
  BY <1>1, <1>2 DEF Outgoing, Late, NoResetIn
<1>3. CASE chan[q] # <<>> /\ Head(chan[q]) # "RESET" /\ chan'[q] = Tail(chan[q]) /\ ~Asked(q)
  <2>1. NoResetIn(Tail(chan[q]))
    BY <1>1, <1>3, NoResetJoin DEF Outgoing
  <2>2. NoResetIn(chan[q])'
    BY <2>1, <1>3 DEF NoResetIn
  <2> QED BY <2>2, <1>1, <1>3 DEF Outgoing
<1>4. CASE /\ chan[q] # <<>> /\ Head(chan[q]) # "RESET" /\ chan'[q] = Tail(chan[q])
           /\ Asked(q) /\ ~Told(p)
  <2>1. PICK before \in Seq(PacketType), after \in Seq(PacketType) :
          /\ chan[q] = before \o <<"RESET">> \o after
          /\ NoResetIn(before) /\ Late(after, p)
    BY <1>1, <1>4 DEF Outgoing
  <2>2. <<"RESET">> \in Seq(PacketType) /\ <<"RESET">> \o after \in Seq(PacketType)
        /\ Head(<<"RESET">> \o after) = "RESET" /\ <<"RESET">> # <<>>
    BY DEF PacketType
  <2>3. chan[q] = before \o (<<"RESET">> \o after)
    BY <2>1, <2>2, Join
  <2>4. before # <<>>
    <3>1. SUFFICES ASSUME before = <<>> PROVE FALSE
      OBVIOUS
    <3>2. chan[q] = <<"RESET">> \o after
      BY <2>2, <2>3, <3>1, Join
    <3> QED BY <3>2, <2>2, <1>4
  <2>5. Tail(chan[q]) = Tail(before) \o (<<"RESET">> \o after) /\ Tail(before) \in Seq(PacketType)
    BY <2>2, <2>3, <2>4, First
  <2>6. chan'[q] = Tail(before) \o <<"RESET">> \o after
    <3>1. Tail(before) \o <<"RESET">> \o after = Tail(before) \o (<<"RESET">> \o after)
      BY <2>2, <2>5, Join
    <3> QED BY <3>1, <2>5, <1>4
  <2>7. NoResetIn(Tail(before))
    BY <2>1, <2>4, NoResetJoin
  <2>8. Late(after, p)'
    BY <2>1 DEF Late
  <2> QED BY <2>5, <2>6, <2>7, <2>8, <1>1, <1>4 DEF Outgoing
<1> QED BY <1>2, <1>3, <1>4 DEF Pops

LEMMA ResetsOther ==
  ASSUME NEW p \in Party, NEW q \in Party, q = Peer(p), Same(q), Resets(q),
         Asked(p) => Asked(p)', remoteReset'[p] => remoteReset[p] \/ ~remoteReset[q],
         Stopped(p)' /\ Stopped(q) => met'[p] = met[q] /\ game'[p] = game[q]
  PROVE  Resets(q)'
<1>1. Peer(q) = p
  BY PeerFacts
<1>2. StageOf(q)' = StageOf(q)
  BY DEF Same, StageOf
<1>3. /\ Quit(q)' = Quit(q) /\ Asked(q)' = Asked(q) /\ Told(q)' = Told(q)
      /\ Active(q)' = Active(q) /\ Stopped(q)' = Stopped(q) /\ MidGame(q)' = MidGame(q)
  BY SameMeans
<1>4. /\ localReset'[q] = localReset[q] /\ remoteReset'[q] = remoteReset[q] /\ pc'[q] = pc[q]
      /\ abort'[q] = abort[q] /\ ready'[q] = ready[q] /\ game'[q] = game[q]
      /\ met'[q] = met[q] /\ state'[q] = state[q]
  BY DEF Same
<1> QED BY <1>1, <1>2, <1>3, <1>4 DEF Resets

LEMMA LiveStep ==
  ASSUME IInv, TypeOK', NEW p \in Party, NEW q \in Party, q = Peer(p), Same(q),
         Live(p), Live(p)', remoteReset'[p] = remoteReset[p],
         Placed(p)', Faultless(p)', Flows(p)', Flows(q)',
         NEW s \in Seq(PacketType), NoResetIn(s), chan'[p] = chan[p] \o s, Pops(q)
  PROVE  IInv'
<1>1. Peer(q) = p /\ Resets(p) /\ Resets(q) /\ Outgoing(p) /\ Outgoing(q) /\ TypeOK
  BY PeerFacts DEF IInv
<1>2. /\ ~Asked(p) /\ ~Told(p) /\ ~Stopped(p) /\ ~localReset[p] /\ ~remoteReset[p]
      /\ ~Asked(p)' /\ ~Told(p)' /\ ~Stopped(p)' /\ ~localReset'[p] /\ ~remoteReset'[p]
  BY <1>1 DEF Live, Active, Asked, Told, Stopped, Resets
<1>3. ~Told(q)
  BY <1>1, <1>2 DEF Resets
<1>4. NoResetIn(chan[p])'
  <2>1. NoResetIn(chan[p] \o s)
    BY <1>1, <1>2, NoResetJoin DEF Outgoing, TypeOK
  <2> QED BY <2>1 DEF NoResetIn
<1>5. Outgoing(p)'
  BY <1>2, <1>4 DEF Outgoing
<1>6. Outgoing(q)'
  BY <1>1, <1>2, OutgoingPops
<1>7. Resets(q)'
  BY <1>1, <1>2, ResetsOther
<1>8. Resets(p)'
  BY <1>2, <1>3, SameMeans DEF Resets, Live, Active
<1>9. Placed(q)' /\ Faultless(q)'
  BY SamePlaced, SameMeans DEF IInv
<1>10. Len(fate') >= 1
  BY DEF IInv, Same
<1> QED BY <1>5, <1>6, <1>7, <1>8, <1>9, <1>10, PeerFacts DEF IInv

-----------------------------------------------------------------------------
(* The types, and what a step leaves alone.                                *)

(* A step of p, other than to begin a game after one that was reset.       *)
Act(p) ==
  /\ Player(p) \/ ShipDies(p) \/ Proceed(p) \/ Receive(p) \/ PeerLost(p) \/ Lose(p)
  /\ Confirm(p) => ~Quit(p)

LEMMA ArrivesLive ==
  ASSUME IInv, NEW p \in Party, NEW t, Arrives(p, t),
         state[p] # "inSetup" \/ t \in {"HANDSHAKE0", "HANDSHAKE1"}
  PROVE  Live(p)
<1>1. Resets(p) /\ Outgoing(Peer(p)) /\ Peer(Peer(p)) = p
  BY PeerFacts DEF IInv
<1>2. pc[p] \notin {"resetting", "resetWait", "left"} /\ ~localReset[p]
  BY <1>1 DEF Resets, Arrives, Polls
<1>3. ~Quit(p)
  <2>1. SUFFICES ASSUME Quit(p), t \in {"HANDSHAKE0", "HANDSHAKE1"} PROVE FALSE
    BY DEF Quit
  <2>2. Asked(Peer(p)) /\ Told(p)
    BY <1>1, <2>1 DEF Told, Resets
  <2>3. Late(chan[Peer(p)], p)
    BY <1>1, <2>2 DEF Outgoing
  <2> QED BY <2>1, <2>3 DEF Late, Arrives, Polls, Incoming
<1> QED BY <1>2, <1>3 DEF Live, Active

LEMMA Callbacks ==
  ASSUME TypeOK, NEW p \in Party, Active(p), Placed(p), ready[p].local
  PROVE  \/ ready[p].callback = "negotiate" /\ waiting[p] /\ pc[p] \in Meeting
         \/ ready[p].callback = "toEnd" /\ pc[p] = "dying" /\ state[p] = "inBattle"
         \/ /\ ready[p].callback = "toEnd2" /\ pc[p] \in {"dying", "waitReady"}
            /\ state[p] = "endingBattle"
<1>1. InMenu(p) /\ InGame(p) /\ ReadyAt(p) /\ pc[p] \in Place
  BY DEF Placed, TypeOK
<1>2. pc[p] \notin {"menu", "confirming", "picking", "battle"}
  BY <1>1 DEF InMenu, Resting, ReadyAt
<1>3. pc[p] \in Meeting => waiting[p] /\ ready[p].callback = "negotiate"
  BY <1>1 DEF ReadyAt
<1>4. pc[p] \in {"dying", "waitReady"} =>
        \/ pc[p] = "dying" /\ state[p] = "inBattle" /\ ready[p].callback = "toEnd"
        \/ state[p] = "endingBattle" /\ ready[p].callback = "toEnd2"
  BY <1>1 DEF InGame, ReadyAt
<1> QED BY <1>1, <1>2, <1>3, <1>4 DEF Active, Place

LEMMA Frame ==
  ASSUME IInv, NEW p \in Party, Act(p), NEW q \in Party, q = Peer(p)
  PROVE  Same(q)
<1>0. TypeOK
  BY DEF IInv
<1> USE <1>0, PeerFacts DEF TypeOK, Same, Go, Send, Answer, handshake, reset, progress
<1>1. CASE Confirm(p)
  BY <1>1 DEF Confirm, Act
<1>2. CASE Pick(p)
  BY <1>2 DEF Pick
<1>3. CASE Exit(p)
  BY <1>3 DEF Exit
<1>4. CASE ShipDies(p)
  BY <1>4 DEF ShipDies
<1>5. CASE Prepare(p)
  BY <1>5 DEF Prepare
<1>6. CASE Negotiate(p)
  <2>1. CASE MayBeReady(p)
    BY <1>6, <2>1 DEF Negotiate, LocalReady, Met
  <2>2. CASE ~MayBeReady(p)
    BY <1>6, <2>2 DEF Negotiate, AssertionFails
  <2> QED BY <2>1, <2>2
<1>7. CASE Picked(p) \/ PickAborted(p) \/ PickForgotten(p) \/ AwaitFrameCount(p) \/ EndReached(p)
  BY <1>7 DEF Picked, PickAborted, PickForgotten, AwaitFrameCount, EndReached
<1>16. CASE AbortBattle(p)
  BY <1>16 DEF AbortBattle
<1>8. CASE SignalEnd(p)
  BY <1>8 DEF SignalEnd, ReadyToEnd
<1>9. CASE WaitReset(p)
  BY <1>9 DEF WaitReset, BackToMenu
<1>10. CASE HandleHandshake0(p) \/ HandleHandshake1(p) \/ HandleInputDelay(p) \/ HandleSeedRandom(p)
  BY <1>10 DEF HandleHandshake0, HandleHandshake1, HandleInputDelay, HandleSeedRandom
<1>11. CASE HandleReady(p)
  <2>1. CASE ~R!MetByRemote(ready[p])
    BY <1>11, <2>1 DEF HandleReady
  <2>2. CASE R!MetByRemote(ready[p]) /\ ready[p].callback = "toEnd"
    BY <1>11, <2>2 DEF HandleReady, ReadyToEnd
  <2>3. CASE R!MetByRemote(ready[p]) /\ ready[p].callback = "toEnd2"
    BY <1>11, <2>3 DEF HandleReady
  <2>4. CASE R!MetByRemote(ready[p]) /\ ready[p].callback = "negotiate"
    <3>1. Met(p) /\ Answer(p, <<>>) /\ ready' = [ready EXCEPT ![p] = R!AfterRemote(ready[p])]
      BY <1>11, <2>4 DEF HandleReady
    <3>2. /\ abort' = [abort EXCEPT ![p] = @ \/ pc[p] = "unchosen"]
          /\ fault' = IF pc[p] = "unchosen" /\ deaths[p] = 0
                      THEN [fault EXCEPT ![p] = "shipless"] ELSE fault
          /\ picked' = IF NextPlace(p) = "choose" THEN [picked EXCEPT ![p] = {}] ELSE picked
      BY <3>1 DEF Met
    <3>3. abort'[q] = abort[q] /\ fault'[q] = fault[q] /\ picked'[q] = picked[q]
      BY <3>2
    <3> QED BY <3>1, <3>3 DEF Met
  <2>5. R!MetByRemote(ready[p]) => ready[p].callback \in {"toEnd", "toEnd2", "negotiate"}
    <3>1. Live(p)
      BY <1>11, ArrivesLive DEF HandleReady, ReadyFlagsMeaningful
    <3>2. Active(p) /\ Placed(p) /\ TypeOK
      BY <3>1, <1>0 DEF Live, IInv
    <3> QED BY <3>2, Callbacks DEF R!MetByRemote
  <2> QED BY <2>1, <2>2, <2>3, <2>4, <2>5
<1>12. CASE HandleSelectShip(p) \/ HandleBattleInput(p) \/ HandleFrameCount(p)
  BY <1>12 DEF HandleSelectShip, HandleBattleInput, HandleFrameCount
<1>13. CASE HandleReset(p)
  BY <1>13 DEF HandleReset, BackToMenu
<1>14. CASE DropPacket(p) \/ RefusePacket(p)
  BY <1>14 DEF DropPacket, RefusePacket
<1>15. CASE PeerLost(p) \/ Lose(p)
  BY <1>15 DEF PeerLost, Lose
<1> QED BY <1>1, <1>2, <1>3, <1>4, <1>5, <1>6, <1>7, <1>8, <1>9, <1>10, <1>11, <1>12, <1>13,
           <1>14, <1>15, <1>16 DEF Act, Player, Proceed, Receive

LEMMA Sends ==
  ASSUME TypeOK, NEW p \in Party, NEW types \in Seq(PacketType), Send(p, types)
  PROVE  /\ chan' \in [Party -> Seq(PacketType)]
         /\ chan'[p] = chan[p] \o types /\ chan'[Peer(p)] = chan[Peer(p)]
<1>1. chan \in [Party -> Seq(PacketType)]
  BY DEF TypeOK
<1>2. chan[p] \o types \in Seq(PacketType)
  BY <1>1
<1> QED BY <1>1, <1>2, PeerFacts DEF Send

LEMMA Answers ==
  ASSUME TypeOK, NEW p \in Party, NEW types \in Seq(PacketType), Answer(p, types),
         chan[Peer(p)] # <<>>
  PROVE  /\ chan' \in [Party -> Seq(PacketType)]
         /\ chan'[p] = chan[p] \o types /\ chan'[Peer(p)] = Tail(chan[Peer(p)])
<1>1. chan \in [Party -> Seq(PacketType)] /\ Peer(p) \in Party /\ Peer(p) # p
  BY PeerFacts DEF TypeOK
<1>2. chan[p] \o types \in Seq(PacketType) /\ Tail(chan[Peer(p)]) \in Seq(PacketType)
  BY <1>1
<1> QED BY <1>1, <1>2 DEF Answer

LEMMA ReadyTypes ==
  ASSUME NEW r \in R!Ready, NEW callback \in {"toEnd", "toEnd2", "negotiate"}
  PROVE  R!AfterLocal(r, callback) \in R!Ready /\ R!AfterRemote(r) \in R!Ready
BY DEF R!Ready, R!AfterLocal, R!AfterRemote, R!MetByLocal, R!MetByRemote

LEMMA MetTypes ==
  ASSUME TypeOK, NEW p \in Party, pc[p] \in Meeting, Met(p)
  PROVE  /\ state' \in [Party -> NetState] /\ pc' \in [Party -> Place]
         /\ waiting' \in [Party -> BOOLEAN] /\ met' \in [Party -> Nat]
         /\ picked' \in [Party -> SUBSET Party] /\ abort' \in [Party -> BOOLEAN]
         /\ fault' \in [Party -> PacketType \cup {"none", "assertion", "shipless"}]
<1>1. NextState(pc[p]) \in NetState
  BY DEF NextState, NetState, Meeting
<1>2. NextPlace(p) \in Place
  BY DEF NextPlace, Place, Meeting
<1> QED BY <1>1, <1>2 DEF TypeOK, Met, Go

(* The signal is the last packet of a place.                               *)
LEMMA LastLetter ==
  ASSUME NEW f \in Seq(Party), NEW p \in Party, NEW y \in Position, NEW h \in Seq(PacketType),
         NEW t \in PacketType, Append(h, t) = Whole(f, p, y)
  PROVE  t = IF y.stage = "handshake" THEN "HANDSHAKE1"
             ELSE IF y.stage = "toEnd2" THEN "FRAMECOUNT" ELSE "READY"
<1> DEFINE W == Whole(f, p, y)
<1>1. t = W[Len(W)]
  <2>1. Len(Append(h, t)) = Len(h) + 1 /\ Append(h, t)[Len(h) + 1] = t
    OBVIOUS
  <2> QED BY <2>1
<1>2. CASE y.stage = "handshake"
  <2>1. W = <<"HANDSHAKE0", "HANDSHAKE1">>
    BY <1>2 DEF Whole
  <2> QED BY <1>1, <1>2, <2>1, Len(<<"HANDSHAKE0", "HANDSHAKE1">>) = 2
<1>3. CASE y.stage = "agree"
  <2>1. CASE p = Host
    <3>1. W = <<"INPUTDELAY", "SEEDRANDOM", "READY">>
      BY <1>3, <2>1 DEF Whole
    <3> QED BY <1>1, <1>3, <3>1, Len(<<"INPUTDELAY", "SEEDRANDOM", "READY">>) = 3
  <2>2. CASE p # Host
    <3>1. W = <<"INPUTDELAY", "READY">>
      BY <1>3, <2>2 DEF Whole
    <3> QED BY <1>1, <1>3, <3>1, Len(<<"INPUTDELAY", "READY">>) = 2
  <2> QED BY <2>1, <2>2
<1>4. CASE y.stage = "chosen" /\ Chooses(f, p, y)
  <2>1. W = <<"SELECTSHIP", "READY">>
    BY <1>4 DEF Whole
  <2> QED BY <1>1, <1>4, <2>1, Len(<<"SELECTSHIP", "READY">>) = 2
<1>5. CASE y.stage = "toEnd2"
  <2>1. W = <<"FRAMECOUNT">>
    BY <1>5 DEF Whole
  <2> QED BY <1>1, <1>5, <2>1, Len(<<"FRAMECOUNT">>) = 1
<1>6. CASE /\ y.stage # "handshake" /\ y.stage # "agree" /\ y.stage # "toEnd2"
           /\ ~(y.stage = "chosen" /\ Chooses(f, p, y))
  <2>1. W = <<"READY">>
    BY <1>6 DEF Whole
  <2> QED BY <1>1, <1>6, <2>1, Len(<<"READY">>) = 1
<1> QED BY <1>2, <1>3, <1>4, <1>5, <1>6

(* Where a live side is when it finds a packet, and what it has heard.     *)
LEMMA Hearing ==
  ASSUME IInv, NEW p \in Party, NEW q \in Party, q = Peer(p), Live(p), chan[q] # <<>>,
         NEW t \in PacketType, t = Head(chan[q]), t \notin {"BATTLEINPUT", "RESET"}
  PROVE  /\ ~ready[p].remote
         /\ t = "HANDSHAKE0" => StageOf(p) = "handshake" /\ ~remoteOk[p]
         /\ t = "HANDSHAKE1" => StageOf(p) = "handshake" /\ localOk[p]
         /\ t = "INPUTDELAY" => StageOf(p) = "agree" /\ HeardFirst(p) = <<>>
         /\ t = "SEEDRANDOM" =>
              StageOf(p) = "agree" /\ q = Host /\ HeardFirst(p) = <<"INPUTDELAY">>
         /\ t = "SELECTSHIP" => StageOf(p) = "chosen" /\ q \in Selecting(p) \ picked[p]
         /\ t = "READY" => /\ StageOf(p) \notin {"handshake", "toEnd2"}
                           /\ Append(HeardFirst(p), t) = Whole(fate, q, At(p))
         /\ t = "FRAMECOUNT" => /\ StageOf(p) = "toEnd2"
                                /\ Append(HeardFirst(p), t) = Whole(fate, q, At(p))
<1>1. PICK x \in Position, body \in Seq(PacketType), end \in Seq(PacketType) :
        \E o \in Parts(fate, q, x) : Arrival(p, q, x, o, body, end)
  BY Expected
<1>2. PICK o \in Parts(fate, q, x) : Arrival(p, q, x, o, body, end)
  BY <1>1
<1>3. Active(p) /\ Placed(p) /\ TypeOK /\ At(p) \in Position /\ fate \in Seq(Party)
  BY AtPosition DEF IInv, Live, TypeOK
<1>4. HeardFirst(p) \in Seq(PacketType) /\ ~ready[p].remote /\ At(p).stage = StageOf(p)
  BY <1>3, HeardIsOpening, OpeningShort, Expected DEF At
<1>5. Flow(fate, q, x, o, body, At(p), HeardFirst(p), Signaled(p), localOk[p]) /\ body # <<>>
  BY <1>2 DEF Arrival
<1>6. StageOf(p) = "handshake" /\ x = At(p) /\ o = <<"HANDSHAKE1">> => localOk[p]
  <2>1. HeardFirst(p) \o body # <<>>
    BY <1>4, <1>5
  <2> QED BY <1>3, <1>5, <2>1, Ways DEF Flow, Confirmed
<1>7. Append(HeardFirst(p), t) = Whole(fate, q, At(p)) /\ StageOf(p) = "handshake" => localOk[p]
  <2>1. SUFFICES ASSUME Append(HeardFirst(p), t) = Whole(fate, q, At(p)),
                        StageOf(p) = "handshake", ~localOk[p]
                 PROVE  FALSE
    OBVIOUS
  <2>2. ~Signaled(p)
    BY <2>1 DEF Signaled
  <2>3. x = At(p) /\ HeardFirst(p) \o body = o /\ o \notin Confirmed
    BY <2>1, <2>2, <1>5 DEF Flow
  <2>4. Len(Append(HeardFirst(p), t)) = 2
    BY <2>1, <1>4, Len(<<"HANDSHAKE0", "HANDSHAKE1">>) = 2 DEF Whole
  <2>5. Len(o) >= 2
    BY <2>3, <2>4, <1>4, <1>5
  <2>6. o \in {<<>>, <<"HANDSHAKE0">>}
    BY <2>1, <2>3, <1>4 DEF Parts, Confirmed
  <2>7. CASE o = <<>>
    BY <2>5, <2>7
  <2>8. CASE o = <<"HANDSHAKE0">>
    BY <2>5, <2>8, Len(<<"HANDSHAKE0">>) = 1
  <2> QED BY <2>6, <2>7, <2>8
<1>8. CASE StageOf(p) = "handshake" /\ t = "HANDSHAKE1" /\ x = At(p) /\ o = <<"HANDSHAKE1">>
  BY <1>4, <1>6, <1>8
<1>9. CASE Append(HeardFirst(p), t) = Whole(fate, q, At(p))
  <2>1. t = IF StageOf(p) = "handshake" THEN "HANDSHAKE1"
            ELSE IF StageOf(p) = "toEnd2" THEN "FRAMECOUNT" ELSE "READY"
    BY <1>3, <1>4, <1>9, LastLetter
  <2> QED BY <1>4, <1>7, <1>9, <2>1
<1>10. CASE StageOf(p) = "handshake" /\ HeardFirst(p) = <<>> /\ t = "HANDSHAKE0"
  <2>1. ~remoteOk[p]
    BY <1>10 DEF HeardFirst
  <2> QED BY <1>4, <1>10, <2>1
<1>11. CASE StageOf(p) = "agree" /\ HeardFirst(p) = <<>> /\ t = "INPUTDELAY"
  BY <1>4, <1>11
<1>12. CASE /\ StageOf(p) = "agree" /\ q = Host /\ HeardFirst(p) = <<"INPUTDELAY">>
            /\ t = "SEEDRANDOM"
  BY <1>4, <1>12
<1>13. CASE /\ StageOf(p) = "chosen" /\ Chooses(fate, q, At(p)) /\ HeardFirst(p) = <<>>
            /\ t = "SELECTSHIP"
  <2>1. q \in Selecting(p)
    BY <1>3, <1>13, ChoosesHere
  <2>2. q \notin picked[p]
    BY <1>13 DEF HeardFirst
  <2> QED BY <1>4, <1>13, <2>1, <2>2
<1> QED BY <1>2, <1>4, <1>8, <1>9, <1>10, <1>11, <1>12, <1>13 DEF Arrival, NextPacket

LEMMA Packets ==
  /\ <<>> \in Seq(PacketType)
  /\ <<"HANDSHAKE0">> \in Seq(PacketType) /\ <<"HANDSHAKE1">> \in Seq(PacketType)
  /\ <<"SELECTSHIP">> \in Seq(PacketType) /\ <<"READY">> \in Seq(PacketType)
  /\ <<"FRAMECOUNT">> \in Seq(PacketType) /\ <<"BATTLEINPUT">> \in Seq(PacketType)
  /\ <<"READY", "FRAMECOUNT">> \in Seq(PacketType) /\ <<"RESET">> \in Seq(PacketType)
BY DEF PacketType

(* readyToEndCallback sends FRAMECOUNT after the packets before.           *)
LEMMA Ends ==
  ASSUME TypeOK, NEW p \in Party, NEW r \in R!Ready, NEW before \in Seq(PacketType),
         NEW channels \in [Party -> Seq(PacketType)], ReadyToEnd(p, r, before, channels)
  PROVE  /\ chan' \in [Party -> Seq(PacketType)] /\ state' \in [Party -> NetState]
         /\ ready' \in [Party -> R!Ready]
         /\ chan'[p] = (channels[p] \o before) \o <<"FRAMECOUNT">>
         /\ chan'[Peer(p)] = channels[Peer(p)]
         /\ state'[p] = "endingBattle" /\ ready'[p] = R!AfterLocal(r, "toEnd2")
<1>1. (channels[p] \o before) \o <<"FRAMECOUNT">> \in Seq(PacketType)
  BY Packets
<1>2. R!AfterLocal(r, "toEnd2") \in R!Ready
  BY ReadyTypes
<1>3. Peer(p) \in Party /\ Peer(p) # p
  BY PeerFacts
<1> QED BY <1>1, <1>2, <1>3 DEF ReadyToEnd, TypeOK, NetState

LEMMA Rounds ==
  ASSUME TypeOK, NEW p \in Party, Live(p), Placed(p), StageOf(p) # "handshake"
  PROVE  Round(p) \in 1 .. MaxGames
<1>1. InMenu(p) /\ game[p] \in 0 .. MaxGames
  BY DEF Placed, Live, TypeOK
<1>2. CASE pc[p] = "menu"
  BY <1>2 DEF StageOf
<1>3. CASE pc[p] = "confirming"
  BY <1>1, <1>3, GameAssumption DEF InMenu, Round
<1>4. CASE pc[p] \notin {"menu", "confirming"}
  BY <1>1, <1>4, GameAssumption DEF InMenu, Round
<1> QED BY <1>2, <1>3, <1>4

(* A step of p keeps the types.                                            *)
LEMMA TypeStep ==
  ASSUME IInv, NEW p \in Party, Act(p)
  PROVE  TypeOK'
<1>0. TypeOK /\ Placed(p) /\ Resets(p)
  BY DEF IInv
<1>q. Peer(p) \in Party /\ Peer(p) # p
  BY PeerFacts
<1> USE <1>0, <1>q, GameAssumption DEF handshake, reset, progress
<1>1. CASE Confirm(p)
  <2>1. chan' \in [Party -> Seq(PacketType)]
    BY <1>1, Packets, Sends DEF Confirm
  <2>2. ~Quit(p)
    BY <1>1 DEF Act
  <2> QED BY <1>1, <2>1, <2>2 DEF Confirm, TypeOK, Go, Place
<1>2. CASE Pick(p)
  <2>1. chan' \in [Party -> Seq(PacketType)]
    BY <1>2, Packets, Sends DEF Pick
  <2>2. pc' \in [Party -> Place]
    <3>1. pc' = [pc EXCEPT ![p] = "chosen"] \/ pc' = pc
      BY <1>2 DEF Pick, Go
    <3>2. "chosen" \in Place
      BY DEF Place, Meeting
    <3> QED BY <3>1, <3>2 DEF TypeOK
  <2> QED BY <1>2, <2>1, <2>2 DEF Pick, TypeOK
<1>3. CASE Exit(p)
  BY <1>3 DEF Exit, TypeOK
<1>4. CASE ShipDies(p)
  <2>1. deaths[p] < Len(fate)
    <3>1. Active(p)
      BY <1>4 DEF ShipDies, Active, Quit, Resets
    <3> QED BY <1>4, <3>1 DEF ShipDies, Placed, InGame
  <2>2. deaths \in [Party -> 0..Len(fate)] /\ Len(fate) \in Nat
    BY SMTT(30) DEF TypeOK
  <2>3. deaths' \in [Party -> 0..Len(fate)]
    BY <1>4, <2>1, <2>2 DEF ShipDies
  <2>4. pc' \in [Party -> Place]
    BY <1>4 DEF ShipDies, TypeOK, Go, Place
  <2> QED BY <1>4, <2>3, <2>4 DEF ShipDies, TypeOK
<1>5. CASE Prepare(p)
  <2>1. chan' \in [Party -> Seq(PacketType)]
    BY <1>5, PreparedPackets, Sends DEF Prepare
  <2>2. Active(p)
    BY <1>5 DEF Prepare, Active, Quit
  <2>3. game[p] < MaxGames /\ (p = Host => seed[p] = game[p])
    BY <1>5, <2>2 DEF Prepare, Placed, InMenu, Informed, StageOf
  <2>7. game \in [Party -> 0..MaxGames]
    BY DEF TypeOK
  <2>4. game' \in [Party -> 0..MaxGames]
    BY <1>5, <2>3, <2>7 DEF Prepare
  <2>9. seed \in [Party -> 0..MaxGames]
    BY DEF TypeOK
  <2>5. seed' \in [Party -> 0..MaxGames]
    BY <1>5, <2>3, <2>9 DEF Prepare
  <2>10. Len(fate) \in Nat /\ deaths \in [Party -> 0..Len(fate)] /\ met \in [Party -> Nat]
    BY SMTT(30) DEF TypeOK
  <2>6. deaths' \in [Party -> 0..Len(fate)] /\ met' \in [Party -> Nat]
    BY <1>5, <2>10 DEF Prepare
  <2>8. pc' \in [Party -> Place]
    BY <1>5 DEF Prepare, TypeOK, Go, Place, Meeting
  <2> QED BY <1>5, <2>1, <2>4, <2>5, <2>6, <2>8 DEF Prepare, TypeOK
<1>6. CASE Negotiate(p)
  <2>1. CASE ~MayBeReady(p)
    BY <1>6, <2>1 DEF Negotiate, AssertionFails, TypeOK, Go, Place
  <2>2. CASE MayBeReady(p)
    <3>1. LocalReady(p, <<"READY">>) /\ pc[p] \in Meeting
      BY <1>6, <2>2 DEF Negotiate
    <3>2. chan' \in [Party -> Seq(PacketType)]
      BY <3>1, Packets, Sends DEF LocalReady
    <3>3. ready' \in [Party -> R!Ready]
      BY <3>1, ReadyTypes DEF LocalReady, TypeOK
    <3>4. CASE R!MetByLocal(ready[p])
      <4>1. Met(p)
        BY <3>1, <3>4 DEF LocalReady
      <4> QED BY <3>1, <3>2, <3>3, <4>1, MetTypes DEF LocalReady, Met, TypeOK
    <3>5. CASE ~R!MetByLocal(ready[p])
      BY <3>1, <3>2, <3>3, <3>5 DEF LocalReady, TypeOK
    <3> QED BY <3>4, <3>5
  <2> QED BY <2>1, <2>2
<1>7. CASE Picked(p) \/ PickAborted(p) \/ PickForgotten(p) \/ AwaitFrameCount(p) \/ EndReached(p)
  <2>5. CASE PickForgotten(p)
    BY <2>5 DEF PickForgotten, TypeOK, Go, Place, Meeting
  <2>1. CASE Picked(p)
    BY <2>1 DEF Picked, TypeOK, Go, Place, Meeting
  <2>2. CASE PickAborted(p)
    BY <2>2 DEF PickAborted, TypeOK, Go, Place, NetState
  <2>3. CASE AwaitFrameCount(p)
    BY <2>3 DEF AwaitFrameCount, TypeOK, Go, Place
  <2>4. CASE EndReached(p)
    BY <2>4 DEF EndReached, TypeOK, Go, Place, Meeting
  <2> QED BY <1>7, <2>1, <2>2, <2>3, <2>4, <2>5
<1>8. CASE AbortBattle(p)
  <2>1. chan' \in [Party -> Seq(PacketType)]
    BY <1>8, Packets, Sends DEF AbortBattle
  <2> QED BY <1>8, <2>1 DEF AbortBattle, TypeOK, Go, Place
<1>9. CASE SignalEnd(p)
  <2>1. R!AfterLocal(ready[p], "toEnd") \in R!Ready
    BY ReadyTypes DEF TypeOK
  <2>2. CASE R!MetByLocal(ready[p])
    <3>1. ReadyToEnd(p, R!AfterLocal(ready[p], "toEnd"), <<"READY">>, chan)
      BY <1>9, <2>2 DEF SignalEnd
    <3>2. chan \in [Party -> Seq(PacketType)]
      BY DEF TypeOK
    <3> QED BY <1>9, <2>1, <3>1, <3>2, Packets, Ends DEF SignalEnd, TypeOK
  <2>3. CASE ~R!MetByLocal(ready[p])
    <3>1. chan' \in [Party -> Seq(PacketType)]
      BY <1>9, <2>3, Packets, Sends DEF SignalEnd
    <3> QED BY <1>9, <2>1, <2>3, <3>1 DEF SignalEnd, TypeOK
  <2> QED BY <2>2, <2>3
<1>10. CASE WaitReset(p)
  <2>1. CASE remoteReset[p]
    BY <1>10, <2>1 DEF WaitReset, BackToMenu, TypeOK, Go, Place, NetState
  <2>2. CASE ~remoteReset[p]
    <3>1. chan' \in [Party -> Seq(PacketType)]
      BY <1>10, <2>2, Packets, Sends DEF WaitReset
    <3> QED BY <1>10, <2>2, <3>1 DEF WaitReset, TypeOK, Go, Place
  <2> QED BY <2>1, <2>2
<1>11. CASE HandleHandshake0(p)
  <2>1. chan' \in [Party -> Seq(PacketType)]
    BY <1>11, Packets, Answers DEF HandleHandshake0, Arrives, Polls
  <2> QED BY <1>11, <2>1 DEF HandleHandshake0, TypeOK
<1>12. CASE HandleHandshake1(p)
  <2>1. chan' \in [Party -> Seq(PacketType)]
    BY <1>12, Packets, Answers DEF HandleHandshake1, Arrives, Polls
  <2> QED BY <1>12, <2>1 DEF HandleHandshake1, TypeOK, NetState
<1>13. CASE HandleInputDelay(p)
  <2>1. chan' \in [Party -> Seq(PacketType)]
    BY <1>13, Packets, Answers DEF HandleInputDelay, Arrives, Polls
  <2>2. Live(p)
    BY <1>13, ArrivesLive DEF HandleInputDelay
  <2>3. StageOf(p) = "agree" /\ HeardFirst(p) = <<>>
    BY <1>13, <2>2, Hearing DEF HandleInputDelay, Arrives, Polls, Incoming, PacketType
  <2>4. peerDelay[p] = Round(p) - 1
    <3>1. peerDelay[p] # Round(p)
      BY <2>3, Len(<<"INPUTDELAY", "SEEDRANDOM">>) = 2, Len(<<"INPUTDELAY">>) = 1
         DEF HeardFirst
    <3> QED BY <2>2, <2>3, <3>1 DEF Placed, Informed, Live
  <2>5. Round(p) \in 1 .. MaxGames
    BY <2>2, <2>3, Rounds
  <2>6. peerDelay \in [Party -> 0..MaxGames]
    BY DEF TypeOK
  <2>7. peerDelay' \in [Party -> 0..MaxGames]
    BY <1>13, <2>4, <2>5, <2>6 DEF HandleInputDelay
  <2> QED BY <1>13, <2>1, <2>7 DEF HandleInputDelay, TypeOK
<1>14. CASE HandleSeedRandom(p)
  <2>1. chan' \in [Party -> Seq(PacketType)]
    BY <1>14, Packets, Answers DEF HandleSeedRandom, Arrives, Polls
  <2>2. Live(p)
    BY <1>14, ArrivesLive DEF HandleSeedRandom
  <2>3. StageOf(p) = "agree" /\ HeardFirst(p) = <<"INPUTDELAY">>
    BY <1>14, <2>2, Hearing DEF HandleSeedRandom, Arrives, Polls, Incoming, PacketType
  <2>4. seed[p] = Round(p) - 1
    <3>1. ~(peerDelay[p] = Round(p) /\ seed[p] = Round(p)) /\ peerDelay[p] = Round(p)
      BY <1>14, <2>3, Len(<<"INPUTDELAY", "SEEDRANDOM">>) = 2, Len(<<"INPUTDELAY">>) = 1
         DEF HeardFirst, HandleSeedRandom
    <3> QED BY <1>14, <2>2, <2>3, <3>1 DEF Placed, Informed, Live, HandleSeedRandom
  <2>5. Round(p) \in 1 .. MaxGames
    BY <2>2, <2>3, Rounds
  <2>6. seed \in [Party -> 0..MaxGames]
    BY DEF TypeOK
  <2>7. seed' \in [Party -> 0..MaxGames]
    BY <1>14, <2>4, <2>5, <2>6 DEF HandleSeedRandom
  <2> QED BY <1>14, <2>1, <2>7 DEF HandleSeedRandom, TypeOK
<1>15. CASE HandleReady(p)
  <2>1. R!AfterRemote(ready[p]) \in R!Ready
    BY ReadyTypes DEF TypeOK
  <2>2. Answer(p, <<>>) => chan' \in [Party -> Seq(PacketType)]
    BY <1>15, Packets, Answers DEF HandleReady, Arrives, Polls
  <2>3. Live(p)
    BY <1>15, ArrivesLive DEF HandleReady, ReadyFlagsMeaningful
  <2>4. CASE ~R!MetByRemote(ready[p])
    <3>1. Answer(p, <<>>) /\ ready' = [ready EXCEPT ![p] = R!AfterRemote(ready[p])]
          /\ UNCHANGED <<fate, pc, waiting, state, localOk, remoteOk, localReset, remoteReset,
                         abort, game, met, deaths, picked, seed, peerDelay, fault, hasty>>
      BY <1>15, <2>4 DEF HandleReady
    <3> QED BY <2>1, <2>2, <3>1 DEF TypeOK
  <2>5. CASE R!MetByRemote(ready[p]) /\ ready[p].callback = "toEnd"
    <3> DEFINE channels == [chan EXCEPT ![Peer(p)] = Tail(@)]
    <3>1. ReadyToEnd(p, R!AfterRemote(ready[p]), <<>>, channels)
      BY <1>15, <2>5 DEF HandleReady
    <3>2. channels \in [Party -> Seq(PacketType)]
      BY <1>15 DEF HandleReady, Arrives, Polls, TypeOK
    <3> HIDE DEF channels
    <3> QED BY <1>15, <2>1, <2>5, <3>1, <3>2, Packets, Ends DEF HandleReady, TypeOK
  <2>6. CASE R!MetByRemote(ready[p]) /\ ready[p].callback = "toEnd2"
    BY <1>15, <2>1, <2>2, <2>6 DEF HandleReady, TypeOK, NetState
  <2>7. CASE R!MetByRemote(ready[p]) /\ ready[p].callback = "negotiate"
    <3>1. pc[p] \in Meeting /\ Met(p) /\ Answer(p, <<>>)
          /\ ready' = [ready EXCEPT ![p] = R!AfterRemote(ready[p])] /\ UNCHANGED hasty
      BY <1>15, <2>3, <2>7, Callbacks DEF HandleReady, Live, R!MetByRemote
    <3> QED BY <2>1, <2>2, <3>1, MetTypes DEF Met, TypeOK
  <2>8. R!MetByRemote(ready[p]) => ready[p].callback \in {"toEnd", "toEnd2", "negotiate"}
    BY <2>3, Callbacks DEF R!MetByRemote, Live
  <2> QED BY <2>4, <2>5, <2>6, <2>7, <2>8
<1>16. CASE HandleSelectShip(p)
  <2>1. chan' \in [Party -> Seq(PacketType)]
    BY <1>16, Packets, Answers DEF HandleSelectShip, Arrives, Polls
  <2> QED BY <1>16, <2>1 DEF HandleSelectShip, TypeOK
<1>17. CASE HandleBattleInput(p)
  <2>1. chan' \in [Party -> Seq(PacketType)]
    BY <1>17, Packets, Answers DEF HandleBattleInput, Arrives, Polls
  <2> QED BY <1>17, <2>1 DEF HandleBattleInput, TypeOK
<1>18. CASE HandleFrameCount(p)
  <2>1. chan' \in [Party -> Seq(PacketType)]
    BY <1>18, Packets, Answers DEF HandleFrameCount, Arrives, Polls
  <2>2. ready' \in [Party -> R!Ready]
    BY <1>18, ReadyTypes DEF HandleFrameCount, TypeOK
  <2> QED BY <1>18, <2>1, <2>2 DEF HandleFrameCount, TypeOK, NetState
<1>19. CASE HandleReset(p)
  <2>1. chan' \in [Party -> Seq(PacketType)]
    BY <1>19, Packets, Answers DEF HandleReset, Polls
  <2> QED BY <1>19, <2>1 DEF HandleReset, BackToMenu, TypeOK, Go, Place, NetState
<1>20. CASE DropPacket(p)
  <2>1. chan' \in [Party -> Seq(PacketType)]
    BY <1>20, Packets, Answers DEF DropPacket, Polls
  <2> QED BY <1>20, <2>1 DEF DropPacket, TypeOK
<1>21. CASE RefusePacket(p)
  <2>1. Incoming(p) \in PacketType
    BY <1>21, SMTT(30) DEF RefusePacket, Polls, Incoming, TypeOK
  <2> QED BY <1>21, <2>1 DEF RefusePacket, TypeOK, Go, Place
<1>22. CASE PeerLost(p) \/ Lose(p)
  <2>1. Lose(p)
    BY <1>22 DEF PeerLost
  <2>2. pc' \in [Party -> Place]
    BY <2>1 DEF Lose, TypeOK, Go, Place
  <2> QED BY <2>1, <2>2 DEF Lose, TypeOK
<1> QED BY <1>1, <1>2, <1>3, <1>4, <1>5, <1>6, <1>7, <1>8, <1>9, <1>10, <1>11, <1>12, <1>13,
           <1>14, <1>15, <1>16, <1>17, <1>18, <1>19, <1>20, <1>21, <1>22
        DEF Act, Player, Proceed, Receive

-----------------------------------------------------------------------------
(* Steps of a side that nobody resets.                                     *)

LEMMA KnowsBoth ==
  \A p \in Party :
    TypeOK /\ Active(p) /\ Placed(p) /\ state[p] \notin {"inSetup", "preBattle"}
      => seed[p] = game[p] /\ peerDelay[p] = game[p]
<1> SUFFICES ASSUME NEW p \in Party, TypeOK, Active(p), Placed(p),
                    state[p] \notin {"inSetup", "preBattle"}
             PROVE  seed[p] = game[p] /\ peerDelay[p] = game[p]
  OBVIOUS
<1>1. InMenu(p) /\ InGame(p) /\ Informed(p) /\ pc[p] \in Place
  BY DEF Placed, TypeOK
<1>2. pc[p] \notin {"menu", "confirming", "agree"}
  BY <1>1 DEF InMenu, InGame
<1>3. StageOf(p) \notin {"handshake", "agree"}
  BY <1>1, <1>2 DEF StageOf, Place, Meeting
<1> QED BY <1>1, <1>3 DEF Informed

LEMMA KnowsBothNext ==
  (\A p \in Party :
    TypeOK /\ Active(p) /\ Placed(p) /\ state[p] \notin {"inSetup", "preBattle"}
      => seed[p] = game[p] /\ peerDelay[p] = game[p])'
BY KnowsBoth, PTL

LEMMA Step ==
  ASSUME IInv, TypeOK', NEW p \in Party, NEW q \in Party, q = Peer(p), Same(q),
         Live(p), Live(p)', remoteReset'[p] = remoteReset[p],
         fault'[p] = fault[p], Placed(p)', Flows(p)', Flows(q)',
         NEW s \in Seq(PacketType), NoResetIn(s), chan'[p] = chan[p] \o s, Pops(q)
  PROVE  IInv'
<1>1. fault[p] = "none"
  BY DEF IInv, Faultless, Live, Active
<1>2. state'[p] \notin {"inSetup", "preBattle"} => seed'[p] = game'[p] /\ peerDelay'[p] = game'[p]
  BY KnowsBothNext DEF Live
<1>3. Faultless(p)'
  BY <1>1, <1>2 DEF Faultless, PacketType
<1> QED BY <1>3, LiveStep

(* A side in a game is either not being reset or has handled the RESET.    *)
LEMMA LiveOrDoomed ==
  ASSUME IInv, NEW p \in Party, Active(p)
  PROVE  Live(p) \/ (remoteReset[p] /\ localReset[p] /\ (abort[p] \/ pc[p] = "unchosen"))
BY DEF IInv, Live, Active, Resets

(* One side has the other's first HANDSHAKE0, or finds it: the other has   *)
(* confirmed and waits at the same place.                                  *)
LEMMA PeerConfirms ==
  ASSUME IInv, NEW p \in Party, NEW q \in Party, q = Peer(p), Live(p), Live(q),
         StageOf(p) = "handshake", ~Signaled(p),
         remoteOk[p] \/ (chan[q] # <<>> /\ Head(chan[q]) = "HANDSHAKE0")
  PROVE  At(q) = At(p) /\ localOk[q] /\ At(p) # Following(fate, At(q))
<1>1. Placed(p) /\ Placed(q) /\ Active(p) /\ Active(q) /\ TypeOK /\ fate \in Seq(Party)
  BY DEF IInv, Live, TypeOK
<1>2. At(p) \in Position /\ At(q) \in Position /\ Peer(q) = p
  BY <1>1, AtPosition, PeerFacts
<1>3. PICK o \in Said(q) : FlowOf(q, At(q), o, chan[q])
  BY <1>2, LiveFlow
<1>4. Flow(fate, q, At(q), o, chan[q], At(p), Heard(p), Signaled(p), localOk[p])
  BY <1>2, <1>3 DEF FlowOf
<1>5. ~ready[p].remote /\ Heard(p) = IF remoteOk[p] THEN <<"HANDSHAKE0">> ELSE <<>>
  BY <1>1 DEF Heard, HeardFirst, Placed, ReadyAt
<1>6. Heard(p) \o chan[q] # <<>> /\ (Heard(p) # <<>> \/ chan[q] # <<>>)
      /\ Head(Heard(p) \o chan[q]) = "HANDSHAKE0"
  <2>0. chan[q] \in Seq(PacketType)
    BY <1>1 DEF TypeOK
  <2>1. CASE remoteOk[p]
    <3>1. Heard(p) = <<"HANDSHAKE0">>
      BY <1>5, <2>1
    <3>2. Heard(p) \in Seq(PacketType) /\ Heard(p) # <<>> /\ Head(Heard(p)) = "HANDSHAKE0"
      BY <3>1, Packets
    <3> QED BY <2>0, <3>2, First
  <2>2. CASE ~remoteOk[p]
    BY <1>5, <2>0, <2>2, Join
  <2> QED BY <2>1, <2>2
<1>7. At(q) = At(p) /\ Heard(p) \o chan[q] = o
  BY <1>4, <1>6 DEF Flow
<1>8. StageOf(q) = "handshake"
  BY <1>7 DEF At
<1>9. localOk[q]
  BY <1>6, <1>7, <1>8, <1>3 DEF Said
<1> QED BY <1>1, <1>2, <1>7, <1>9, Ways

LEMMA ConfirmStep ==
  ASSUME IInv, TypeOK', NEW p \in Party, NEW q \in Party, q = Peer(p), Same(q), Confirm(p),
         ~Quit(p)
  PROVE  IInv'
<1>0. TypeOK /\ Placed(p) /\ Resets(p)
  BY DEF IInv
<1>1. /\ pc[p] = "menu" /\ state[p] = "inSetup" /\ ~localOk[p] /\ game[p] < MaxGames
      /\ pc'[p] = "confirming" /\ localOk'[p]
      /\ waiting' = waiting /\ state' = state /\ remoteOk' = remoteOk /\ ready' = ready
      /\ localReset' = localReset /\ remoteReset' = remoteReset /\ abort' = abort /\ met' = met
      /\ fate' = fate /\ game' = game /\ deaths' = deaths /\ picked' = picked /\ seed' = seed
      /\ peerDelay' = peerDelay /\ fault' = fault
  BY <1>0 DEF Confirm, Go, reset, progress, TypeOK
<1>2. ~Quit(p) /\ Active(p)
  BY <1>1 DEF Active
<1>3. Resting(p) /\ ~ready[p].remote
  BY <1>0, <1>1, <1>2 DEF Placed, InMenu, ReadyAt, StageOf
<1>4. Live(p)
  BY <1>0, <1>1, <1>2, <1>3, LiveOrDoomed DEF Resting
<1>5. Live(p)' /\ Resting(p)'
  BY <1>1, <1>2, <1>3, <1>4 DEF Live, Active, Quit, Resting
<1>6. StageOf(p) = "handshake" /\ StageOf(p)' = "handshake" /\ At(p)' = At(p)
  BY <1>1 DEF StageOf, At, Round, Turn
<1>7. Placed(p)'
  <2>1. InMenu(p)' /\ InGame(p)'
    BY <1>1, <1>5 DEF InMenu, InGame
  <2>2. ReadyAt(p)' /\ Informed(p)'
    BY <1>0, <1>1, <1>2, <1>6 DEF Placed, ReadyAt, Informed, Meeting, Round
  <2> QED BY <2>1, <2>2 DEF Placed
<1>8. Heard(p)' = Heard(p) /\ ~Signaled(p) /\ Said(p) = {<<>>}
  BY <1>1, <1>6 DEF Heard, HeardFirst, Signaled, Said, Whole
<1>9. PICK s \in Seq(PacketType) :
        /\ s = IF remoteOk[p] THEN <<"HANDSHAKE1">> ELSE <<"HANDSHAKE0">>
        /\ Send(p, s)
  BY Packets DEF Confirm
<1>10. chan'[p] = chan[p] \o s /\ chan'[q] = chan[q]
  BY <1>0, <1>9, Sends
<1>11. NoResetIn(s)
  BY <1>9, Len(<<"HANDSHAKE1">>) = 1, Len(<<"HANDSHAKE0">>) = 1 DEF NoResetIn
<1>12. Flows(q)'
  BY <1>1, <1>4, <1>6, <1>8, <1>10, InStay
<1>13. Flows(p)'
  <2>1. <<>> \o s \in Said(p)'
    <3>1. <<>> \o s = s
      BY <1>9, Join
    <3> QED BY <1>1, <1>6, <1>9, <3>1 DEF Said
  <2>2. <<>> \notin Confirmed \cup {Whole(fate, p, At(p))}
    BY <1>0, <1>2, AtPosition, Words DEF Confirmed, TypeOK
  <2>3. Live(q) /\ <<>> \o s \in Confirmed => At(p) # Following(fate, At(q)) /\ localOk[q]
    <3>1. remoteOk[p] \/ <<>> \o s = <<"HANDSHAKE0">>
      BY <1>9, Join
    <3> QED BY <3>1, <1>4, <1>6, <1>8, PeerConfirms DEF Confirmed
  <2> QED BY <2>1, <2>2, <2>3, <1>4, <1>5, <1>6, <1>7, <1>8, <1>10, OutStay
<1> QED BY <1>1, <1>3, <1>4, <1>5, <1>7, <1>10, <1>11, <1>12, <1>13, Step DEF Pops, Resting

LEMMA PrepareStep ==
  ASSUME IInv, TypeOK', NEW p \in Party, NEW q \in Party, q = Peer(p), Same(q), Prepare(p)
  PROVE  IInv'
<1>0. TypeOK /\ Placed(p) /\ Resets(p)
  BY DEF IInv
<1>1. /\ pc[p] = "confirming" /\ state[p] = "preBattle" /\ pc'[p] = "agree"
      /\ game'[p] = game[p] + 1 /\ met'[p] = 0 /\ deaths'[p] = 0
      /\ seed'[p] = IF p = Host THEN seed[p] + 1 ELSE seed[p]
      /\ waiting' = waiting /\ state' = state /\ localOk' = localOk /\ remoteOk' = remoteOk
      /\ ready' = ready /\ localReset' = localReset /\ remoteReset' = remoteReset
      /\ abort' = abort /\ fate' = fate /\ picked' = picked /\ peerDelay' = peerDelay
      /\ fault' = fault
  BY <1>0 DEF Prepare, Go, handshake, reset, TypeOK
<1>2. Active(p) /\ ~Quit(p) /\ ~Quit(p)'
  BY <1>1 DEF Active, Quit
<1>3. /\ Resting(p) /\ game[p] < MaxGames /\ ~localOk[p] /\ ~remoteOk[p]
      /\ StageOf(p) = "agree" /\ Round(p) = game[p] + 1
  BY <1>0, <1>1, <1>2 DEF Placed, InMenu, StageOf, Round
<1>4. Live(p) /\ Live(p)'
  <2>1. Live(p)
    BY <1>0, <1>1, <1>2, <1>3, LiveOrDoomed DEF Resting
  <2> QED BY <2>1, <1>1, <1>2 DEF Live, Active
<1>5. StageOf(p)' = "agree" /\ Round(p)' = game[p] + 1 /\ At(p)' = At(p)
  BY <1>1, <1>3 DEF StageOf, Round, At, Turn
<1>6. Placed(p)'
  <2>0. game[p] \in Nat /\ ready[p].local \in BOOLEAN /\ waiting[p] \in BOOLEAN
    BY <1>0, GameAssumption DEF TypeOK, R!Ready
  <2>1. InMenu(p)'
    BY <1>1, <1>3, <2>0 DEF InMenu
  <2>2. InGame(p)'
    BY <1>1 DEF InGame
  <2>3. ReadyAt(p)'
    BY <1>0, <1>1, <1>2, <1>3, <1>5, <2>0 DEF Placed, ReadyAt, Resting, Meeting
  <2>4. Informed(p)'
    BY <1>0, <1>1, <1>2, <1>3, <1>5 DEF Placed, Informed
  <2> QED BY <2>1, <2>2, <2>3, <2>4 DEF Placed
<1>7. Heard(p)' = Heard(p)
  <2>1. HeardFirst(p)' = HeardFirst(p)
    BY <1>1, <1>3, <1>5 DEF HeardFirst
  <2>2. Whole(fate, q, At(p))' = Whole(fate, q, At(p))
    BY <1>1, <1>5 DEF Whole, Chooses
  <2> QED BY <2>1, <2>2, <1>1 DEF Heard
<1>8. Signaled(p)' = Signaled(p)
  BY <1>1, <1>3, <1>5 DEF Signaled
<1>9. Said(p) = {<<>>} /\ Said(p)' = {PreparePackets(p)}
  BY <1>1, <1>3, <1>5 DEF Said, SaidFirst, Resting
<1>10. PreparePackets(p) \in Seq(PacketType) /\ Send(p, PreparePackets(p))
  BY PreparedPackets DEF Prepare
<1>11. chan'[p] = chan[p] \o PreparePackets(p) /\ chan'[q] = chan[q]
  BY <1>0, <1>10, Sends
<1>12. NoResetIn(PreparePackets(p)) /\ PreparePackets(p) \notin Confirmed
  <2>1. CASE p = Host
    <3>1. PreparePackets(p) = <<"INPUTDELAY", "SEEDRANDOM">>
      BY <2>1, PreparedPackets
    <3> QED BY <3>1, Len(<<"INPUTDELAY", "SEEDRANDOM">>) = 2 DEF NoResetIn, Confirmed
  <2>2. CASE p # Host
    <3>1. PreparePackets(p) = <<"INPUTDELAY">>
      BY <2>2, PreparedPackets
    <3> QED BY <3>1, Len(<<"INPUTDELAY">>) = 1 DEF NoResetIn, Confirmed
  <2> QED BY <2>1, <2>2
<1>13. Flows(q)'
  BY <1>1, <1>4, <1>5, <1>7, <1>8, <1>11, InStay
<1>14. Flows(p)'
  <2>1. <<>> \o PreparePackets(p) = PreparePackets(p)
    BY <1>10, Join
  <2>2. <<>> \notin Confirmed \cup {Whole(fate, p, At(p))}
    BY <1>0, <1>2, AtPosition, Words DEF Confirmed, TypeOK
  <2> QED BY <2>1, <2>2, <1>4, <1>5, <1>6, <1>9, <1>10, <1>11, <1>12, OutStay
<1> QED BY <1>1, <1>3, <1>4, <1>6, <1>10, <1>11, <1>12, <1>13, <1>14, Step DEF Pops, Resting

LEMMA Handshake0Step ==
  ASSUME IInv, TypeOK', NEW p \in Party, NEW q \in Party, q = Peer(p), Same(q),
         HandleHandshake0(p)
  PROVE  IInv'
<1>0. TypeOK /\ Placed(p)
  BY DEF IInv
<1>1. /\ Live(p) /\ Active(p) /\ chan[q] # <<>> /\ Head(chan[q]) = "HANDSHAKE0"
  BY ArrivesLive DEF HandleHandshake0, Arrives, Polls, Incoming, Live
<1>2. /\ state[p] = "inSetup" /\ ~remoteOk[p] /\ remoteOk'[p]
      /\ pc' = pc /\ waiting' = waiting /\ state' = state /\ localOk' = localOk
      /\ ready' = ready /\ localReset' = localReset /\ remoteReset' = remoteReset
      /\ abort' = abort /\ met' = met /\ fate' = fate /\ game' = game /\ deaths' = deaths
      /\ picked' = picked /\ seed' = seed /\ peerDelay' = peerDelay /\ fault' = fault
  BY <1>0 DEF HandleHandshake0, reset, progress, TypeOK
<1>3. StageOf(p) = "handshake" /\ ~ready[p].remote /\ "HANDSHAKE0" \in PacketType
  BY <1>1, Hearing DEF PacketType
<1>4. StageOf(p)' = "handshake" /\ At(p)' = At(p) /\ Live(p)'
  BY <1>1, <1>2, <1>3 DEF StageOf, At, Round, Turn, Live, Active, Quit
<1>5. pc[p] \in {"menu", "confirming"}
  BY <1>0, <1>1, <1>2, <1>3 DEF StageOf, Placed, InGame, TypeOK, Place, Meeting
<1>6. Placed(p)'
  <2>1. InMenu(p)'
    BY <1>0, <1>1, <1>2, <1>5 DEF Placed, InMenu, Resting
  <2>2. InGame(p)' /\ ReadyAt(p)' /\ Informed(p)'
    BY <1>0, <1>1, <1>2, <1>3, <1>4, <1>5
       DEF Placed, InGame, ReadyAt, Informed, Meeting, Round
  <2> QED BY <2>1, <2>2 DEF Placed
<1>7. PICK s \in Seq(PacketType) :
        /\ s = IF localOk[p] THEN <<"HANDSHAKE1">> ELSE <<>>
        /\ Answer(p, s)
  BY Packets DEF HandleHandshake0
<1>8. chan'[p] = chan[p] \o s /\ chan'[q] = Tail(chan[q])
  BY <1>0, <1>1, <1>7, Answers
<1>9. NoResetIn(s)
  BY <1>7, Len(<<"HANDSHAKE1">>) = 1, Len(<<>>) = 0 DEF NoResetIn
<1>10. HeardFirst(p) = <<>> /\ Heard(p)' = Append(HeardFirst(p), Head(chan[q]))
  BY <1>1, <1>2, <1>3, <1>4, Tuples DEF Heard, HeardFirst
<1>11. Flows(q)'
  BY <1>1, <1>2, <1>3, <1>4, <1>8, <1>10, InHear DEF Signaled
<1>12. Flows(p)'
  <2>1. CASE localOk[p]
    <3>1. Said(p) = {<<"HANDSHAKE0">>}
      BY <1>2, <1>3, <2>1 DEF Said
    <3>2. s = <<"HANDSHAKE1">> /\ <<"HANDSHAKE0">> \o s = <<"HANDSHAKE0", "HANDSHAKE1">>
          /\ <<"HANDSHAKE0">> \o s \in Said(p)'
      BY <1>2, <1>4, <1>7, <2>1, Tuples DEF Said, PacketType
    <3>3. Whole(fate, p, At(p)) = <<"HANDSHAKE0", "HANDSHAKE1">>
      BY <1>3 DEF Whole, At
    <3>4. <<"HANDSHAKE0">> # <<"HANDSHAKE0", "HANDSHAKE1">>
      BY Len(<<"HANDSHAKE0">>) = 1, Len(<<"HANDSHAKE0", "HANDSHAKE1">>) = 2
    <3>5. <<"HANDSHAKE0">> \notin Confirmed \cup {Whole(fate, p, At(p))}
      BY <3>3, <3>4 DEF Confirmed
    <3>6. Live(q) => At(p) # Following(fate, At(q)) /\ localOk[q]
      BY <1>1, <1>2, <1>3, PeerConfirms DEF Signaled
    <3> QED BY <3>1, <3>2, <3>5, <3>6, <1>1, <1>4, <1>6, <1>8, OutStay
  <2>2. CASE ~localOk[p]
    <3>1. s = <<>> /\ Said(p)' = Said(p)
      BY <1>2, <1>3, <1>4, <1>7, <2>2 DEF Said
    <3> QED BY <3>1, <1>1, <1>4, <1>6, <1>8, OutStay
  <2> QED BY <2>1, <2>2
<1>13. ~abort'[p]
  BY <1>0, <1>1, <1>2, <1>5 DEF Placed, InMenu, Resting
<1> QED BY <1>1, <1>2, <1>4, <1>6, <1>8, <1>9, <1>11, <1>12, <1>13, Step DEF Pops

LEMMA Handshake1Step ==
  ASSUME IInv, TypeOK', NEW p \in Party, NEW q \in Party, q = Peer(p), Same(q),
         HandleHandshake1(p)
  PROVE  IInv'
<1>0. TypeOK /\ Placed(p) /\ fate \in Seq(Party) /\ Peer(q) = p
  BY PeerFacts DEF IInv, TypeOK
<1>1. /\ Live(p) /\ Active(p) /\ chan[q] # <<>> /\ Head(chan[q]) = "HANDSHAKE1"
      /\ "HANDSHAKE1" \in PacketType /\ At(p) \in Position
  BY <1>0, ArrivesLive, AtPosition DEF HandleHandshake1, Arrives, Polls, Incoming, Live, PacketType
<1>2. /\ state[p] = "inSetup" /\ localOk[p] /\ state'[p] = "preBattle"
      /\ ~localOk'[p] /\ ~remoteOk'[p]
      /\ pc' = pc /\ waiting' = waiting
      /\ ready' = ready /\ localReset' = localReset /\ remoteReset' = remoteReset
      /\ abort' = abort /\ met' = met /\ fate' = fate /\ game' = game /\ deaths' = deaths
      /\ picked' = picked /\ seed' = seed /\ peerDelay' = peerDelay /\ fault' = fault
  BY <1>0 DEF HandleHandshake1, reset, progress, TypeOK
<1>3. pc[p] = "confirming" /\ StageOf(p) = "handshake" /\ ~ready[p].remote
      /\ Resting(p) /\ game[p] < MaxGames /\ game[p] \in Nat /\ Round(p) = game[p] + 1
  <2>1. InMenu(p) /\ game[p] \in Nat
    BY <1>0, <1>1, GameAssumption DEF Placed, TypeOK
  <2>2. pc[p] = "confirming"
    BY <1>2, <2>1 DEF InMenu
  <2> QED BY <1>1, <2>1, <2>2, Hearing DEF InMenu, Round
<1>4. StageOf(p)' = "agree" /\ Round(p)' = Round(p) /\ Live(p)' /\ Active(p)'
  BY <1>1, <1>2, <1>3 DEF StageOf, Round, Live, Active, Quit
<1>5. At(p)' = Following(fate, At(p))
  BY <1>2, <1>3, <1>4 DEF At, Turn, Following, NextStage
<1>6. peerDelay[p] = game[p] /\ seed[p] = game[p]
  BY <1>0, <1>1, <1>3 DEF Placed, Informed
<1>7. Placed(p)'
  <2>1. InMenu(p)' /\ InGame(p)'
    BY <1>2, <1>3 DEF InMenu, InGame, Resting
  <2>2. ReadyAt(p)'
    BY <1>0, <1>1, <1>2, <1>3, <1>4 DEF Placed, ReadyAt, Meeting
  <2>3. Informed(p)'
    BY <1>2, <1>3, <1>4, <1>6 DEF Informed
  <2> QED BY <2>1, <2>2, <2>3 DEF Placed
<1>8. Heard(p)' = <<>> /\ Said(p)' = {<<>>}
  <2>1. Heard(p)' = <<>>
    BY <1>2, <1>3, <1>4, <1>6 DEF Heard, HeardFirst
  <2> QED BY <2>1, <1>2, <1>3, <1>4 DEF Said, SaidFirst, Resting
<1>9. PICK s \in Seq(PacketType) :
        /\ s = IF remoteOk[p] THEN <<>> ELSE <<"HANDSHAKE1">>
        /\ Answer(p, s)
  BY Packets DEF HandleHandshake1
<1>10. chan'[p] = chan[p] \o s /\ chan'[q] = Tail(chan[q])
  BY <1>0, <1>1, <1>9, Answers
<1>11. NoResetIn(s)
  BY <1>9, Len(<<"HANDSHAKE1">>) = 1, Len(<<>>) = 0 DEF NoResetIn
<1>12. Flows(q)'
  BY <1>1, <1>5, <1>8, <1>10, InHearArrive
<1>13. ASSUME Live(q)
       PROVE  Flow(fate, p, Following(fate, At(p)), <<>>, (chan[p] \o s) \o <<>>,
                   At(q), Heard(q), Signaled(q), localOk[q])
  <2>0. Placed(q) /\ Active(q)
    BY <1>13 DEF IInv, Live
  <2>1. (At(q) = At(p) /\ Signaled(q)) \/ At(q) = Following(fate, At(p))
    BY <1>1, <1>13, Together
  <2>2. At(q) = At(p) => localOk[q] /\ remoteOk[q]
    <3>1. At(p) # Following(fate, At(p))
      BY <1>0, <1>1, Ways
    <3> QED BY <2>1, <3>1, <1>3 DEF Signaled, At
  <2>3. ASSUME NEW o \in Said(p), FlowOf(p, At(p), o, chan[p])
        PROVE  \/ s = <<>> /\ (o = Whole(fate, p, At(p)) \/ At(q) = Following(fate, At(p)))
               \/ /\ o \notin Confirmed \cup {Whole(fate, p, At(p))}
                  /\ o \o s = Whole(fate, p, At(p))
                  /\ At(q) = At(p) => localOk[q] \/ o \o s \notin Confirmed
    <3>0. Whole(fate, p, At(p)) = <<"HANDSHAKE0", "HANDSHAKE1">>
      BY <1>3 DEF Whole, At
    <3>1. CASE remoteOk[p]
      <4>1. s = <<>> /\ o \in Confirmed
        BY <1>2, <1>3, <1>9, <2>3, <3>1 DEF Said, Confirmed
      <4>2. CASE o = <<"HANDSHAKE1">> /\ At(q) # Following(fate, At(p))
        <5>1. At(q) = At(p) /\ Heard(q) \o chan[p] = <<"HANDSHAKE1">>
          BY <2>1, <2>3, <4>2, <1>0, <1>1, Ways DEF FlowOf, Flow, Confirmed
        <5>2. Heard(q) = <<"HANDSHAKE0">>
          BY <2>0, <2>2, <5>1, <1>3 DEF Heard, HeardFirst, At, Placed, ReadyAt
        <5>3. Head(Heard(q) \o chan[p]) = "HANDSHAKE0" /\ Head(<<"HANDSHAKE1">>) = "HANDSHAKE1"
          <6>1. Heard(q) \in Seq(PacketType) /\ Heard(q) # <<>> /\ Head(Heard(q)) = "HANDSHAKE0"
                /\ chan[p] \in Seq(PacketType)
            BY <5>2, <1>0, Packets DEF TypeOK
          <6> QED BY <6>1, First
        <5> QED BY <5>1, <5>3
      <4> QED BY <4>1, <4>2, <3>0 DEF Confirmed
    <3>2. CASE ~remoteOk[p]
      <4>1. s = <<"HANDSHAKE1">> /\ o = <<"HANDSHAKE0">>
        BY <1>2, <1>3, <1>9, <2>3, <3>2 DEF Said
      <4>2. o \o s = <<"HANDSHAKE0", "HANDSHAKE1">>
        BY <4>1, Tuples DEF PacketType
      <4>3. <<"HANDSHAKE0">> # <<"HANDSHAKE0", "HANDSHAKE1">>
        BY Len(<<"HANDSHAKE0">>) = 1, Len(<<"HANDSHAKE0", "HANDSHAKE1">>) = 2
      <4> QED BY <4>1, <4>2, <4>3, <3>0, <2>2 DEF Confirmed
    <3> QED BY <3>1, <3>2
  <2>4. <<>> \notin Confirmed
    BY DEF Confirmed
  <2> QED BY <2>1, <2>3, <2>4, <1>1, <1>13, Packets, Leaving
<1>14. Flows(p)'
  <2>1. chan[p] \o s \in Seq(PacketType)
    BY <1>0 DEF TypeOK
  <2>2. chan'[p] = (chan[p] \o s) \o <<>>
    BY <1>10, <2>1, Join
  <2> QED BY <2>2, <1>4, <1>5, <1>7, <1>8, <1>13, OutLeave
<1> QED BY <1>1, <1>2, <1>3, <1>4, <1>7, <1>10, <1>11, <1>12, <1>14, Step DEF Pops, Resting

(* The side hears a packet, says nothing and stays where it is.            *)
LEMMA HearStep ==
  ASSUME IInv, TypeOK', NEW p \in Party, NEW q \in Party, q = Peer(p), Same(q),
         Live(p), Live(p)', remoteReset'[p] = remoteReset[p], abort' = abort,
         game'[p] = game[p], fault'[p] = fault[p], Placed(p)', chan[q] # <<>>,
         Head(chan[q]) \notin {"BATTLEINPUT", "RESET"}, Answer(p, <<>>),
         At(p)' = At(p), Said(p)' = Said(p), Heard(p)' = Append(HeardFirst(p), Head(chan[q])),
         Signaled(p) => Signaled(p)', localOk[p] => localOk'[p]
  PROVE  IInv'
<1>1. chan'[p] = chan[p] \o <<>> /\ chan'[q] = Tail(chan[q])
  BY Packets, Answers DEF IInv
<1>2. NoResetIn(<<>>) /\ <<>> \in Seq(PacketType)
  BY Packets DEF NoResetIn
<1>3. Flows(q)'
  BY <1>1, InHear
<1>4. Flows(p)'
  BY <1>1, <1>2, OutStay
<1> QED BY <1>1, <1>2, <1>3, <1>4, Step DEF Pops

LEMMA InputDelayStep ==
  ASSUME IInv, TypeOK', NEW p \in Party, NEW q \in Party, q = Peer(p), Same(q),
         HandleInputDelay(p)
  PROVE  IInv'
<1>0. TypeOK /\ Placed(p)
  BY DEF IInv
<1>1. /\ Live(p) /\ Active(p) /\ chan[q] # <<>> /\ Head(chan[q]) = "INPUTDELAY"
      /\ "INPUTDELAY" \in PacketType
  BY <1>0, ArrivesLive DEF HandleInputDelay, Arrives, Polls, Incoming, Live, PacketType
<1>2. /\ peerDelay'[p] = peerDelay[p] + 1 /\ Answer(p, <<>>)
      /\ pc' = pc /\ waiting' = waiting /\ state' = state /\ localOk' = localOk
      /\ remoteOk' = remoteOk /\ ready' = ready /\ localReset' = localReset
      /\ remoteReset' = remoteReset /\ abort' = abort /\ met' = met /\ fate' = fate
      /\ game' = game /\ deaths' = deaths /\ picked' = picked /\ seed' = seed /\ fault' = fault
  BY <1>0 DEF HandleInputDelay, handshake, reset, TypeOK
<1>3. StageOf(p) = "agree" /\ ~ready[p].remote /\ HeardFirst(p) = <<>>
  BY <1>1, Hearing
<1>4. StageOf(p)' = "agree" /\ Round(p)' = Round(p) /\ At(p)' = At(p) /\ Live(p)'
  BY <1>1, <1>2, <1>3 DEF StageOf, Round, At, Turn, Live, Active, Quit
<1>5. Round(p) \in Nat /\ peerDelay[p] = Round(p) - 1
  <2>1. peerDelay[p] # Round(p)
    BY <1>3, Len(<<"INPUTDELAY", "SEEDRANDOM">>) = 2, Len(<<"INPUTDELAY">>) = 1 DEF HeardFirst
  <2>2. Round(p) \in Nat
    BY <1>0, <1>1, <1>3, Rounds, GameAssumption
  <2> QED BY <1>0, <1>1, <1>3, <2>1, <2>2 DEF Placed, Informed
<1>6. peerDelay'[p] = Round(p) /\ seed[p] = seed'[p]
  BY <1>2, <1>5
<1>7. p # Host => seed[p] # Round(p)
  BY <1>0, <1>1, <1>3, <1>5 DEF Placed, Informed
<1>8. Placed(p)'
  <2>1. InMenu(p)' /\ InGame(p)' /\ ReadyAt(p)'
    BY <1>0, <1>1, <1>2, <1>3, <1>4
       DEF Placed, InMenu, Resting, InGame, ReadyAt, Selecting
  <2>2. Informed(p)'
    BY <1>0, <1>1, <1>2, <1>3, <1>4, <1>6 DEF Placed, Informed
  <2> QED BY <2>1, <2>2 DEF Placed
<1>9. Heard(p)' = <<"INPUTDELAY">>
  BY <1>2, <1>3, <1>4, <1>6, <1>7 DEF Heard, HeardFirst
<1>10. Heard(p)' = Append(HeardFirst(p), Head(chan[q]))
  BY <1>1, <1>3, <1>9, Tuples
<1>11. Said(p)' = Said(p) /\ Signaled(p)' = Signaled(p)
  BY <1>2, <1>3, <1>4 DEF Said, SaidFirst, Signaled
<1> QED BY <1>1, <1>2, <1>4, <1>8, <1>10, <1>11, HearStep

LEMMA SeedRandomStep ==
  ASSUME IInv, TypeOK', NEW p \in Party, NEW q \in Party, q = Peer(p), Same(q),
         HandleSeedRandom(p)
  PROVE  IInv'
<1>0. TypeOK /\ Placed(p)
  BY DEF IInv
<1>1. /\ Live(p) /\ Active(p) /\ chan[q] # <<>> /\ Head(chan[q]) = "SEEDRANDOM"
      /\ "SEEDRANDOM" \in PacketType /\ p # Host
  BY <1>0, ArrivesLive DEF HandleSeedRandom, Arrives, Polls, Incoming, Live, PacketType
<1>2. /\ seed'[p] = seed[p] + 1 /\ Answer(p, <<>>)
      /\ pc' = pc /\ waiting' = waiting /\ state' = state /\ localOk' = localOk
      /\ remoteOk' = remoteOk /\ ready' = ready /\ localReset' = localReset
      /\ remoteReset' = remoteReset /\ abort' = abort /\ met' = met /\ fate' = fate
      /\ game' = game /\ deaths' = deaths /\ picked' = picked /\ peerDelay' = peerDelay
      /\ fault' = fault
  BY <1>0 DEF HandleSeedRandom, handshake, reset, TypeOK
<1>3. StageOf(p) = "agree" /\ ~ready[p].remote /\ HeardFirst(p) = <<"INPUTDELAY">>
  BY <1>1, Hearing
<1>4. StageOf(p)' = "agree" /\ Round(p)' = Round(p) /\ At(p)' = At(p) /\ Live(p)'
  BY <1>1, <1>2, <1>3 DEF StageOf, Round, At, Turn, Live, Active, Quit
<1>5. Round(p) \in Nat /\ peerDelay[p] = Round(p) /\ seed[p] = Round(p) - 1
  <2>1. peerDelay[p] = Round(p) /\ seed[p] # Round(p)
    BY <1>1, <1>3, Len(<<"INPUTDELAY", "SEEDRANDOM">>) = 2, Len(<<"INPUTDELAY">>) = 1
       DEF HeardFirst
  <2>2. Round(p) \in Nat
    BY <1>0, <1>1, <1>3, Rounds, GameAssumption
  <2> QED BY <1>0, <1>1, <1>3, <2>1, <2>2 DEF Placed, Informed
<1>6. seed'[p] = Round(p) /\ peerDelay'[p] = Round(p)
  BY <1>2, <1>5
<1>8. Placed(p)'
  <2>1. InMenu(p)' /\ InGame(p)' /\ ReadyAt(p)'
    BY <1>0, <1>1, <1>2, <1>3, <1>4
       DEF Placed, InMenu, Resting, InGame, ReadyAt, Selecting
  <2>2. Informed(p)'
    BY <1>1, <1>4, <1>6 DEF Informed
  <2> QED BY <2>1, <2>2 DEF Placed
<1>9. Heard(p)' = <<"INPUTDELAY", "SEEDRANDOM">>
  BY <1>1, <1>2, <1>3, <1>4, <1>6 DEF Heard, HeardFirst
<1>10. Heard(p)' = Append(HeardFirst(p), Head(chan[q]))
  <2>1. Append(<<"INPUTDELAY">>, "SEEDRANDOM") = <<"INPUTDELAY", "SEEDRANDOM">>
    <3>1. "INPUTDELAY" \in PacketType /\ "SEEDRANDOM" \in PacketType
      BY DEF PacketType
    <3> QED BY <3>1, Tuples
  <2> QED BY <1>1, <1>3, <1>9, <2>1
<1>11. Said(p)' = Said(p) /\ Signaled(p)' = Signaled(p)
  BY <1>2, <1>3, <1>4 DEF Said, SaidFirst, Signaled
<1> QED BY <1>1, <1>2, <1>4, <1>8, <1>10, <1>11, HearStep

LEMMA SelectShipStep ==
  ASSUME IInv, TypeOK', NEW p \in Party, NEW q \in Party, q = Peer(p), Same(q),
         HandleSelectShip(p)
  PROVE  IInv'
<1>0. TypeOK /\ Placed(p) /\ p # q
  BY PeerFacts DEF IInv
<1>1. /\ Live(p) /\ Active(p) /\ chan[q] # <<>> /\ Head(chan[q]) = "SELECTSHIP"
      /\ "SELECTSHIP" \in PacketType
  BY <1>0, ArrivesLive DEF HandleSelectShip, Arrives, Polls, Incoming, Live, PacketType
<1>2. /\ picked'[p] = picked[p] \cup {q} /\ Answer(p, <<>>)
      /\ pc' = pc /\ waiting' = waiting /\ state' = state /\ localOk' = localOk
      /\ remoteOk' = remoteOk /\ ready' = ready /\ localReset' = localReset
      /\ remoteReset' = remoteReset /\ abort' = abort /\ met' = met /\ fate' = fate
      /\ game' = game /\ deaths' = deaths /\ seed' = seed /\ peerDelay' = peerDelay
      /\ fault' = fault
  BY <1>0 DEF HandleSelectShip, handshake, reset, TypeOK
<1>3. StageOf(p) = "chosen" /\ ~ready[p].remote /\ q \in Selecting(p) \ picked[p]
  BY <1>1, Hearing
<1>4. /\ StageOf(p)' = "chosen" /\ Round(p)' = Round(p) /\ At(p)' = At(p) /\ Live(p)'
      /\ Selecting(p)' = Selecting(p)
  BY <1>1, <1>2, <1>3 DEF StageOf, Round, At, Turn, Live, Active, Quit, Selecting
<1>5. pc[p] \in {"picking", "chosen", "unchosen"}
  BY <1>0, <1>3 DEF StageOf
<1>8. Placed(p)'
  <2>1. InMenu(p)' /\ ReadyAt(p)'
    BY <1>0, <1>1, <1>2, <1>3, <1>4 DEF Placed, InMenu, Resting, ReadyAt
  <2>2. InGame(p)'
    BY <1>0, <1>1, <1>2, <1>3, <1>4, <1>5 DEF Placed, InGame
  <2>3. Informed(p)'
    BY <1>0, <1>1, <1>2, <1>3, <1>4 DEF Placed, Informed
  <2> QED BY <2>1, <2>2, <2>3 DEF Placed
<1>9. Heard(p)' = <<"SELECTSHIP">> /\ HeardFirst(p) = <<>>
  BY <1>2, <1>3, <1>4 DEF Heard, HeardFirst
<1>10. Heard(p)' = Append(HeardFirst(p), Head(chan[q]))
  BY <1>1, <1>9, Tuples
<1>11. Said(p)' = Said(p) /\ Signaled(p)' = Signaled(p)
  <2>1. p \in picked'[p] <=> p \in picked[p]
    BY <1>0, <1>2
  <2>2. Whole(fate, p, At(p))' = Whole(fate, p, At(p)) /\ SaidFirst(p)' = SaidFirst(p)
    BY <1>2, <1>3, <1>4, <2>1 DEF Whole, Chooses, SaidFirst
  <2> QED BY <2>2, <1>2, <1>3, <1>4 DEF Said, Signaled
<1> QED BY <1>1, <1>2, <1>4, <1>8, <1>10, <1>11, HearStep

-----------------------------------------------------------------------------
(* Steps of a side that has handled its peer's RESET and is still on its   *)
(* way out of the game.                                                    *)

LEMMA JoinThree ==
  ASSUME NEW a \in Seq(PacketType), NEW b \in Seq(PacketType), NEW c \in Seq(PacketType)
  PROVE  (a \o b) \o c = a \o (b \o c)
<1> DEFINE S == PacketType
<1>1. a \in Seq(S) /\ b \in Seq(S) /\ c \in Seq(S)
  OBVIOUS
<1> HIDE DEF S
<1> QED BY <1>1, Join

LEMMA LateMore ==
  ASSUME NEW q \in Party, NEW a \in Seq(PacketType), NEW s \in Seq(PacketType), Late(a, q),
         NoResetIn(s), s # <<>> => Head(s) \in {"BATTLEINPUT", "READY"},
         ~remoteReset[q], Asked(q)
  PROVE  Late(a \o s, q)
<1>1. NoResetIn(a \o s)
  BY NoResetJoin DEF Late
<1>2. CASE a = <<>>
  <2>1. a \o s = s
    BY <1>2, Join
  <2> QED BY <1>1, <2>1 DEF Late
<1>3. CASE a # <<>>
  <2>1. Head(a \o s) = Head(a)
    BY <1>3, First
  <2> QED BY <1>1, <1>3, <2>1 DEF Late
<1> QED BY <1>2, <1>3

LEMMA DoomedStep ==
  ASSUME IInv, TypeOK', NEW p \in Party, NEW q \in Party, q = Peer(p), Same(q),
         Active(p), remoteReset[p], remoteReset'[p], localReset'[p],
         game'[p] = game[p], met'[p] = met[p], fault'[p] = fault[p], Placed(p)',
         \/ /\ Active(p)' /\ (abort'[p] \/ pc'[p] = "unchosen")
            /\ ready'[p].remote => StageOf(p)' = "toEnd"
         \/ pc'[p] = "resetting" /\ state'[p] # "inSetup" /\ seed'[p] = game'[p]
            /\ peerDelay'[p] = game'[p],
         NEW s \in Seq(PacketType), NoResetIn(s),
         s # <<>> => Head(s) \in {"BATTLEINPUT", "READY"},
         chan'[p] = chan[p] \o s, chan'[q] = chan[q]
  PROVE  IInv'
<1>1. Peer(q) = p /\ Resets(p) /\ Resets(q) /\ Outgoing(p) /\ Outgoing(q) /\ TypeOK
  BY PeerFacts DEF IInv
<1>2. /\ Asked(p) /\ Told(p) /\ localReset[p] /\ MidGame(p) /\ Asked(q) /\ ~remoteReset[q]
      /\ Stopped(p) /\ ~Live(q)
  BY <1>1 DEF Resets, Asked, Told, Stopped, Live, Active
<1>3. Asked(p)' /\ Told(p)' /\ ~Quit(p)' /\ ~Live(p)' /\ MidGame(p)' /\ Stopped(p)'
      /\ ~remoteReset'[q]
  BY <1>2 DEF Asked, Told, Active, Quit, Live, MidGame, Stopped, Same
<1>4. Same(q) => Asked(q)' = Asked(q) /\ Told(q)' = Told(q) /\ Live(q)' = Live(q)
                 /\ Stopped(q)' = Stopped(q)
  BY SameMeans
<1>5. Flows(p)' /\ Flows(q)'
  BY <1>1, <1>2, <1>3, <1>4 DEF Flows
<1>6. Faultless(p)'
  <2>1. fault[p] = "none"
    BY DEF IInv, Faultless, Active
  <2>2. state'[p] \notin {"inSetup", "preBattle"} =>
          seed'[p] = game'[p] /\ peerDelay'[p] = game'[p]
    BY KnowsBothNext
  <2> QED BY <2>1, <2>2 DEF Faultless, PacketType
<1>7. Resets(p)'
  <2>1. Stopped(p)' /\ Stopped(q)' => met'[p] = met'[q] /\ game'[p] = game'[q]
    BY <1>1, <1>2, <1>4 DEF Resets, Same
  <2>2. Told(p)' => Asked(q)'
    BY <1>2, <1>4
  <2>3. pc'[p] # "resetWait" /\ (pc'[p] = "resetting" => state'[p] # "inSetup")
    BY DEF Active
  <2>5. remoteReset'[p] /\ Active(p)' =>
          (abort'[p] \/ pc'[p] = "unchosen") /\ (ready'[p].remote => StageOf(p)' = "toEnd")
    BY DEF Active
  <2> QED BY <1>1, <1>3, <2>1, <2>2, <2>3, <2>5 DEF Resets
<1>8. Resets(q)'
  BY <1>1, <1>2, <1>3, ResetsOther DEF Resets
<1>9. Outgoing(q)'
  BY <1>1, <1>2, <1>3, OutgoingPops DEF Pops
<1>10. Outgoing(p)'
  <2>1. chan[p] \in Seq(PacketType)
    BY <1>1 DEF TypeOK
  <2>2. CASE Told(q)
    <3>1. Late(chan[p], q)
      BY <1>1, <1>2, <2>2 DEF Outgoing
    <3>2. Late(chan[p] \o s, q)
      BY <1>2, <2>1, <3>1, LateMore
    <3>3. Late(chan[p], q)'
      BY <1>2, <1>4, <3>2 DEF Late, NoResetIn, Same
    <3> QED BY <1>1, <1>3, <1>4, <2>2, <3>3 DEF Outgoing
  <2>3. CASE ~Told(q)
    <3>1. PICK before \in Seq(PacketType), after \in Seq(PacketType) :
             /\ chan[p] = before \o <<"RESET">> \o after
             /\ NoResetIn(before) /\ Late(after, q)
      BY <1>1, <1>2, <2>3 DEF Outgoing
    <3>2. Late(after \o s, q)
      BY <1>2, <3>1, LateMore
    <3>3. after \o s \in Seq(PacketType)
      BY <3>1
    <3>4. chan'[p] = before \o <<"RESET">> \o (after \o s)
      <4>1. before \o <<"RESET">> \in Seq(PacketType)
        BY Packets
      <4>3. ((before \o <<"RESET">>) \o after) \o s = (before \o <<"RESET">>) \o (after \o s)
        BY <4>1, JoinThree
      <4> QED BY <3>1, <4>3
    <3>5. Late(after \o s, q)'
      BY <1>2, <1>4, <3>2 DEF Late, NoResetIn, Same
    <3> QED BY <1>1, <1>3, <1>4, <2>3, <3>1, <3>3, <3>4, <3>5 DEF Outgoing
  <2> QED BY <2>2, <2>3
<1>11. Placed(q)' /\ Faultless(q)'
  BY SamePlaced, SameMeans DEF IInv
<1>12. Len(fate') >= 1
  BY DEF IInv, Same
<1> QED BY <1>5, <1>6, <1>7, <1>8, <1>9, <1>10, <1>11, <1>12, PeerFacts DEF IInv

(* The side stays where it is and says nothing.                            *)
LEMMA StayStep ==
  ASSUME IInv, TypeOK', NEW p \in Party, NEW q \in Party, q = Peer(p), Same(q),
         Active(p), Active(p)', localReset'[p] = localReset[p], remoteReset'[p] = remoteReset[p],
         (abort'[p] = abort[p] /\ pc[p] # "unchosen") \/ pc'[p] = "unchosen",
         game'[p] = game[p], met'[p] = met[p], fault'[p] = fault[p],
         Placed(p)', chan' = chan, ready'[p] = ready[p],
         At(p)' = At(p), Said(p)' = Said(p), Heard(p)' = Heard(p),
         Signaled(p)' = Signaled(p), localOk'[p] = localOk[p]
  PROVE  IInv'
<1>1. chan'[p] = chan[p] \o <<>> /\ chan'[q] = chan[q] /\ <<>> \in Seq(PacketType)
      /\ NoResetIn(<<>>)
  BY Packets, Join DEF IInv, TypeOK, NoResetIn
<1>2. Resets(p)
  BY DEF IInv
<1>3. CASE Live(p)
  <2>1. Live(p)'
    BY <1>3 DEF Live
  <2>2. Flows(q)'
    BY <1>1, <1>3, InStay
  <2>3. Flows(p)'
    BY <1>1, <1>3, <2>1, OutStay
  <2> QED BY <1>1, <1>3, <2>1, <2>2, <2>3, Step DEF Pops
<1>4. CASE remoteReset[p] /\ localReset[p] /\ (abort[p] \/ pc[p] = "unchosen")
  <2>1. StageOf(p)' = StageOf(p)
    BY DEF At
  <2>2. ready[p].remote => StageOf(p) = "toEnd"
    BY <1>2, <1>4 DEF Resets
  <2> QED BY <1>1, <1>4, <2>1, <2>2, DoomedStep
<1> QED BY <1>3, <1>4, LiveOrDoomed

-----------------------------------------------------------------------------
(* Steps of the program in a game.                                         *)

LEMMA InGameActive ==
  ASSUME IInv, NEW p \in Party, pc[p] \notin {"menu", "resetting", "resetWait", "left"}
  PROVE  Active(p) /\ Placed(p) /\ TypeOK
BY DEF IInv, Resets, Active

LEMMA PickedStep ==
  ASSUME IInv, TypeOK', NEW p \in Party, NEW q \in Party, q = Peer(p), Same(q), Picked(p)
  PROVE  IInv'
<1>1. /\ pc[p] = "picking" /\ pc'[p] = "chosen" /\ Selecting(p) \subseteq picked[p]
      /\ waiting' = waiting /\ state' = state /\ localOk' = localOk
      /\ remoteOk' = remoteOk /\ ready' = ready /\ localReset' = localReset
      /\ remoteReset' = remoteReset /\ abort' = abort /\ met' = met /\ fate' = fate
      /\ game' = game /\ deaths' = deaths /\ picked' = picked /\ seed' = seed
      /\ peerDelay' = peerDelay /\ fault' = fault /\ chan' = chan
  BY DEF IInv, TypeOK, Picked, Go, handshake, reset, progress
<1>2. Active(p) /\ Placed(p) /\ TypeOK
  BY <1>1, InGameActive
<1>3. Active(p)' /\ StageOf(p) = "chosen" /\ StageOf(p)' = "chosen" /\ At(p)' = At(p)
  BY <1>1, <1>2 DEF Active, Quit, StageOf, At, Round, Turn
<1>4. Placed(p)'
  <2>1. InMenu(p)' /\ InGame(p)'
    BY <1>1, <1>2 DEF Placed, InMenu, InGame, Selecting
  <2>2. ready[p].local = waiting[p]
    BY <1>1, <1>2 DEF Placed, ReadyAt, Meeting, TypeOK, R!Ready
  <2>3. ReadyAt(p)' /\ Informed(p)'
    BY <1>1, <1>2, <1>3, <2>2 DEF Placed, ReadyAt, Informed, Meeting, Round
  <2> QED BY <2>1, <2>3 DEF Placed
<1>5. Said(p)' = Said(p) /\ Heard(p)' = Heard(p) /\ Signaled(p)' = Signaled(p)
  BY <1>1, <1>3 DEF Said, SaidFirst, Heard, HeardFirst, Signaled, Whole, Chooses
<1> QED BY <1>1, <1>2, <1>3, <1>4, <1>5, StayStep

LEMMA PickForgottenStep ==
  ASSUME IInv, TypeOK', NEW p \in Party, NEW q \in Party, q = Peer(p), Same(q), PickForgotten(p)
  PROVE  IInv'
<1>1. /\ pc[p] = "picking" /\ pc'[p] = "unchosen" /\ Selecting(p) \subseteq picked[p]
      /\ waiting' = waiting /\ state' = state /\ localOk' = localOk
      /\ remoteOk' = remoteOk /\ ready' = ready /\ localReset' = localReset
      /\ remoteReset' = remoteReset /\ met' = met /\ fate' = fate
      /\ game' = game /\ deaths' = deaths /\ picked' = picked /\ seed' = seed
      /\ peerDelay' = peerDelay /\ fault' = fault /\ chan' = chan
  BY DEF IInv, TypeOK, PickForgotten, Go, handshake, reset, progress
<1>2. Active(p) /\ Placed(p) /\ TypeOK
  BY <1>1, InGameActive
<1>3. Active(p)' /\ StageOf(p) = "chosen" /\ StageOf(p)' = "chosen" /\ At(p)' = At(p)
  BY <1>1, <1>2 DEF Active, Quit, StageOf, At, Round, Turn
<1>4. Placed(p)'
  <2>1. InMenu(p)' /\ InGame(p)'
    BY <1>1, <1>2 DEF Placed, InMenu, InGame, Selecting
  <2>2. ready[p].local = waiting[p]
    BY <1>1, <1>2 DEF Placed, ReadyAt, Meeting, TypeOK, R!Ready
  <2>3. ReadyAt(p)' /\ Informed(p)'
    BY <1>1, <1>2, <1>3, <2>2 DEF Placed, ReadyAt, Informed, Meeting, Round
  <2> QED BY <2>1, <2>3 DEF Placed
<1>5. Said(p)' = Said(p) /\ Heard(p)' = Heard(p) /\ Signaled(p)' = Signaled(p)
  BY <1>1, <1>3 DEF Said, SaidFirst, Heard, HeardFirst, Signaled, Whole, Chooses
<1> QED BY <1>1, <1>2, <1>3, <1>4, <1>5, StayStep

LEMMA ShipDiesStep ==
  ASSUME IInv, TypeOK', NEW p \in Party, NEW q \in Party, q = Peer(p), Same(q), ShipDies(p)
  PROVE  IInv'
<1>1. /\ pc[p] = "battle" /\ pc'[p] = "dying" /\ deaths'[p] = deaths[p] + 1
      /\ waiting' = waiting /\ state' = state /\ localOk' = localOk
      /\ remoteOk' = remoteOk /\ ready' = ready /\ localReset' = localReset
      /\ remoteReset' = remoteReset /\ abort' = abort /\ met' = met /\ fate' = fate
      /\ game' = game /\ picked' = picked /\ seed' = seed
      /\ peerDelay' = peerDelay /\ fault' = fault /\ chan' = chan
  BY DEF IInv, TypeOK, ShipDies, Go, handshake, reset
<1>2. Active(p) /\ Placed(p) /\ TypeOK
  BY <1>1, InGameActive
<1>3. state[p] = "inBattle" /\ met[p] = 5 * deaths[p] + 4 /\ deaths[p] \in Nat
  BY <1>1, <1>2 DEF Placed, InGame, TypeOK
<1>4. Active(p)' /\ StageOf(p) = "toEnd" /\ StageOf(p)' = "toEnd" /\ Round(p)' = Round(p)
  BY <1>1, <1>2, <1>3 DEF Active, Quit, StageOf, Round
<1>5. At(p)' = At(p)
  <2>1. Turn(p) = deaths[p] /\ Turn(p)' = deaths'[p] - 1
    BY <1>1, <1>4 DEF Turn
  <2> QED BY <1>1, <1>3, <1>4, <2>1 DEF At
<1>6. Placed(p)'
  <2>1. InMenu(p)'
    BY <1>1, <1>2 DEF Placed, InMenu
  <2>2. InGame(p)'
    BY <1>1, <1>3 DEF InGame
  <2>3. ReadyAt(p)' /\ Informed(p)'
    BY <1>1, <1>2, <1>3, <1>4 DEF Placed, ReadyAt, Informed, Meeting
  <2> QED BY <2>1, <2>2, <2>3 DEF Placed
<1>7. Said(p)' = Said(p) /\ Heard(p)' = Heard(p) /\ Signaled(p)' = Signaled(p)
  BY <1>1, <1>4, <1>5 DEF Said, SaidFirst, Heard, HeardFirst, Signaled, Whole
<1> QED BY <1>1, <1>2, <1>4, <1>5, <1>6, <1>7, StayStep

LEMMA AwaitFrameCountStep ==
  ASSUME IInv, TypeOK', NEW p \in Party, NEW q \in Party, q = Peer(p), Same(q),
         AwaitFrameCount(p)
  PROVE  IInv'
<1>1. /\ pc[p] = "dying" /\ pc'[p] = "waitReady" /\ state[p] = "endingBattle"
      /\ waiting' = waiting /\ state' = state /\ localOk' = localOk
      /\ remoteOk' = remoteOk /\ ready' = ready /\ localReset' = localReset
      /\ remoteReset' = remoteReset /\ abort' = abort /\ met' = met /\ fate' = fate
      /\ game' = game /\ deaths' = deaths /\ picked' = picked /\ seed' = seed
      /\ peerDelay' = peerDelay /\ fault' = fault /\ chan' = chan
  BY DEF IInv, TypeOK, AwaitFrameCount, Go, handshake, reset, progress
<1>2. Active(p) /\ Placed(p) /\ TypeOK
  BY <1>1, InGameActive
<1>3. Active(p)' /\ StageOf(p) = "toEnd2" /\ StageOf(p)' = "toEnd2" /\ At(p)' = At(p)
  BY <1>1, <1>2 DEF Active, Quit, StageOf, At, Round, Turn
<1>4. Placed(p)'
  <2>1. InMenu(p)' /\ InGame(p)'
    BY <1>1, <1>2 DEF Placed, InMenu, InGame
  <2>2. ReadyAt(p)' /\ Informed(p)'
    BY <1>1, <1>2, <1>3 DEF Placed, ReadyAt, Informed, Meeting, Round
  <2> QED BY <2>1, <2>2 DEF Placed
<1>5. Said(p)' = Said(p) /\ Heard(p)' = Heard(p) /\ Signaled(p)' = Signaled(p)
  BY <1>1, <1>3 DEF Said, SaidFirst, Heard, HeardFirst, Signaled, Whole
<1> QED BY <1>1, <1>2, <1>3, <1>4, <1>5, StayStep

LEMMA EndReachedStep ==
  ASSUME IInv, TypeOK', NEW p \in Party, NEW q \in Party, q = Peer(p), Same(q), EndReached(p)
  PROVE  IInv'
<1>1. /\ pc[p] \in {"dying", "waitReady"} /\ pc'[p] = "ended" /\ state[p] = "endingBattle2"
      /\ waiting' = waiting /\ state' = state /\ localOk' = localOk
      /\ remoteOk' = remoteOk /\ ready' = ready /\ localReset' = localReset
      /\ remoteReset' = remoteReset /\ abort' = abort /\ met' = met /\ fate' = fate
      /\ game' = game /\ deaths' = deaths /\ picked' = picked /\ seed' = seed
      /\ peerDelay' = peerDelay /\ fault' = fault /\ chan' = chan
  BY DEF IInv, TypeOK, EndReached, Go, handshake, reset, progress
<1>2. Active(p) /\ Placed(p) /\ TypeOK
  BY <1>1, InGameActive
<1>3. Active(p)' /\ StageOf(p) = "ended" /\ StageOf(p)' = "ended" /\ At(p)' = At(p)
  BY <1>1, <1>2 DEF Active, Quit, StageOf, At, Round, Turn
<1>4. Placed(p)'
  <2>1. InMenu(p)' /\ InGame(p)'
    BY <1>1, <1>2 DEF Placed, InMenu, InGame
  <2>2. ready[p].local = waiting[p]
    BY <1>1, <1>2 DEF Placed, ReadyAt, Meeting, TypeOK, R!Ready
  <2>3. ReadyAt(p)' /\ Informed(p)'
    BY <1>1, <1>2, <1>3, <2>2 DEF Placed, ReadyAt, Informed, Meeting, Round
  <2> QED BY <2>1, <2>3 DEF Placed
<1>5. Said(p)' = Said(p) /\ Heard(p)' = Heard(p) /\ Signaled(p)' = Signaled(p)
  BY <1>1, <1>3 DEF Said, SaidFirst, Heard, HeardFirst, Signaled, Whole
<1> QED BY <1>1, <1>2, <1>3, <1>4, <1>5, StayStep

LEMMA PickStep ==
  ASSUME IInv, TypeOK', NEW p \in Party, NEW q \in Party, q = Peer(p), Same(q), Pick(p)
  PROVE  IInv'
<1>1. /\ pc[p] = "picking" /\ ~abort[p] /\ p \in Selecting(p) \ picked[p]
      /\ picked'[p] = picked[p] \cup {p} /\ Send(p, <<"SELECTSHIP">>)
      /\ pc'[p] = "picking" \/ (pc'[p] = "chosen" /\ Selecting(p) \subseteq picked'[p])
      /\ waiting' = waiting /\ state' = state /\ localOk' = localOk
      /\ remoteOk' = remoteOk /\ ready' = ready /\ localReset' = localReset
      /\ remoteReset' = remoteReset /\ abort' = abort /\ met' = met /\ fate' = fate
      /\ game' = game /\ deaths' = deaths /\ seed' = seed
      /\ peerDelay' = peerDelay /\ fault' = fault
  <2>1. picked'[p] = picked[p] \cup {p}
    BY DEF IInv, TypeOK, Pick
  <2>2. CASE Selecting(p) \subseteq picked[p] \cup {p}
    BY <2>1, <2>2 DEF IInv, TypeOK, Pick, Go, handshake, reset
  <2>3. CASE ~(Selecting(p) \subseteq picked[p] \cup {p})
    BY <2>1, <2>3 DEF IInv, TypeOK, Pick, handshake, reset
  <2> QED BY <2>2, <2>3
<1>2. Active(p) /\ Placed(p) /\ TypeOK /\ p # q
  BY <1>1, InGameActive, PeerFacts
<1>3. Live(p) /\ Live(p)'
  BY <1>1, <1>2, LiveOrDoomed DEF Live, Active, Quit
<1>4. /\ StageOf(p) = "chosen" /\ StageOf(p)' = "chosen" /\ At(p)' = At(p)
      /\ Selecting(p)' = Selecting(p)
  BY <1>1, <1>2 DEF StageOf, At, Round, Turn, Selecting
<1>5. ~ready[p].local /\ ready[p].local = waiting[p]
  BY <1>1, <1>2 DEF Placed, ReadyAt, Meeting, TypeOK, R!Ready
<1>6. Placed(p)'
  <2>1. InMenu(p)' /\ InGame(p)'
    BY <1>1, <1>2, <1>4 DEF Placed, InMenu, InGame
  <2>2. ReadyAt(p)' /\ Informed(p)'
    BY <1>1, <1>2, <1>4, <1>5 DEF Placed, ReadyAt, Informed, Meeting, Round
  <2> QED BY <2>1, <2>2 DEF Placed
<1>7. Said(p) = {<<>>} /\ Said(p)' = {<<"SELECTSHIP">>}
  BY <1>1, <1>4, <1>5 DEF Said, SaidFirst
<1>8. Heard(p)' = Heard(p) /\ Signaled(p)' = Signaled(p)
  <2>1. q \in picked'[p] <=> q \in picked[p]
    BY <1>1, <1>2
  <2> QED BY <1>1, <1>4, <2>1 DEF Heard, HeardFirst, Signaled, Whole, Chooses
<1>9. chan'[p] = chan[p] \o <<"SELECTSHIP">> /\ chan'[q] = chan[q]
      /\ <<"SELECTSHIP">> \in Seq(PacketType)
  BY <1>1, <1>2, Packets, Sends
<1>10. NoResetIn(<<"SELECTSHIP">>)
  BY Len(<<"SELECTSHIP">>) = 1 DEF NoResetIn
<1>11. Flows(q)'
  BY <1>1, <1>3, <1>4, <1>8, <1>9, InStay
<1>12. Flows(p)'
  <2>1. <<>> \notin Confirmed \cup {Whole(fate, p, At(p))}
    BY <1>2, AtPosition, Words DEF Confirmed, TypeOK
  <2>2. <<>> \o <<"SELECTSHIP">> = <<"SELECTSHIP">> /\ <<"SELECTSHIP">> \notin Confirmed
    BY <1>9, Join, Len(<<"SELECTSHIP">>) = 1, Len(<<"HANDSHAKE0", "HANDSHAKE1">>) = 2
       DEF Confirmed
  <2> QED BY <1>3, <1>4, <1>6, <1>7, <1>9, <2>1, <2>2, OutStay
<1> QED BY <1>1, <1>3, <1>6, <1>9, <1>10, <1>11, <1>12, Step DEF Pops

LEMMA BattleInputStep ==
  ASSUME IInv, TypeOK', NEW p \in Party, NEW q \in Party, q = Peer(p), Same(q),
         HandleBattleInput(p)
  PROVE  IInv'
<1>0. TypeOK /\ Placed(p) /\ Resets(p)
  BY DEF IInv
<1>1. /\ chan[q] # <<>> /\ Head(chan[q]) = "BATTLEINPUT" /\ Answer(p, <<>>)
      /\ pc' = pc /\ waiting' = waiting /\ state' = state /\ localOk' = localOk
      /\ remoteOk' = remoteOk /\ ready' = ready /\ localReset' = localReset
      /\ remoteReset' = remoteReset /\ abort' = abort /\ met' = met /\ fate' = fate
      /\ game' = game /\ deaths' = deaths /\ picked' = picked /\ seed' = seed
      /\ peerDelay' = peerDelay /\ fault' = fault
  BY DEF HandleBattleInput, Arrives, Polls, Incoming, handshake, reset, progress
<1>2. Live(p)
  BY ArrivesLive DEF HandleBattleInput
<1>3. /\ At(p)' = At(p) /\ Heard(p)' = Heard(p) /\ Signaled(p)' = Signaled(p)
      /\ Said(p)' = Said(p) /\ localOk'[p] = localOk[p] /\ Live(p)'
  BY <1>1, <1>2 DEF At, Round, Turn, StageOf, Heard, HeardFirst, Signaled, Said, SaidFirst,
                    Live, Active, Quit
<1>4. Placed(p)'
  BY <1>0, <1>1, <1>2
     DEF Placed, Live, InMenu, Resting, InGame, ReadyAt, Informed, StageOf, Round, Selecting
<1>5. chan'[p] = chan[p] \o <<>> /\ chan'[q] = Tail(chan[q]) /\ <<>> \in Seq(PacketType)
      /\ NoResetIn(<<>>)
  <2>1. NoResetIn(<<>>)
    BY DEF NoResetIn
  <2> QED BY <2>1, <1>0, <1>1, Packets, Answers
<1>6. Flows(q)'
  BY <1>1, <1>2, <1>3, <1>5, InInput
<1>7. Flows(p)'
  BY <1>2, <1>3, <1>4, <1>5, OutStay
<1> QED BY <1>0, <1>1, <1>2, <1>3, <1>4, <1>5, <1>6, <1>7, Step DEF Pops, Resets

-----------------------------------------------------------------------------
(* The signals, and the meetings.                                          *)

(* A side of which nothing is expected at x has said less than all there.  *)
LEMMA StopShort ==
  ASSUME NEW f \in Seq(Party), NEW q \in Party, NEW x \in Position,
         x.stage \in {"chosen", "fight", "over", "ended"}, NEW o, o \in {<<>>, <<"SELECTSHIP">>}
  PROVE  o # Whole(f, q, x)
<1>1. Whole(f, q, x) \in {<<"SELECTSHIP", "READY">>, <<"READY">>}
  BY DEF Whole
<1>2. /\ <<"SELECTSHIP">> # <<"READY">> /\ <<"SELECTSHIP">> # <<"SELECTSHIP", "READY">>
      /\ <<>> # <<"READY">> /\ <<>> # <<"SELECTSHIP", "READY">>
  BY Head(<<"READY">>) = "READY", Head(<<"SELECTSHIP">>) = "SELECTSHIP", Len(<<>>) = 0,
     Len(<<"SELECTSHIP", "READY">>) = 2, Len(<<"SELECTSHIP">>) = 1, Len(<<"READY">>) = 1
<1> QED BY <1>1, <1>2

(* Where the side is when it has passed a meeting.                         *)
LEMMA Passed ==
  ASSUME IInv, TypeOK', NEW p \in Party, NEW q \in Party, q = Peer(p),
         Active(p), pc[p] \in Meeting, Met(p), ~ready'[p].local, ~ready'[p].remote,
         pc[p] = "agree" => peerDelay[p] = game[p] /\ seed[p] = game[p],
         NextPlace(p) \notin {"resetting", "left"}
  PROVE  /\ Active(p)' /\ Placed(p)' /\ At(p)' = Following(fate, At(p))
         /\ Said(p)' = {<<>>} /\ Heard(p)' = <<>>
<1>0. TypeOK /\ Placed(p)
  BY DEF IInv
<1>1. /\ state'[p] = NextState(pc[p]) /\ pc'[p] = NextPlace(p) /\ ~waiting'[p]
      /\ met'[p] = met[p] + 1 /\ picked'[p] = IF NextPlace(p) = "choose" THEN {} ELSE picked[p]
      /\ localOk' = localOk /\ remoteOk' = remoteOk /\ localReset' = localReset
      /\ remoteReset' = remoteReset /\ abort'[p] = abort[p] /\ fate' = fate
      /\ game' = game /\ deaths' = deaths /\ seed' = seed /\ peerDelay' = peerDelay
      /\ pc[p] # "unchosen"
  <2>1. pc[p] # "unchosen"
    BY DEF NextPlace
  <2>2. abort'[p] = abort[p]
    <3>1. abort' = [abort EXCEPT ![p] = @ \/ pc[p] = "unchosen"]
      BY DEF Met
    <3> QED BY <1>0, <2>1, <3>1 DEF TypeOK
  <2>3. picked'[p] = IF NextPlace(p) = "choose" THEN {} ELSE picked[p]
    <3>1. picked' = IF NextPlace(p) = "choose" THEN [picked EXCEPT ![p] = {}] ELSE picked
      BY DEF Met
    <3> QED BY <1>0, <3>1 DEF TypeOK
  <2>4. /\ state' = [state EXCEPT ![p] = NextState(pc[p])]
        /\ pc' = [pc EXCEPT ![p] = NextPlace(p)]
        /\ waiting' = [waiting EXCEPT ![p] = FALSE] /\ met' = [met EXCEPT ![p] = @ + 1]
        /\ localOk' = localOk /\ remoteOk' = remoteOk /\ localReset' = localReset
        /\ remoteReset' = remoteReset /\ fate' = fate
        /\ game' = game /\ deaths' = deaths /\ seed' = seed /\ peerDelay' = peerDelay
    BY DEF Met, Go, handshake, reset
  <2> QED BY <1>0, <2>1, <2>2, <2>3, <2>4 DEF TypeOK
<1>2. InMenu(p) /\ InGame(p) /\ Informed(p)
  BY <1>0 DEF Placed
<1>3. /\ deaths[p] \in 0 .. Len(fate) /\ Len(fate) \in Nat /\ Len(fate) >= 1
      /\ met[p] \in Nat /\ game[p] \in Nat
  BY <1>0, GameAssumption DEF IInv, TypeOK
<1>4. /\ pc[p] \notin {"menu", "confirming", "picking", "battle", "dying", "waitReady"}
      /\ ~localOk[p] /\ ~remoteOk[p] /\ game[p] > 0 /\ Round(p) = game[p] /\ StageOf(p) = pc[p]
  BY <1>1, <1>2 DEF InMenu, Meeting, Round, StageOf
<1>5. seed[p] = game[p] /\ peerDelay[p] = game[p]
  BY <1>2, <1>4 DEF Informed, Meeting
<1>6. ~ready'[p].local /\ ~ready'[p].remote /\ ready'[p].local = waiting'[p]
  BY <1>1 DEF TypeOK, R!Ready
<1>7. ASSUME StageOf(p)' \notin {"handshake", "agree"}, p \notin picked'[p] \/ StageOf(p)' # "chosen",
             q \notin picked'[p] \/ StageOf(p)' # "chosen"
      PROVE  Said(p)' = {<<>>} /\ Heard(p)' = <<>>
  BY <1>6, <1>7 DEF Said, SaidFirst, Heard, HeardFirst
<1> DEFINE Result == /\ Active(p)' /\ Placed(p)' /\ At(p)' = Following(fate, At(p))
                     /\ Said(p)' = {<<>>} /\ Heard(p)' = <<>>
<1>8. CASE pc[p] = "agree"
  <2>1. pc'[p] = "choose" /\ state'[p] = "interBattle" /\ StageOf(p)' = "choose"
    BY <1>1, <1>8 DEF NextState, NextPlace, StageOf
  <2>2. met[p] = 0 /\ deaths[p] = 0
    BY <1>2, <1>8 DEF InGame
  <2>3. picked'[p] = {}
    BY <1>1, <2>1
  <2>4. InMenu(p)' /\ InGame(p)'
    BY <1>1, <1>3, <1>4, <1>6, <1>8, <2>1, <2>2, <2>3 DEF InMenu, Resting, InGame
  <2>5. ReadyAt(p)' /\ Informed(p)'
    BY <1>1, <1>4, <1>5, <1>6, <2>1 DEF ReadyAt, Informed, Meeting
  <2>6. Active(p)' /\ At(p)' = Following(fate, At(p))
    BY <1>1, <1>3, <1>4, <1>8, <2>1, <2>2
       DEF Active, Quit, At, Round, Turn, Following, NextStage
  <2>7. Said(p)' = {<<>>} /\ Heard(p)' = <<>>
    BY <1>7, <2>1, <2>3
  <2> QED BY <2>4, <2>5, <2>6, <2>7 DEF Placed
<1>9. CASE pc[p] = "choose"
  <2>1. pc'[p] = "picking" /\ state'[p] = "selectShip" /\ StageOf(p)' = "chosen"
    BY <1>1, <1>9 DEF NextState, NextPlace, StageOf
  <2>2. met[p] = 5 * deaths[p] + 1 /\ deaths[p] < Len(fate) /\ picked[p] = {}
    BY <1>2, <1>9 DEF InGame
  <2>3. picked'[p] = {}
    BY <1>1, <2>1, <2>2
  <2>4. InMenu(p)' /\ InGame(p)'
    BY <1>1, <1>3, <1>4, <1>6, <1>9, <2>1, <2>2, <2>3 DEF InMenu, Resting, InGame
  <2>5. ReadyAt(p)' /\ Informed(p)'
    BY <1>1, <1>4, <1>5, <1>6, <2>1 DEF ReadyAt, Informed, Meeting
  <2>6. Active(p)' /\ At(p)' = Following(fate, At(p))
    BY <1>1, <1>3, <1>4, <1>9, <2>1, <2>2
       DEF Active, Quit, At, Round, Turn, Following, NextStage
  <2>7. Said(p)' = {<<>>} /\ Heard(p)' = <<>>
    BY <1>7, <2>1, <2>3
  <2> QED BY <2>4, <2>5, <2>6, <2>7 DEF Placed
<1>10. CASE pc[p] = "chosen"
  <2>1. pc'[p] = "fight" /\ state'[p] = "interBattle" /\ StageOf(p)' = "fight"
    BY <1>1, <1>10 DEF NextState, NextPlace, StageOf
  <2>2. met[p] = 5 * deaths[p] + 2 /\ deaths[p] < Len(fate)
    BY <1>2, <1>10 DEF InGame
  <2>3. Round(p)' = game[p]
    BY <1>1, <2>1 DEF Round
  <2>4. InMenu(p)' /\ InGame(p)'
    BY <1>1, <1>3, <1>4, <1>6, <1>10, <2>1, <2>2, <2>3 DEF InMenu, Resting, InGame
  <2>5. ReadyAt(p)' /\ Informed(p)'
    BY <1>1, <1>4, <1>5, <1>6, <2>1 DEF ReadyAt, Informed, Meeting
  <2>6. Active(p)' /\ At(p)' = Following(fate, At(p))
    BY <1>1, <1>3, <1>4, <1>10, <2>1, <2>2
       DEF Active, Quit, At, Round, Turn, Following, NextStage
  <2>7. Said(p)' = {<<>>} /\ Heard(p)' = <<>>
    BY <1>7, <2>1, <2>3
  <2> QED BY <2>4, <2>5, <2>6, <2>7 DEF Placed
<1>11. CASE pc[p] = "fight"
  <2>1. pc'[p] = "battle" /\ state'[p] = "inBattle" /\ StageOf(p)' = "toEnd"
    BY <1>1, <1>11 DEF NextState, NextPlace, StageOf
  <2>2. met[p] = 5 * deaths[p] + 3 /\ deaths[p] < Len(fate)
    BY <1>2, <1>11 DEF InGame
  <2>3. Round(p)' = game[p]
    BY <1>1, <2>1 DEF Round
  <2>4. InMenu(p)' /\ InGame(p)'
    BY <1>1, <1>3, <1>4, <1>6, <1>11, <2>1, <2>2, <2>3 DEF InMenu, Resting, InGame
  <2>5. ReadyAt(p)' /\ Informed(p)'
    BY <1>1, <1>4, <1>5, <1>6, <2>1 DEF ReadyAt, Informed, Meeting
  <2>6. Active(p)' /\ At(p)' = Following(fate, At(p))
    BY <1>1, <1>3, <1>4, <1>11, <2>1, <2>2
       DEF Active, Quit, At, Round, Turn, Following, NextStage
  <2>7. Said(p)' = {<<>>} /\ Heard(p)' = <<>>
    BY <1>7, <2>1, <2>3
  <2> QED BY <2>4, <2>5, <2>6, <2>7 DEF Placed
<1>12. CASE pc[p] = "ended"
  <2>1. pc'[p] = "checkpoint" /\ state'[p] = "interBattle" /\ StageOf(p)' = "checkpoint"
    BY <1>1, <1>12 DEF NextState, NextPlace, StageOf
  <2>2. met[p] = 5 * deaths[p] - 1 /\ deaths[p] > 0
    BY <1>2, <1>12 DEF InGame
  <2>3. Round(p)' = game[p]
    BY <1>1, <2>1 DEF Round
  <2>4. InMenu(p)' /\ InGame(p)'
    BY <1>1, <1>3, <1>4, <1>6, <1>12, <2>1, <2>2, <2>3 DEF InMenu, Resting, InGame
  <2>5. ReadyAt(p)' /\ Informed(p)'
    BY <1>1, <1>4, <1>5, <1>6, <2>1 DEF ReadyAt, Informed, Meeting
  <2>6. Active(p)' /\ At(p)' = Following(fate, At(p))
    BY <1>1, <1>3, <1>4, <1>12, <2>1, <2>2
       DEF Active, Quit, At, Round, Turn, Following, NextStage
  <2>7. Said(p)' = {<<>>} /\ Heard(p)' = <<>>
    BY <1>7, <2>1, <2>3
  <2> QED BY <2>4, <2>5, <2>6, <2>7 DEF Placed
<1>13. CASE pc[p] = "checkpoint" /\ deaths[p] < Len(fate)
  <2>1. pc'[p] = "choose" /\ state'[p] = "interBattle" /\ StageOf(p)' = "choose"
    BY <1>1, <1>13, <1>3 DEF NextState, NextPlace, StageOf
  <2>2. met[p] = 5 * deaths[p] /\ deaths[p] > 0
    BY <1>2, <1>13 DEF InGame
  <2>3. picked'[p] = {}
    BY <1>1, <2>1
  <2>4. InMenu(p)' /\ InGame(p)'
    BY <1>1, <1>3, <1>4, <1>6, <1>13, <2>1, <2>2, <2>3 DEF InMenu, Resting, InGame
  <2>5. ReadyAt(p)' /\ Informed(p)'
    BY <1>1, <1>4, <1>5, <1>6, <2>1 DEF ReadyAt, Informed, Meeting
  <2>6. Active(p)' /\ At(p)' = Following(fate, At(p))
    BY <1>1, <1>3, <1>4, <1>13, <2>1, <2>2
       DEF Active, Quit, At, Round, Turn, Following, NextStage
  <2>7. Said(p)' = {<<>>} /\ Heard(p)' = <<>>
    BY <1>7, <2>1, <2>3
  <2> QED BY <2>4, <2>5, <2>6, <2>7 DEF Placed
<1>14. CASE pc[p] = "checkpoint" /\ deaths[p] >= Len(fate)
  <2>1. pc'[p] = "over" /\ state'[p] = "interBattle" /\ StageOf(p)' = "over"
    BY <1>1, <1>14, <1>3 DEF NextState, NextPlace, StageOf
  <2>2. met[p] = 5 * deaths[p] /\ deaths[p] > 0
    BY <1>2, <1>14 DEF InGame
  <2>3. Round(p)' = game[p]
    BY <1>1, <2>1 DEF Round
  <2>4. InMenu(p)' /\ InGame(p)'
    BY <1>1, <1>3, <1>4, <1>6, <1>14, <2>1, <2>2, <2>3 DEF InMenu, Resting, InGame
  <2>5. ReadyAt(p)' /\ Informed(p)'
    BY <1>1, <1>4, <1>5, <1>6, <2>1 DEF ReadyAt, Informed, Meeting
  <2>6. Active(p)' /\ At(p)' = Following(fate, At(p))
    BY <1>1, <1>3, <1>4, <1>14, <2>1, <2>2
       DEF Active, Quit, At, Round, Turn, Following, NextStage
  <2>7. Said(p)' = {<<>>} /\ Heard(p)' = <<>>
    BY <1>7, <2>1, <2>3
  <2> QED BY <2>4, <2>5, <2>6, <2>7 DEF Placed
<1>15. CASE pc[p] = "over"
  <2>1. pc'[p] = "menu" /\ state'[p] = "inSetup" /\ StageOf(p)' = "handshake"
    BY <1>1, <1>15 DEF NextState, NextPlace, StageOf
  <2>2. met[p] = 5 * deaths[p] + 1 /\ deaths[p] = Len(fate)
    BY <1>2, <1>15 DEF InGame
  <2>3. Round(p)' = game[p] + 1
    BY <1>1, <2>1 DEF Round
  <2>8. ~abort[p]
    BY <1>15 DEF NextPlace
  <2>4. InMenu(p)' /\ InGame(p)'
    BY <1>1, <1>3, <1>4, <1>6, <1>15, <2>1, <2>2, <2>3, <2>8 DEF InMenu, Resting, InGame
  <2>5. ReadyAt(p)' /\ Informed(p)'
    BY <1>1, <1>4, <1>5, <1>6, <2>1 DEF ReadyAt, Informed, Meeting
  <2>6. Active(p)' /\ At(p)' = Following(fate, At(p))
    BY <1>1, <1>3, <1>4, <1>15, <2>1, <2>2
       DEF Active, Quit, At, Round, Turn, Following, NextStage
  <2>7. Said(p)' = {<<>>} /\ Heard(p)' = <<>>
    BY <1>1, <1>4, <1>6, <2>1 DEF Said, Heard, HeardFirst
  <2> QED BY <2>4, <2>5, <2>6, <2>7 DEF Placed
<1> QED BY <1>1, <1>3, <1>8, <1>9, <1>10, <1>11, <1>12, <1>13, <1>14, <1>15 DEF Meeting

LEMMA NotConfirmed ==
  ASSUME NEW f \in Seq(Party), NEW p \in Party, NEW x \in Position, x.stage # "handshake",
         NEW o \in Parts(f, p, x) \cup {Whole(f, p, x)}
  PROVE  o \notin Confirmed
<1>1. /\ Head(<<"INPUTDELAY", "SEEDRANDOM">>) = "INPUTDELAY"
      /\ Head(<<"INPUTDELAY", "SEEDRANDOM", "READY">>) = "INPUTDELAY"
      /\ Head(<<"INPUTDELAY">>) = "INPUTDELAY" /\ Head(<<"INPUTDELAY", "READY">>) = "INPUTDELAY"
      /\ Head(<<"SELECTSHIP">>) = "SELECTSHIP" /\ Head(<<"SELECTSHIP", "READY">>) = "SELECTSHIP"
      /\ Head(<<"FRAMECOUNT">>) = "FRAMECOUNT" /\ Head(<<"READY">>) = "READY"
      /\ Head(<<"HANDSHAKE1">>) = "HANDSHAKE1"
      /\ Head(<<"HANDSHAKE0", "HANDSHAKE1">>) = "HANDSHAKE0"
  OBVIOUS
<1>2. o \in {<<>>, <<"INPUTDELAY", "SEEDRANDOM">>, <<"INPUTDELAY", "SEEDRANDOM", "READY">>,
             <<"INPUTDELAY">>, <<"INPUTDELAY", "READY">>, <<"SELECTSHIP">>,
             <<"SELECTSHIP", "READY">>, <<"FRAMECOUNT">>, <<"READY">>}
  BY PreparedPackets, Zenon DEF Parts, Whole
<1>3. o = <<>> \/ Head(o) \notin {"HANDSHAKE0", "HANDSHAKE1"}
  BY <1>1, <1>2
<1>4. \A c \in Confirmed : c # <<>> /\ Head(c) \in {"HANDSHAKE0", "HANDSHAKE1"}
  BY <1>1 DEF Confirmed
<1> QED BY <1>3, <1>4

(* The words of a side at a place with a READY that it has not said yet.   *)
LEMMA BeforeReady ==
  ASSUME TypeOK, NEW p \in Party, Active(p), Placed(p), ~ready[p].local,
         pc[p] \in Meeting \/ (pc[p] = "dying" /\ state[p] = "inBattle"),
         NEW o \in Said(p)
  PROVE  /\ o = SaidFirst(p) /\ o \o <<"READY">> = Whole(fate, p, At(p))
         /\ o \notin Confirmed \cup {Whole(fate, p, At(p))}
         /\ o \o <<"READY">> \notin Confirmed /\ StageOf(p) # "handshake"
<1>1. StageOf(p) # "handshake" /\ fate \in Seq(Party) /\ At(p) \in Position
  BY AtPosition DEF StageOf, Meeting, TypeOK
<1>2. o = SaidFirst(p)
  BY <1>1 DEF Said
<1>3. o \o <<"READY">> = Whole(fate, p, At(p)) /\ o # Whole(fate, p, At(p))
  BY <1>1, <1>2, LastWord, FirstIsNotAll
<1>4. o \in Parts(fate, p, At(p))
  BY SaidIsPart
<1>5. At(p).stage # "handshake"
  BY <1>1 DEF At
<1> QED BY <1>1, <1>2, <1>3, <1>4, <1>5, NotConfirmed

(* The stop of one side finds the other at the same number of meetings.    *)
LEMMA MetHere ==
  ASSUME TypeOK, NEW p \in Party, Active(p), Placed(p),
         StageOf(p) \in {"chosen", "fight", "over"} \cup Fighting
  PROVE  met[p] = MetAt(At(p)) /\ At(p).game = game[p] /\ At(p).stage = StageOf(p)
<1>1. InMenu(p) /\ InGame(p) /\ deaths[p] \in Nat /\ pc[p] \in Place
  BY DEF Placed, TypeOK
<1>2. pc[p] \in {"picking", "chosen", "unchosen", "fight", "battle", "dying", "waitReady",
                 "ended", "over"}
  BY <1>1 DEF StageOf, Fighting, Place, Meeting
<1>3. At(p).game = game[p] /\ At(p).stage = StageOf(p) /\ At(p).turn = Turn(p)
  BY <1>2 DEF At, Round
<1>4. CASE pc[p] \in {"picking", "chosen", "unchosen"}
  BY <1>1, <1>3, <1>4 DEF InGame, StageOf, Turn, MetAt
<1>8. CASE pc[p] = "fight"
  BY <1>1, <1>3, <1>8 DEF InGame, StageOf, Turn, MetAt
<1>5. CASE pc[p] = "battle"
  BY <1>1, <1>3, <1>5 DEF InGame, StageOf, Turn, MetAt
<1>6. CASE pc[p] \in {"dying", "waitReady", "ended"}
  <2>1. StageOf(p) \in Fighting /\ Turn(p) = deaths[p] - 1
    BY <1>1, <1>6 DEF StageOf, Turn, InGame, Fighting
  <2> QED BY <1>1, <1>3, <1>6, <2>1 DEF InGame, MetAt, Fighting
<1>7. CASE pc[p] = "over"
  BY <1>1, <1>3, <1>7 DEF InGame, StageOf, Turn, MetAt
<1> QED BY <1>2, <1>3, <1>4, <1>5, <1>6, <1>7, <1>8

LEMMA StopTogether ==
  ASSUME IInv, NEW p \in Party, NEW q \in Party, q = Peer(p), Live(p),
         NEW x \in Position, NEW o \in Parts(fate, q, x), NEW body \in Seq(PacketType),
         NEW end \in Seq(PacketType), Stream(q, x, o, body, end), StopAt(q, x, o),
         \/ body = <<>>
         \/ StageOf(p) = "chosen" /\ ~ready[p].local
         \/ StageOf(p) \in Fighting
  PROVE  /\ met[p] = met[q] /\ game[p] = game[q]
         /\ StageOf(p) \in {"chosen", "fight", "over"} \cup Fighting
<1> DEFINE y == At(p)
<1>0. Active(p) /\ Placed(p) /\ TypeOK /\ fate \in Seq(Party) /\ y \in Position /\ Peer(q) = p
  BY PeerFacts, AtPosition DEF IInv, Live, TypeOK
<1>1. Flow(fate, q, x, o, body, y, Heard(p), Signaled(p), localOk[p])
  BY <1>0 DEF Stream, FlowOf
<1>2. y.stage = StageOf(p) /\ x.turn \in Nat
  BY DEF At, Position
<1>3. /\ x.stage \in {"chosen", "fight", "over"} \cup Fighting /\ x.game = game[q]
      /\ met[q] = MetAt(x)
      /\ x.stage \notin {"toEnd", "toEnd2"} => o \in {<<>>, <<"SELECTSHIP">>}
  BY DEF StopAt
<1>4. SUFFICES /\ y.stage \in {"chosen", "fight", "over"} \cup Fighting
               /\ y.game = x.game /\ MetAt(y) = MetAt(x)
  BY <1>0, <1>2, <1>3, MetHere
<1>5. CASE x = y
  BY <1>3, <1>5
<1>6. CASE /\ x = Following(fate, y) /\ Heard(p) \o body = Whole(fate, q, y) \o o
           /\ Signaled(p) /\ o \notin Confirmed
  <2>1. CASE body = <<>>
    <3>1. StageOf(p) # "handshake"
      BY <1>2, <1>3, <1>6 DEF Following, NextStage, Fighting
    <3>2. ready[p].local /\ ~ready[p].remote
      BY <1>0, <1>6, <3>1 DEF Signaled, Placed, ReadyAt
    <3>3. Heard(p) = HeardFirst(p) /\ HeardFirst(p) \in Openings(fate, q, y)
      BY <1>0, <3>2, HeardIsOpening DEF Heard
    <3>4. o \in Seq(PacketType)
      BY <1>0, Words
    <3>5. Heard(p) \in Seq(PacketType) /\ Heard(p) # Whole(fate, q, y) \o o
      BY <1>0, <3>3, <3>4, OpeningShort
    <3> QED BY <1>6, <2>1, <3>5, Join
  <2>3. CASE StageOf(p) = "chosen" /\ ~ready[p].local
    BY <1>6, <2>3 DEF Signaled
  <2>2. CASE StageOf(p) \in Fighting
    <3>1. y.stage \in {"toEnd", "toEnd2"} /\ x.stage \in {"toEnd2", "ended"} /\ x.turn = y.turn
          /\ x.game = y.game
      BY <1>2, <1>3, <1>6, <2>2 DEF Following, NextStage, Fighting
    <3> QED BY <3>1 DEF MetAt, Fighting
  <2> QED BY <2>1, <2>2, <2>3
<1>7. CASE y = Following(fate, x) /\ o \in Confirmed \cup {Whole(fate, q, x)}
  <2>1. x.stage \in {"toEnd", "toEnd2"}
    <3>1. SUFFICES ASSUME x.stage \notin {"toEnd", "toEnd2"} PROVE FALSE
      OBVIOUS
    <3>2. o \in {<<>>, <<"SELECTSHIP">>}
      BY <1>3, <3>1
    <3>3. o \notin Confirmed
      <4>1. x.stage # "handshake"
        BY <1>3 DEF Fighting
      <4> QED BY <1>0, <4>1, NotConfirmed
    <3>4. o = Whole(fate, q, x)
      BY <1>7, <3>3
    <3>5. Whole(fate, q, x) \in {<<"SELECTSHIP", "READY">>, <<"READY">>}
      BY <1>3, <3>1 DEF Whole, Fighting
    <3>6. o = <<"SELECTSHIP">>
      BY <1>0, <3>2, <3>4, Words
    <3>7. CASE Whole(fate, q, x) = <<"READY">>
      BY <3>4, <3>6, <3>7, Head(<<"READY">>) = "READY", Head(<<"SELECTSHIP">>) = "SELECTSHIP"
    <3>8. <<"SELECTSHIP">> # <<"SELECTSHIP", "READY">>
      BY Len(<<"SELECTSHIP", "READY">>) = 2, Len(<<"SELECTSHIP">>) = 1
    <3> QED BY <3>4, <3>5, <3>6, <3>7, <3>8
  <2>2. y.stage \in {"toEnd2", "ended"} /\ y.turn = x.turn /\ y.game = x.game
    BY <1>7, <2>1 DEF Following, NextStage
  <2> QED BY <2>1, <2>2 DEF MetAt, Fighting
<1> QED BY <1>1, <1>5, <1>6, <1>7 DEF Flow

(* A side that nobody resets stops, or leaves.                             *)
LEMMA OffStep ==
  ASSUME IInv, TypeOK', NEW p \in Party, NEW q \in Party, q = Peer(p), Same(q),
         Live(p), ~Live(p)', ~localReset'[p], ~remoteReset'[p], ~Quit(p)',
         fault'[p] = fault[p] \/ (fault'[p] = "shipless" /\ pc'[p] = "left"),
         pc'[p] \in {"resetting", "left"},
         pc'[p] = "resetting" => state'[p] # "inSetup" /\ MidGame(p)',
         state'[p] \notin {"inSetup", "preBattle"} =>
           seed'[p] = game'[p] /\ peerDelay'[p] = game'[p],
         pc'[p] = "resetting" /\ Stopped(q) => met'[p] = met[q] /\ game'[p] = game[q],
         Flows(p)', NEW s \in Seq(PacketType), NoResetIn(s), chan'[p] = chan[p] \o s, Pops(q)
  PROVE  IInv'
<1>1. Peer(q) = p /\ Resets(p) /\ Resets(q) /\ Outgoing(p) /\ Outgoing(q) /\ TypeOK
  BY PeerFacts DEF IInv
<1>2. /\ ~Asked(p) /\ ~Told(p) /\ ~localReset[p] /\ ~remoteReset[p]
      /\ ~Asked(p)' /\ ~Told(p)' /\ (Stopped(p)' <=> pc'[p] = "resetting")
  BY <1>1 DEF Live, Active, Asked, Told, Stopped, Resets
<1>3. ~Told(q) /\ remoteReset'[p] = remoteReset[p]
  BY <1>1, <1>2 DEF Resets, TypeOK
<1>4. NoResetIn(chan[p])'
  <2>1. NoResetIn(chan[p] \o s)
    BY <1>1, <1>2, NoResetJoin DEF Outgoing, TypeOK
  <2> QED BY <2>1 DEF NoResetIn
<1>5. Outgoing(p)'
  BY <1>2, <1>4 DEF Outgoing
<1>6. Outgoing(q)'
  BY <1>1, <1>2, <1>3, OutgoingPops
<1>7. Resets(q)'
  BY <1>1, <1>2, <1>3, ResetsOther
<1>8. Resets(p)'
  <2>1. Stopped(p)' /\ Stopped(q)' => met'[p] = met'[q] /\ game'[p] = game'[q]
    BY <1>2, SameMeans DEF Same
  <2> QED BY <1>1, <1>2, <1>3, <2>1, SameMeans DEF Resets, Active
<1>9. Placed(q)' /\ Faultless(q)'
  BY SamePlaced, SameMeans DEF IInv
<1>10. Len(fate') >= 1
  BY DEF IInv, Same
<1>11. Flows(q)' /\ Placed(p)'
  BY <1>1 DEF Flows, Placed, Active
<1>12. Faultless(p)'
  <2>1. fault[p] = "none"
    BY DEF IInv, Faultless, Live, Active
  <2> QED BY <2>1 DEF Faultless, PacketType
<1> QED BY <1>5, <1>6, <1>7, <1>8, <1>9, <1>10, <1>11, <1>12, PeerFacts DEF IInv

(* Who has heard all of the peer's preparation knows what it needs.        *)
LEMMA Informs ==
  ASSUME TypeOK, NEW p \in Party, NEW q \in Party, q = Peer(p), Active(p), Placed(p),
         StageOf(p) = "agree",
         ready[p].remote \/ Append(HeardFirst(p), "READY") = Whole(fate, q, At(p))
  PROVE  peerDelay[p] = Round(p) /\ (p = Host \/ seed[p] = Round(p))
<1>1. At(p).stage = "agree" /\ Informed(p)
  BY DEF At, Placed
<1>2. CASE ready[p].remote
  BY <1>1, <1>2 DEF Informed
<1>3. CASE Append(HeardFirst(p), "READY") = Whole(fate, q, At(p))
  <2>1. Append(<<>>, "READY") = <<"READY">>
        /\ Append(<<"INPUTDELAY">>, "READY") = <<"INPUTDELAY", "READY">>
    BY Tuples DEF PacketType
  <2>2. Len(Append(<<>>, "READY")) = 1 /\ Len(Append(<<"INPUTDELAY">>, "READY")) = 2
    BY <2>1, Len(<<"READY">>) = 1, Len(<<"INPUTDELAY", "READY">>) = 2
  <2>3. ASSUME HeardFirst(p) = <<>> PROVE Len(Append(HeardFirst(p), "READY")) = 1
    BY <2>2, <2>3
  <2>4. ASSUME HeardFirst(p) = <<"INPUTDELAY">> PROVE Len(Append(HeardFirst(p), "READY")) = 2
    BY <2>2, <2>4
  <2>5. CASE q = Host
    <3>1. Len(Append(HeardFirst(p), "READY")) = 3
      BY <1>1, <1>3, <2>5, Len(<<"INPUTDELAY", "SEEDRANDOM", "READY">>) = 3 DEF Whole
    <3>2. HeardFirst(p) # <<>> /\ HeardFirst(p) # <<"INPUTDELAY">>
      BY <2>3, <2>4, <3>1
    <3> QED BY <3>2 DEF HeardFirst
  <2>6. CASE q # Host
    <3>1. p = Host
      BY <2>6, PeerFacts, GameAssumption
    <3>2. Len(Append(HeardFirst(p), "READY")) = 2
      BY <1>1, <1>3, <2>6, Len(<<"INPUTDELAY", "READY">>) = 2 DEF Whole
    <3>3. HeardFirst(p) # <<>>
      BY <2>3, <3>2
    <3> QED BY <3>1, <3>3 DEF HeardFirst
  <2> QED BY <2>5, <2>6
<1> QED BY <1>2, <1>3

(* A peer of which all is heard has said it, or has gone on.               *)
LEMMA AllHeard ==
  ASSUME IInv, NEW p \in Party, NEW q \in Party, q = Peer(p), Live(p), StageOf(p) # "handshake",
         \/ ready[p].remote
         \/ /\ chan[q] # <<>> /\ Head(chan[q]) = "READY"
            /\ Append(HeardFirst(p), Head(chan[q])) = Whole(fate, q, At(p))
  PROVE  \E z \in Position, body, end \in Seq(PacketType) : \E o \in Parts(fate, q, z) :
           /\ Stream(q, z, o, body, end)
           /\ (z = At(p) /\ o = Whole(fate, q, At(p))) \/ z = Following(fate, At(p))
<1>0. /\ Active(p) /\ Placed(p) /\ TypeOK /\ At(p) \in Position /\ fate \in Seq(Party)
      /\ Peer(q) = p
  BY AtPosition, PeerFacts DEF IInv, Live, TypeOK
<1>1. CASE ready[p].remote
  <2>1. PICK z \in Position, body \in Seq(PacketType), end \in Seq(PacketType) :
          \E o \in Parts(fate, q, z) : Stream(q, z, o, body, end)
    BY <1>0 DEF IInv, Flows
  <2>2. PICK o \in Parts(fate, q, z) : Stream(q, z, o, body, end)
    BY <2>1
  <2>3. Flow(fate, q, z, o, body, At(p), Whole(fate, q, At(p)), Signaled(p), localOk[p])
    BY <1>0, <1>1, <2>2 DEF Stream, FlowOf, Heard
  <2>4. (z = At(p) /\ o = Whole(fate, q, At(p))) \/ z = Following(fate, At(p))
    BY <1>0, <2>3, FlowTogether
  <2> QED BY <2>2, <2>4
<1>2. CASE /\ chan[q] # <<>> /\ Head(chan[q]) = "READY"
           /\ Append(HeardFirst(p), Head(chan[q])) = Whole(fate, q, At(p))
  <2>1. PICK z \in Position, body \in Seq(PacketType), end \in Seq(PacketType) :
          \E o \in Parts(fate, q, z) : Arrival(p, q, z, o, body, end)
    BY <1>2, Expected
  <2>2. PICK o \in Parts(fate, q, z) : Arrival(p, q, z, o, body, end)
    BY <2>1
  <2>3. /\ Stream(q, z, o, body, end) /\ body # <<>> /\ Head(body) = Head(chan[q])
        /\ Flow(fate, q, z, o, body, At(p), HeardFirst(p), Signaled(p), localOk[p])
    BY <2>2 DEF Arrival
  <2>4. HeardFirst(p) \in Seq(PacketType) /\ Tail(body) \in Seq(PacketType)
    BY <1>0, <2>3, HeardIsOpening, OpeningShort
  <2>5. Flow(fate, q, z, o, Tail(body), At(p), Whole(fate, q, At(p)), Signaled(p), localOk[p])
    BY <1>0, <1>2, <2>3, <2>4, FlowHear, ZenonT(40)
  <2>6. (z = At(p) /\ o = Whole(fate, q, At(p))) \/ z = Following(fate, At(p))
    BY <1>0, <2>4, <2>5, FlowTogether
  <2> QED BY <2>3, <2>6
<1> QED BY <1>1, <1>2

(* The side passes a meeting: it says its READY and has heard the peer's,  *)
(* or the other way round.                                                 *)
LEMMA PassStep ==
  ASSUME IInv, TypeOK', NEW p \in Party, NEW q \in Party, q = Peer(p), Same(q),
         Live(p), pc[p] \in Meeting, Met(p), ~ready'[p].local, ~ready'[p].remote,
         NEW s \in Seq(PacketType), chan'[p] = chan[p] \o s,
         \/ ready[p].local /\ s = <<>>
         \/ ~ready[p].local /\ s = <<"READY">>,
         \/ ready[p].remote /\ chan'[q] = chan[q]
         \/ /\ chan[q] # <<>> /\ Head(chan[q]) = "READY" /\ chan'[q] = Tail(chan[q])
            /\ Append(HeardFirst(p), Head(chan[q])) = Whole(fate, q, At(p))
  PROVE  IInv'
<1> DEFINE y == At(p)
<1>0. /\ TypeOK /\ Active(p) /\ Placed(p) /\ Resets(p) /\ Peer(q) = p /\ fate \in Seq(Party)
      /\ y \in Position /\ chan[p] \in Seq(PacketType)
  BY AtPosition, PeerFacts DEF IInv, Live, TypeOK
<1>1. NoResetIn(s) /\ Pops(q) /\ (Live(q) => (At(q) = y /\ Signaled(q)) \/ At(q) = Following(fate, y))
  <2>1. NoResetIn(s)
    BY Len(<<"READY">>) = 1, Len(<<>>) = 0 DEF NoResetIn
  <2>2. Pops(q)
    BY DEF Pops
  <2> QED BY <2>1, <2>2, <1>0, Together
<1>2. (chan[p] \o s) \o <<>> = chan'[p] /\ <<>> \notin Confirmed
  <2>1. chan[p] \o s \in Seq(PacketType)
    BY <1>0
  <2> QED BY <2>1, Join DEF Confirmed
<1>3. StageOf(p) # "handshake" /\ StageOf(p) = IF pc[p] = "unchosen" THEN "chosen" ELSE pc[p]
  BY DEF StageOf, Meeting
<1>4. Live(q) => Flow(fate, p, Following(fate, y), <<>>, chan'[p],
                      At(q), Heard(q), Signaled(q), localOk[q])
  <2> SUFFICES ASSUME Live(q) PROVE Flow(fate, p, Following(fate, y), <<>>, chan'[p],
                                         At(q), Heard(q), Signaled(q), localOk[q])
    OBVIOUS
  <2>1. ASSUME NEW o \in Said(p), FlowOf(p, y, o, chan[p])
        PROVE  \/ s = <<>> /\ (o = Whole(fate, p, y) \/ At(q) = Following(fate, y))
               \/ /\ o \notin Confirmed \cup {Whole(fate, p, y)} /\ o \o s = Whole(fate, p, y)
                  /\ At(q) = y => localOk[q] \/ o \o s \notin Confirmed
    <3>1. CASE ready[p].local
      BY <3>1, <1>3 DEF Said
    <3>2. CASE ~ready[p].local
      BY <3>2, <1>0, BeforeReady
    <3> QED BY <3>1, <3>2
  <2>2. (At(q) = y /\ Signaled(q)) \/ At(q) = Following(fate, y)
    BY <1>1
  <2>3. Flow(fate, p, Following(fate, y), <<>>, (chan[p] \o s) \o <<>>,
             At(q), Heard(q), Signaled(q), localOk[q])
    BY <2>1, <2>2, <1>2, Packets, Leaving
  <2> QED BY <2>3, <1>2
<1>5. pc[p] = "agree" => peerDelay[p] = game[p] /\ seed[p] = game[p]
  <2> SUFFICES ASSUME pc[p] = "agree" PROVE peerDelay[p] = game[p] /\ seed[p] = game[p]
    OBVIOUS
  <2>1. Round(p) = game[p] /\ StageOf(p) = "agree" /\ Informed(p)
    BY <1>0, <1>3 DEF Round, Placed
  <2>2. peerDelay[p] = Round(p) /\ (p = Host \/ seed[p] = Round(p))
    BY <1>0, <2>1, Informs
  <2> QED BY <2>1, <2>2 DEF Informed
<1>6. /\ localReset'[p] = localReset[p] /\ remoteReset'[p] = remoteReset[p]
      /\ game'[p] = game[p] /\ pc'[p] = NextPlace(p) /\ state'[p] = NextState(pc[p])
      /\ met'[p] = met[p] + 1 /\ seed' = seed /\ peerDelay' = peerDelay /\ fate' = fate
      /\ ~localReset[p] /\ ~remoteReset[p]
      /\ fault'[p] = IF pc[p] = "unchosen" /\ deaths[p] = 0 THEN "shipless" ELSE fault[p]
  BY <1>0 DEF Met, Go, reset, TypeOK, Resets, Live
<1>7. CASE NextPlace(p) \notin {"resetting", "left"}
  <2>1. /\ Active(p)' /\ Placed(p)' /\ At(p)' = Following(fate, y)
        /\ Said(p)' = {<<>>} /\ Heard(p)' = <<>>
    BY <1>0, <1>5, <1>7, Passed
  <2>2. Live(p)'
    BY <1>6, <2>1 DEF Live
  <2>3. Flows(q)'
    BY <2>1, InArrive, InHearArrive
  <2>4. Flows(p)'
    BY <1>4, <2>1, <2>2, OutLeave
  <2>5. fault'[p] = fault[p]
    BY <1>6, <1>7 DEF NextPlace
  <2> QED BY <1>1, <1>6, <2>1, <2>2, <2>3, <2>4, <2>5, Step
<1>9. Stopped(q) => \E z \in Position, o \in Seq(PacketType) :
        /\ StopAt(q, z, o)
        /\ (z = y /\ o = Whole(fate, q, y)) \/ z = Following(fate, y)
  <2>1. PICK z \in Position, body \in Seq(PacketType), end \in Seq(PacketType) :
          \E o \in Parts(fate, q, z) :
            /\ Stream(q, z, o, body, end)
            /\ (z = y /\ o = Whole(fate, q, y)) \/ z = Following(fate, y)
    BY <1>3, AllHeard
  <2>2. PICK o \in Parts(fate, q, z) :
            /\ Stream(q, z, o, body, end)
            /\ (z = y /\ o = Whole(fate, q, y)) \/ z = Following(fate, y)
    BY <2>1
  <2>3. o \in Seq(PacketType)
    BY <1>0, Words
  <2> QED BY <2>2, <2>3 DEF Stream
<1>8. CASE NextPlace(p) \in {"resetting", "left"}
  <2>1. /\ Following(fate, y) \in Position /\ InGame(p) /\ Informed(p)
        /\ Len(fate) \in Nat /\ deaths[p] \in 0 .. Len(fate)
        /\ game[p] \in Nat /\ y.turn = Turn(p) /\ y.game = game[p] /\ y.stage = StageOf(p)
        /\ Len(fate) >= 1 /\ game[p] > 0
        /\ (pc[p] = "checkpoint" /\ deaths[p] = Len(fate)) \/ pc[p] = "over" \/ pc[p] = "unchosen"
    <3>1. \/ pc[p] = "checkpoint" /\ ~(deaths[p] < Len(fate)) /\ abort[p]
          \/ pc[p] = "over" /\ abort[p]
          \/ pc[p] = "unchosen"
      BY <1>8 DEF NextPlace, Meeting
    <3>2. /\ InGame(p) /\ Informed(p) /\ Len(fate) \in Nat /\ deaths[p] \in 0 .. Len(fate)
          /\ Len(fate) >= 1 /\ game[p] \in Nat /\ Following(fate, y) \in Position
      <4>1. InGame(p) /\ Informed(p) /\ game[p] \in Nat /\ Following(fate, y) \in Position
        BY <1>0, Ways, GameAssumption DEF Placed, TypeOK
      <4>2. Len(fate) \in Nat /\ Len(fate) >= 1 /\ deaths[p] \in 0 .. Len(fate)
        BY <1>0 DEF IInv, TypeOK
      <4> QED BY <4>1, <4>2
    <3>3. y.turn = Turn(p) /\ y.game = game[p] /\ y.stage = StageOf(p)
      BY <1>3, <3>1 DEF At, Round
    <3>4. game[p] > 0
      BY <1>0, <3>1 DEF Placed, InMenu
    <3> QED BY <1>6, <3>1, <3>2, <3>3, <3>4
  <2>0. PICK x \in Position : x = Following(fate, y)
    BY <2>1
  <2>2. CASE pc[p] = "checkpoint" /\ deaths[p] = Len(fate)
    <3>1. /\ pc'[p] = "resetting" /\ state'[p] = "interBattle" /\ met'[p] = 5 * Len(fate) + 1
          /\ x = [game |-> game[p], turn |-> Len(fate), stage |-> "over"]
      BY <1>3, <1>6, <1>8, <2>0, <2>1, <2>2 DEF NextPlace, NextState, InGame, Following, Turn
    <3>2. MidGame(p)' /\ ~Quit(p)' /\ ~Live(p)' /\ ~Asked(p)'
      BY <1>6, <2>1, <3>1 DEF MidGame, Quit, Live, Active, Asked
    <3>3. StopAt(p, x, <<>>)'
      <4>1. Len(fate') = Len(fate) /\ game'[p] = game[p]
        BY <1>6, <2>1
      <4> QED BY <4>1, <2>1, <3>1 DEF StopAt, MetAt, Fighting
    <3>4. Flows(p)'
      <4>1. End(p, x, <<>>)'
        BY <3>2 DEF End
      <4>2. <<>> \in Parts(fate, p, x)
        BY <3>1 DEF Parts
      <4>3. chan'[p] \in Seq(PacketType) /\ chan'[p] = chan'[p] \o <<>>
        BY <1>0, Join
      <4> QED BY <1>4, <2>0, <3>2, <3>3, <4>1, <4>2, <4>3, Packets, OutStop
    <3>5. Stopped(q) => met'[p] = met[q] /\ game'[p] = game[q]
      <4> SUFFICES ASSUME Stopped(q) PROVE met'[p] = met[q] /\ game'[p] = game[q]
        OBVIOUS
      <4>1. PICK z \in Position, o \in Seq(PacketType) : StopAt(q, z, o) /\ (z = y \/ z = x)
        BY <1>9, <2>0
      <4>2. z = x
        BY <1>3, <2>1, <2>2, <4>1 DEF StopAt, Fighting
      <4> QED BY <1>6, <2>1, <3>1, <4>1, <4>2 DEF StopAt, MetAt, Fighting
    <3>6. fault'[p] = fault[p] /\ seed'[p] = game'[p] /\ peerDelay'[p] = game'[p]
      BY <1>3, <1>6, <2>1, <2>2 DEF Informed
    <3> QED BY <1>1, <1>6, <2>1, <3>1, <3>2, <3>4, <3>5, <3>6, OffStep
  <2>3. CASE pc[p] = "over"
    <3>1. /\ pc'[p] = "left" /\ state'[p] = "inSetup" /\ met'[p] = 5 * Len(fate) + 2
          /\ x = [game |-> game[p] + 1, turn |-> 0, stage |-> "handshake"]
      BY <1>3, <1>6, <1>8, <2>0, <2>1, <2>3 DEF NextPlace, NextState, InGame, Following
    <3>2. ~Quit(p)' /\ ~Live(p)' /\ ~Asked(p)' /\ ~Stopped(p)' /\ fault'[p] = fault[p]
      BY <1>6, <2>1, <2>3, <3>1 DEF Quit, Live, Active, Asked, Stopped
    <3>3. Flows(p)'
      <4>1. End(p, x, <<>>)'
        BY <3>2 DEF End
      <4>2. <<>> \in Parts(fate, p, x)
        BY <3>1 DEF Parts
      <4>3. chan'[p] \in Seq(PacketType) /\ chan'[p] = chan'[p] \o <<>>
        BY <1>0, Join
      <4> QED BY <1>4, <2>0, <3>2, <4>1, <4>2, <4>3, Packets, OutStop
    <3> QED BY <1>1, <1>6, <2>1, <3>1, <3>2, <3>3, OffStep
  <2>4. CASE pc[p] = "unchosen"
    <3>1. /\ pc'[p] = IF deaths[p] = 0 THEN "left" ELSE "resetting"
          /\ state'[p] = "interBattle" /\ met'[p] = 5 * deaths[p] + 3 /\ deaths[p] < Len(fate)
          /\ y.stage = "chosen" /\ x = [game |-> game[p], turn |-> deaths[p], stage |-> "fight"]
      <4>1. /\ y.stage = "chosen" /\ Turn(p) = deaths[p]
            /\ met[p] = 5 * deaths[p] + 2 /\ deaths[p] < Len(fate)
        BY <1>3, <2>1, <2>4 DEF InGame, Turn
      <4> QED BY <1>6, <2>0, <2>1, <2>4, <4>1 DEF NextPlace, NextState, Following, NextStage
    <3>2. MidGame(p)' /\ ~Quit(p)' /\ ~Live(p)' /\ ~Asked(p)'
      BY <1>6, <2>1, <3>1 DEF MidGame, Quit, Live, Active, Asked
    <3>3. StopAt(p, x, <<>>)'
      <4>1. Len(fate') = Len(fate) /\ game'[p] = game[p]
        BY <1>6, <2>1
      <4> QED BY <4>1, <2>1, <3>1 DEF StopAt, MetAt, Fighting
    <3>4. Flows(p)'
      <4>1. End(p, x, <<>>)'
        BY <3>2 DEF End
      <4>2. <<>> \in Parts(fate, p, x)
        BY <3>1 DEF Parts
      <4>3. chan'[p] \in Seq(PacketType) /\ chan'[p] = chan'[p] \o <<>>
        BY <1>0, Join
      <4> QED BY <1>4, <2>0, <3>2, <3>3, <4>1, <4>2, <4>3, Packets, OutStop
    <3>5. Stopped(q) => met'[p] = met[q] /\ game'[p] = game[q]
      <4> SUFFICES ASSUME Stopped(q) PROVE met'[p] = met[q] /\ game'[p] = game[q]
        OBVIOUS
      <4>1. PICK z \in Position, o \in Seq(PacketType) :
              /\ StopAt(q, z, o)
              /\ (z = y /\ o = Whole(fate, q, y)) \/ z = x
        BY <1>9, <2>0
      <4>2. ASSUME z = y, o = Whole(fate, q, y) PROVE FALSE
        <5>2. o \in {<<>>, <<"SELECTSHIP">>}
          BY <3>1, <4>1, <4>2 DEF StopAt
        <5>3. y \in Position /\ fate \in Seq(Party)
          BY <4>1, <4>2, <1>0 DEF TypeOK
        <5> QED BY <3>1, <4>2, <5>2, <5>3, StopShort
      <4>3. z = x
        BY <4>1, <4>2
      <4> QED BY <1>6, <2>1, <3>1, <4>1, <4>3 DEF StopAt, MetAt, Fighting
    <3>6. /\ seed'[p] = game'[p] /\ peerDelay'[p] = game'[p]
          /\ fault'[p] = fault[p] \/ (fault'[p] = "shipless" /\ pc'[p] = "left")
      BY <1>3, <1>6, <2>1, <2>4, <3>1 DEF Informed
    <3> QED BY <1>1, <1>6, <2>1, <3>1, <3>2, <3>4, <3>5, <3>6, OffStep
  <2> QED BY <2>1, <2>2, <2>3, <2>4
<1> QED BY <1>7, <1>8

(* The side goes on to the next place with the packets more said there.    *)
LEMMA MoveStep ==
  ASSUME IInv, TypeOK', NEW p \in Party, NEW q \in Party, q = Peer(p), Same(q),
         Live(p), Live(p)', Placed(p)', At(p)' = Following(fate, At(p)), Heard(p)' = <<>>,
         NEW more \in Seq(PacketType), more \in Said(p)', more \notin Confirmed, NoResetIn(more),
         remoteReset'[p] = remoteReset[p], abort' = abort, game'[p] = game[p],
         fault'[p] = fault[p], StageOf(p) # "handshake",
         NEW s \in Seq(PacketType), chan'[p] = (chan[p] \o s) \o more,
         \/ ready[p].local /\ s = <<>>
         \/ ~ready[p].local /\ s = <<"READY">> /\ pc[p] = "dying" /\ state[p] = "inBattle",
         \/ ready[p].remote /\ chan'[q] = chan[q]
         \/ /\ chan[q] # <<>> /\ Head(chan[q]) \notin {"BATTLEINPUT", "RESET"}
            /\ chan'[q] = Tail(chan[q])
            /\ Append(HeardFirst(p), Head(chan[q])) = Whole(fate, q, At(p))
  PROVE  IInv'
<1> DEFINE y == At(p)
<1>0. /\ TypeOK /\ Active(p) /\ Placed(p) /\ Resets(p) /\ Peer(q) = p /\ fate \in Seq(Party)
      /\ y \in Position /\ chan[p] \in Seq(PacketType)
  BY AtPosition, PeerFacts DEF IInv, Live, TypeOK
<1>1. NoResetIn(s \o more) /\ Pops(q)
      /\ (Live(q) => (At(q) = y /\ Signaled(q)) \/ At(q) = Following(fate, y))
  <2>1. NoResetIn(s)
    BY Len(<<"READY">>) = 1, Len(<<>>) = 0 DEF NoResetIn
  <2>2. NoResetIn(s \o more)
    BY <2>1, NoResetJoin
  <2>3. Pops(q)
    BY DEF Pops
  <2> QED BY <2>2, <2>3, <1>0, Together
<1>2. Live(q) => Flow(fate, p, Following(fate, y), more, chan'[p],
                      At(q), Heard(q), Signaled(q), localOk[q])
  <2> SUFFICES ASSUME Live(q) PROVE Flow(fate, p, Following(fate, y), more, chan'[p],
                                         At(q), Heard(q), Signaled(q), localOk[q])
    OBVIOUS
  <2>1. ASSUME NEW o \in Said(p), FlowOf(p, y, o, chan[p])
        PROVE  \/ s = <<>> /\ (o = Whole(fate, p, y) \/ At(q) = Following(fate, y))
               \/ /\ o \notin Confirmed \cup {Whole(fate, p, y)} /\ o \o s = Whole(fate, p, y)
                  /\ At(q) = y => localOk[q] \/ o \o s \notin Confirmed
    <3>1. CASE ready[p].local
      BY <3>1 DEF Said
    <3>2. CASE ~ready[p].local
      BY <3>2, <1>0, BeforeReady
    <3> QED BY <3>1, <3>2
  <2>2. (At(q) = y /\ Signaled(q)) \/ At(q) = Following(fate, y)
    BY <1>1
  <2>3. Flow(fate, p, Following(fate, y), more, (chan[p] \o s) \o more,
             At(q), Heard(q), Signaled(q), localOk[q])
    BY <2>1, <2>2, Leaving
  <2> QED BY <2>3
<1>3. Flows(q)'
  BY InArrive, InHearArrive
<1>4. Flows(p)'
  BY <1>2, OutLeave
<1>5. chan'[p] = chan[p] \o (s \o more) /\ s \o more \in Seq(PacketType)
  <2>1. chan[p] \in Seq(PacketType)
    BY <1>0 DEF TypeOK
  <2>2. s \o more \in Seq(PacketType)
    OBVIOUS
  <2> QED BY <2>1, <2>2, JoinThree
<1> QED BY <1>1, <1>3, <1>4, <1>5, Step

(* The side says the READY of the place where it is.                       *)
LEMMA SayStep ==
  ASSUME IInv, TypeOK', NEW p \in Party, NEW q \in Party, q = Peer(p), Same(q),
         Active(p), Active(p)', Placed(p)', localReset'[p] = localReset[p],
         remoteReset'[p] = remoteReset[p], abort' = abort, game'[p] = game[p],
         met'[p] = met[p], fault'[p] = fault[p],
         ~ready[p].local, ~ready'[p].remote,
         pc[p] \in Meeting \/ (pc[p] = "dying" /\ state[p] = "inBattle"),
         At(p)' = At(p), Said(p)' = {Whole(fate, p, At(p))}, Heard(p)' = Heard(p),
         localOk'[p] = localOk[p], pc'[p] = pc[p], Send(p, <<"READY">>)
  PROVE  IInv'
<1>0. TypeOK /\ Placed(p) /\ Resets(p)
  BY DEF IInv
<1>1. chan'[p] = chan[p] \o <<"READY">> /\ chan'[q] = chan[q] /\ <<"READY">> \in Seq(PacketType)
  BY <1>0, Packets, Sends
<1>2. NoResetIn(<<"READY">>) /\ Head(<<"READY">>) = "READY"
  BY Len(<<"READY">>) = 1 DEF NoResetIn
<1>3. CASE Live(p)
  <2>1. Live(p)'
    BY <1>3 DEF Live
  <2>2. ~Signaled(p)
    BY <1>0 DEF Signaled, StageOf, Meeting
  <2>3. Flows(q)'
    BY <1>1, <1>3, <2>2, InStay
  <2>4. Flows(p)'
    <3>1. ASSUME NEW o \in Said(p)
          PROVE  /\ o \notin Confirmed \cup {Whole(fate, p, At(p))}
                 /\ o \o <<"READY">> \in Said(p)' /\ o \o <<"READY">> \notin Confirmed
      BY <1>0, BeforeReady
    <3> QED BY <1>1, <1>3, <2>1, <3>1, OutStay
  <2> QED BY <1>1, <1>2, <1>3, <2>1, <2>3, <2>4, Step DEF Pops
<1>4. CASE remoteReset[p] /\ localReset[p] /\ (abort[p] \/ pc[p] = "unchosen")
  BY <1>1, <1>2, <1>4, DoomedStep
<1> QED BY <1>3, <1>4, LiveOrDoomed

LEMMA NegotiateStep ==
  ASSUME IInv, TypeOK', NEW p \in Party, NEW q \in Party, q = Peer(p), Same(q), Negotiate(p)
  PROVE  IInv'
<1>0. pc[p] \in Meeting /\ ~waiting[p]
  BY DEF Negotiate
<1>1. Active(p) /\ Placed(p) /\ TypeOK
  BY <1>0, InGameActive DEF Meeting
<1>2. ~ready[p].local /\ state[p] # "inSetup"
  BY <1>0, <1>1 DEF Placed, ReadyAt, InGame, Meeting
<1>3. LocalReady(p, <<"READY">>)
  BY <1>0, <1>2 DEF Negotiate, MayBeReady
<1>4. ready[p] \in R!Ready /\ ready'[p] = R!AfterLocal(ready[p], "negotiate")
      /\ Send(p, <<"READY">>)
  BY <1>1, <1>3 DEF LocalReady, TypeOK
<1>5. /\ StageOf(p) = IF pc[p] = "unchosen" THEN "chosen" ELSE pc[p]
      /\ pc[p] \notin {"menu", "confirming"}
  BY <1>0 DEF StageOf, Meeting
<1>6. CASE ready[p].remote
  <2>1. Met(p)
    BY <1>3, <1>6 DEF LocalReady, R!MetByLocal
  <2>2. ~ready'[p].local /\ ~ready'[p].remote
    BY <1>2, <1>4, <1>6 DEF R!AfterLocal, R!MetByLocal, R!Ready
  <2>3. Live(p)
    <3>1. ~remoteReset[p]
      BY <1>0, <1>1, <1>5, <1>6 DEF IInv, Resets, Meeting
    <3> QED BY <1>1, <3>1, LiveOrDoomed
  <2>4. chan'[p] = chan[p] \o <<"READY">> /\ chan'[q] = chan[q]
    BY <1>1, <1>4, Packets, Sends
  <2> QED BY <1>0, <1>2, <1>4, <1>6, <2>1, <2>2, <2>3, <2>4, Packets, PassStep
<1>7. CASE ~ready[p].remote
  <2>1. /\ waiting'[p] /\ pc' = pc /\ state' = state /\ localOk' = localOk
        /\ remoteOk' = remoteOk /\ localReset' = localReset
        /\ remoteReset' = remoteReset /\ abort' = abort /\ met' = met /\ fate' = fate
        /\ game' = game /\ deaths' = deaths /\ picked' = picked /\ seed' = seed
        /\ peerDelay' = peerDelay /\ fault' = fault
    BY <1>1, <1>3, <1>7 DEF LocalReady, R!MetByLocal, handshake, reset, progress, TypeOK
  <2>2. ready'[p].local /\ ~ready'[p].remote /\ ready'[p].callback = "negotiate"
    BY <1>2, <1>4, <1>7 DEF R!AfterLocal, R!MetByLocal, R!Ready
  <2>3. Active(p)' /\ StageOf(p)' = StageOf(p) /\ At(p)' = At(p)
    BY <1>1, <1>5, <2>1 DEF Active, Quit, StageOf, At, Round, Turn
  <2>4. Placed(p)'
    <3>1. InMenu(p)' /\ InGame(p)'
      BY <1>0, <1>1, <1>5, <2>1 DEF Placed, InMenu, InGame, Selecting
    <3>2. ReadyAt(p)'
      <4>1. ready'[p].local = waiting'[p]
        BY <2>1, <2>2 DEF TypeOK, R!Ready
      <4>2. state[p] \notin {"inBattle", "endingBattle"}
        BY <1>0, <1>1 DEF Placed, InGame, Meeting
      <4> QED BY <1>0, <1>5, <2>1, <2>2, <4>1, <4>2 DEF ReadyAt, Meeting
    <3>3. Informed(p)'
      BY <1>1, <1>5, <2>1, <2>2, <2>3 DEF Placed, Informed, Round
    <3> QED BY <3>1, <3>2, <3>3 DEF Placed
  <2>5. Said(p)' = {Whole(fate, p, At(p))}
    BY <1>0, <1>5, <2>1, <2>2, <2>3 DEF Said, Meeting
  <2>6. Heard(p)' = Heard(p)
    BY <1>7, <2>1, <2>2, <2>3 DEF Heard, HeardFirst, Round
  <2> QED BY <1>0, <1>1, <1>2, <1>4, <2>1, <2>2, <2>3, <2>4, <2>5, <2>6, SayStep
<1> QED BY <1>6, <1>7

LEMMA FrameCountWord == NoResetIn(<<"FRAMECOUNT">>) /\ <<"FRAMECOUNT">> \notin Confirmed
<1>1. <<"FRAMECOUNT">> # <<"HANDSHAKE0", "HANDSHAKE1">>
  BY Len(<<"FRAMECOUNT">>) = 1, Len(<<"HANDSHAKE0", "HANDSHAKE1">>) = 2
<1>2. <<"FRAMECOUNT">> # <<"HANDSHAKE1">>
  BY Head(<<"FRAMECOUNT">>) = "FRAMECOUNT", Head(<<"HANDSHAKE1">>) = "HANDSHAKE1"
<1> QED BY <1>1, <1>2, Len(<<"FRAMECOUNT">>) = 1 DEF NoResetIn, Confirmed

LEMMA SignalEndStep ==
  ASSUME IInv, TypeOK', NEW p \in Party, NEW q \in Party, q = Peer(p), Same(q), SignalEnd(p)
  PROVE  IInv'
<1>0. pc[p] = "dying" /\ state[p] = "inBattle" /\ ~ready[p].local
  BY DEF SignalEnd
<1>1. Active(p) /\ Placed(p) /\ TypeOK /\ fate \in Seq(Party)
  BY <1>0, InGameActive DEF TypeOK
<1>2. /\ pc' = pc /\ waiting' = waiting /\ localOk' = localOk
      /\ remoteOk' = remoteOk /\ localReset' = localReset
      /\ remoteReset' = remoteReset /\ abort' = abort /\ met' = met /\ fate' = fate
      /\ game' = game /\ deaths' = deaths /\ picked' = picked /\ seed' = seed
      /\ peerDelay' = peerDelay /\ fault' = fault
  BY DEF SignalEnd, handshake, reset, progress
<1>3. StageOf(p) = "toEnd" /\ ready[p] \in R!Ready /\ ~waiting[p]
  BY <1>0, <1>1 DEF StageOf, TypeOK, Placed, ReadyAt, Meeting
<1>4. Round(p)' = Round(p) /\ Turn(p) = deaths[p] - 1
  BY <1>0, <1>2, <1>3 DEF Round, Turn
<1>5. CASE ready[p].remote
  <2>1. ReadyToEnd(p, R!AfterLocal(ready[p], "toEnd"), <<"READY">>, chan)
    BY <1>5 DEF SignalEnd, R!MetByLocal
  <2>2. /\ chan'[p] = (chan[p] \o <<"READY">>) \o <<"FRAMECOUNT">> /\ chan'[q] = chan[q]
        /\ state'[p] = "endingBattle"
        /\ ready'[p] = R!AfterLocal(R!AfterLocal(ready[p], "toEnd"), "toEnd2")
    <3> DEFINE r == R!AfterLocal(ready[p], "toEnd")
    <3>1. r \in R!Ready
      BY <1>3, ReadyTypes
    <3>2. chan \in [Party -> Seq(PacketType)] /\ ReadyToEnd(p, r, <<"READY">>, chan)
      BY <1>1, <2>1 DEF TypeOK
    <3> HIDE DEF r
    <3>3. /\ chan'[p] = (chan[p] \o <<"READY">>) \o <<"FRAMECOUNT">>
          /\ chan'[Peer(p)] = chan[Peer(p)]
          /\ state'[p] = "endingBattle" /\ ready'[p] = R!AfterLocal(r, "toEnd2")
      BY <1>1, <3>2, PeerFacts, ZenonT(40) DEF ReadyToEnd, TypeOK
    <3> QED BY <3>3 DEF r
  <2>3. ready'[p].local /\ ~ready'[p].remote /\ ready'[p].callback = "toEnd2"
    BY <1>0, <1>3, <1>5, <2>2 DEF R!AfterLocal, R!MetByLocal, R!Ready
  <2>4. Active(p)' /\ StageOf(p)' = "toEnd2"
    BY <1>0, <1>1, <1>2, <2>2 DEF Active, Quit, StageOf
  <2>5. At(p)' = Following(fate, At(p))
    BY <1>0, <1>2, <1>3, <1>4, <2>4 DEF At, Turn, Following, NextStage
  <2>6. Placed(p)'
    <3>1. InMenu(p)' /\ InGame(p)'
      BY <1>0, <1>1, <1>2, <2>2 DEF Placed, InMenu, InGame
    <3>2. ReadyAt(p)' /\ Informed(p)'
      BY <1>0, <1>1, <1>2, <1>3, <2>2, <2>3, <2>4 DEF Placed, ReadyAt, Informed, Meeting
    <3> QED BY <3>1, <3>2 DEF Placed
  <2>7. Said(p)' = {<<"FRAMECOUNT">>} /\ Heard(p)' = <<>>
    <3>1. Whole(fate, p, At(p))' = <<"FRAMECOUNT">>
      BY <2>4 DEF Whole, At
    <3> QED BY <2>3, <2>4, <3>1 DEF Said, Heard, HeardFirst
  <2>9. CASE Live(p)
    <3>1. Live(p)'
      BY <1>2, <2>4, <2>9 DEF Live
    <3> QED BY <1>0, <1>2, <1>3, <1>5, <2>2, <2>5, <2>6, <2>7, <2>9, <3>1,
               FrameCountWord, Packets, MoveStep
  <2>10. CASE remoteReset[p] /\ localReset[p] /\ abort[p]
    <3>1. chan'[p] = chan[p] \o <<"READY", "FRAMECOUNT">>
      <4>1. <<"READY">> \o <<"FRAMECOUNT">> = <<"READY", "FRAMECOUNT">>
        BY Tuples DEF PacketType
      <4>2. chan[p] \in Seq(PacketType)
        BY <1>1 DEF TypeOK
      <4> QED BY <2>2, <4>1, <4>2, Packets, JoinThree
    <3>2. NoResetIn(<<"READY", "FRAMECOUNT">>) /\ Head(<<"READY", "FRAMECOUNT">>) = "READY"
      BY Len(<<"READY", "FRAMECOUNT">>) = 2 DEF NoResetIn
    <3> QED BY <1>1, <1>2, <2>2, <2>3, <2>4, <2>6, <2>10, <3>1, <3>2, Packets, DoomedStep
  <2> QED BY <1>0, <1>1, <2>9, <2>10, LiveOrDoomed
<1>6. CASE ~ready[p].remote
  <2>1. /\ Send(p, <<"READY">>) /\ state' = state
        /\ ready'[p] = R!AfterLocal(ready[p], "toEnd")
    BY <1>1, <1>6 DEF SignalEnd, R!MetByLocal, TypeOK
  <2>2. ready'[p].local /\ ~ready'[p].remote /\ ready'[p].callback = "toEnd"
    BY <1>0, <1>3, <1>6, <2>1 DEF R!AfterLocal, R!MetByLocal, R!Ready
  <2>3. Active(p)' /\ StageOf(p)' = "toEnd" /\ At(p)' = At(p)
    BY <1>0, <1>1, <1>2, <1>3, <1>4, <2>1 DEF Active, Quit, StageOf, At, Turn
  <2>4. Placed(p)'
    <3>1. InMenu(p)' /\ InGame(p)'
      BY <1>0, <1>1, <1>2, <2>1 DEF Placed, InMenu, InGame
    <3>2. ReadyAt(p)' /\ Informed(p)'
      BY <1>0, <1>1, <1>2, <1>3, <2>1, <2>2, <2>3 DEF Placed, ReadyAt, Informed, Meeting
    <3> QED BY <3>1, <3>2 DEF Placed
  <2>5. Said(p)' = {Whole(fate, p, At(p))} /\ Heard(p)' = Heard(p)
    BY <1>2, <1>3, <1>6, <2>2, <2>3 DEF Said, Heard, HeardFirst
  <2> QED BY <1>0, <1>1, <1>2, <2>1, <2>2, <2>3, <2>4, <2>5, SayStep
<1> QED BY <1>5, <1>6

LEMMA FrameCountStep ==
  ASSUME IInv, TypeOK', NEW p \in Party, NEW q \in Party, q = Peer(p), Same(q),
         HandleFrameCount(p)
  PROVE  IInv'
<1>0. TypeOK /\ Placed(p) /\ fate \in Seq(Party)
  BY DEF IInv, TypeOK
<1>1. /\ Live(p) /\ Active(p) /\ chan[q] # <<>> /\ Head(chan[q]) = "FRAMECOUNT"
      /\ "FRAMECOUNT" \in PacketType /\ state[p] = "endingBattle"
  BY <1>0, ArrivesLive DEF HandleFrameCount, Arrives, Polls, Incoming, Live, PacketType
<1>2. StageOf(p) = "toEnd2" /\ Append(HeardFirst(p), Head(chan[q])) = Whole(fate, q, At(p))
  BY <1>1, Hearing
<1>3. ready[p] \in R!Ready /\ ready[p].local /\ ~ready[p].remote
  BY <1>0, <1>1 DEF Placed, ReadyAt, TypeOK
<1>4. /\ state'[p] = "endingBattle2" /\ ready'[p] = R!AfterRemote(ready[p]) /\ Answer(p, <<>>)
      /\ pc' = pc /\ waiting' = waiting /\ localOk' = localOk
      /\ remoteOk' = remoteOk /\ localReset' = localReset
      /\ remoteReset' = remoteReset /\ abort' = abort /\ met' = met /\ fate' = fate
      /\ game' = game /\ deaths' = deaths /\ picked' = picked /\ seed' = seed
      /\ peerDelay' = peerDelay /\ fault' = fault
  BY <1>0, <1>3 DEF HandleFrameCount, R!MetByRemote, handshake, reset, progress, TypeOK
<1>5. ~ready'[p].local /\ ~ready'[p].remote
  BY <1>3, <1>4 DEF R!AfterRemote, R!MetByRemote, R!Ready
<1>6. chan'[p] = chan[p] /\ chan'[q] = Tail(chan[q])
  <2>1. chan[p] \o <<>> = chan[p]
    BY <1>0 DEF TypeOK
  <2> QED BY <1>0, <1>1, <1>4, <2>1, Packets, Answers
<1>7. pc[p] \in {"dying", "waitReady"}
  BY <1>0, <1>1, <1>2 DEF Placed, InGame, StageOf, Meeting, TypeOK, Place
<1>8. Active(p)' /\ Live(p)' /\ StageOf(p)' = "ended"
  BY <1>1, <1>4, <1>7 DEF Live, Active, Quit, StageOf
<1>9. At(p)' = Following(fate, At(p))
  BY <1>2, <1>4, <1>7, <1>8 DEF At, Round, Turn, Following, NextStage
<1>10. Placed(p)'
  <2>1. InMenu(p)' /\ InGame(p)'
    BY <1>0, <1>1, <1>4, <1>7 DEF Placed, InMenu, InGame
  <2>2. ReadyAt(p)' /\ Informed(p)'
    BY <1>0, <1>1, <1>2, <1>4, <1>5, <1>7, <1>8 DEF Placed, ReadyAt, Informed, Meeting
  <2> QED BY <2>1, <2>2 DEF Placed
<1>11. Said(p)' = {<<>>} /\ Heard(p)' = <<>>
  BY <1>5, <1>8 DEF Said, SaidFirst, Heard, HeardFirst
<1>12. <<>> \notin Confirmed /\ NoResetIn(<<>>)
  BY Len(<<>>) = 0, Len(<<"HANDSHAKE0", "HANDSHAKE1">>) = 2, Len(<<"HANDSHAKE1">>) = 1
     DEF Confirmed, NoResetIn
<1>13. chan'[p] = (chan[p] \o <<>>) \o <<>>
  BY <1>0, <1>6 DEF TypeOK
<1> QED BY <1>1, <1>2, <1>3, <1>4, <1>6, <1>8, <1>9, <1>10, <1>11, <1>12, <1>13, Packets, MoveStep

LEMMA HandleReadyStep ==
  ASSUME IInv, TypeOK', NEW p \in Party, NEW q \in Party, q = Peer(p), Same(q), HandleReady(p)
  PROVE  IInv'
<1>0. TypeOK /\ Placed(p) /\ Resets(p) /\ fate \in Seq(Party) /\ ready[p] \in R!Ready
  BY DEF IInv, TypeOK
<1>1. /\ Live(p) /\ Active(p) /\ chan[q] # <<>> /\ Head(chan[q]) = "READY"
      /\ "READY" \in PacketType /\ ~ready[p].remote
  BY <1>0, ArrivesLive
     DEF HandleReady, ReadyFlagsMeaningful, Arrives, Polls, Incoming, Live, PacketType
<1>2. /\ StageOf(p) \notin {"handshake", "toEnd2"}
      /\ Append(HeardFirst(p), Head(chan[q])) = Whole(fate, q, At(p))
  BY <1>1, Hearing
<1>3. CASE ~ready[p].local
  <2>1. /\ ready'[p] = R!AfterRemote(ready[p]) /\ Answer(p, <<>>)
        /\ pc' = pc /\ waiting' = waiting /\ state' = state /\ localOk' = localOk
        /\ remoteOk' = remoteOk /\ localReset' = localReset
        /\ remoteReset' = remoteReset /\ abort' = abort /\ met' = met /\ fate' = fate
        /\ game' = game /\ deaths' = deaths /\ picked' = picked /\ seed' = seed
        /\ peerDelay' = peerDelay /\ fault' = fault
    BY <1>0, <1>3 DEF HandleReady, R!MetByRemote, handshake, reset, progress, TypeOK
  <2>2. /\ ~ready'[p].local /\ ready'[p].remote /\ ready'[p].callback = ready[p].callback
        /\ ready'[p].local = ready[p].local
    BY <1>0, <1>3, <2>1 DEF R!AfterRemote, R!MetByRemote, R!Ready
  <2>3. Active(p)' /\ Live(p)' /\ StageOf(p)' = StageOf(p) /\ At(p)' = At(p) /\ Round(p)' = Round(p)
    BY <1>1, <2>1 DEF Live, Active, Quit, StageOf, At, Round, Turn
  <2>4. Placed(p)'
    <3>1. InMenu(p)'
      BY <1>0, <1>1, <2>1, <2>2 DEF Placed, InMenu, Resting
    <3>2. InGame(p)'
      BY <1>0, <1>1, <2>1 DEF Placed, InGame, Selecting
    <3>3. ReadyAt(p)'
      BY <1>0, <1>1, <1>2, <1>3, <2>1, <2>2, <2>3 DEF Placed, ReadyAt
    <3>4. Informed(p)'
      <4>1. StageOf(p) = "agree" => peerDelay[p] = Round(p) /\ (p = Host \/ seed[p] = Round(p))
        BY <1>0, <1>1, <1>2, Informs
      <4> QED BY <1>0, <1>1, <1>2, <2>1, <2>2, <2>3, <4>1 DEF Placed, Informed
    <3> QED BY <3>1, <3>2, <3>3, <3>4 DEF Placed
  <2>5. Said(p)' = Said(p) /\ Signaled(p)' = Signaled(p)
    BY <1>2, <2>1, <2>2, <2>3 DEF Said, SaidFirst, Signaled
  <2>6. Heard(p)' = Append(HeardFirst(p), Head(chan[q]))
    BY <1>2, <2>1, <2>2, <2>3 DEF Heard
  <2> QED BY <1>0, <1>1, <2>1, <2>3, <2>4, <2>5, <2>6, HearStep
<1>4. CASE ready[p].local /\ ready[p].callback = "negotiate"
  <2>1. waiting[p] /\ pc[p] \in Meeting
    BY <1>0, <1>1, <1>4, Callbacks
  <2>2. Met(p) /\ ready'[p] = R!AfterRemote(ready[p]) /\ Answer(p, <<>>)
    BY <1>0, <1>4 DEF HandleReady, R!MetByRemote, TypeOK
  <2>3. ~ready'[p].local /\ ~ready'[p].remote
    BY <1>0, <1>1, <1>4, <2>2 DEF R!AfterRemote, R!MetByRemote, R!Ready
  <2>4. chan'[p] = chan[p] \o <<>> /\ chan'[q] = Tail(chan[q])
    BY <1>0, <1>1, <2>2, Packets, Answers
  <2> QED BY <1>1, <1>2, <1>4, <2>1, <2>2, <2>3, <2>4, Packets, PassStep
<1>5. CASE ready[p].local /\ ready[p].callback = "toEnd"
  <2>0. pc[p] = "dying" /\ state[p] = "inBattle"
    BY <1>0, <1>1, <1>5, Callbacks
  <2> DEFINE r == R!AfterRemote(ready[p])
             channels == [chan EXCEPT ![Peer(p)] = Tail(@)]
  <2>1. /\ ReadyToEnd(p, r, <<>>, channels)
        /\ pc' = pc /\ waiting' = waiting /\ localOk' = localOk
        /\ remoteOk' = remoteOk /\ localReset' = localReset
        /\ remoteReset' = remoteReset /\ abort' = abort /\ met' = met /\ fate' = fate
        /\ game' = game /\ deaths' = deaths /\ picked' = picked /\ seed' = seed
        /\ peerDelay' = peerDelay /\ fault' = fault
    BY <1>5 DEF HandleReady, R!MetByRemote, handshake, reset, progress
  <2>2. r \in R!Ready /\ ~r.remote /\ ~r.local
    BY <1>0, <1>1, <1>5 DEF R!AfterRemote, R!MetByRemote, R!Ready
  <2>3. /\ channels \in [Party -> Seq(PacketType)]
        /\ channels[p] = chan[p] /\ channels[q] = Tail(chan[q])
    <3>1. Tail(chan[q]) \in Seq(PacketType)
      BY <1>0, <1>1 DEF TypeOK
    <3> QED BY <1>0, <3>1, PeerFacts DEF TypeOK
  <2> HIDE DEF r, channels
  <2>4. /\ chan'[p] = (chan[p] \o <<>>) \o <<"FRAMECOUNT">> /\ chan'[q] = Tail(chan[q])
        /\ state'[p] = "endingBattle" /\ ready'[p] = R!AfterLocal(r, "toEnd2")
    BY <1>0, <2>1, <2>3, PeerFacts DEF ReadyToEnd, TypeOK
  <2>5. ready'[p].local /\ ~ready'[p].remote /\ ready'[p].callback = "toEnd2"
    BY <2>2, <2>4 DEF R!AfterLocal, R!MetByLocal, R!Ready
  <2>6. Active(p)' /\ Live(p)' /\ StageOf(p)' = "toEnd2" /\ StageOf(p) = "toEnd"
    BY <1>1, <2>0, <2>1, <2>4 DEF Live, Active, Quit, StageOf
  <2>7. At(p)' = Following(fate, At(p))
    BY <2>0, <2>1, <2>4, <2>6 DEF At, Round, Turn, Following, NextStage
  <2>8. Placed(p)'
    <3>1. InMenu(p)' /\ InGame(p)'
      BY <1>0, <1>1, <2>0, <2>1, <2>4 DEF Placed, InMenu, InGame
    <3>2. ReadyAt(p)' /\ Informed(p)'
      BY <1>0, <1>1, <2>0, <2>1, <2>4, <2>5, <2>6 DEF Placed, ReadyAt, Informed, Meeting
    <3> QED BY <3>1, <3>2 DEF Placed
  <2>9. Said(p)' = {<<"FRAMECOUNT">>} /\ Heard(p)' = <<>>
    <3>1. Whole(fate, p, At(p))' = <<"FRAMECOUNT">>
      BY <2>6 DEF Whole, At
    <3> QED BY <2>5, <2>6, <3>1 DEF Said, Heard, HeardFirst
  <2> QED BY <1>0, <1>1, <1>2, <1>5, <2>0, <2>1, <2>4, <2>6, <2>7, <2>8, <2>9,
             FrameCountWord, Packets, MoveStep
<1>6. ready[p].local => ready[p].callback \in {"negotiate", "toEnd"}
  BY <1>0, <1>1, <1>2, Callbacks DEF StageOf
<1> QED BY <1>3, <1>4, <1>5, <1>6

-----------------------------------------------------------------------------
(* Leaving a game.                                                         *)

LEMMA LiveSaid ==
  ASSUME IInv, NEW p \in Party, Live(p)
  PROVE  \E o \in Said(p) : Live(Peer(p)) => FlowOf(p, At(p), o, chan[p])
<1>1. \E o \in Said(p) : TRUE
  BY DEF Said
<1> QED BY <1>1, LiveFlow

(* A side that stops where it is has met as often as a side that stopped.  *)
LEMMA StopsAlike ==
  ASSUME IInv, NEW p \in Party, NEW q \in Party, q = Peer(p), Live(p), Stopped(q),
         (StageOf(p) = "chosen" /\ ~ready[p].local) \/ StageOf(p) \in Fighting
  PROVE  met[p] = met[q] /\ game[p] = game[q]
<1>1. Peer(q) = p /\ Flows(q)
  BY PeerFacts DEF IInv
<1>2. PICK x \in Position, body \in Seq(PacketType), end \in Seq(PacketType) :
        \E o \in Parts(fate, q, x) : Stream(q, x, o, body, end)
  BY <1>1 DEF Flows
<1>3. PICK o \in Parts(fate, q, x) : Stream(q, x, o, body, end)
  BY <1>2
<1>4. StopAt(q, x, o)
  BY <1>3 DEF Stream
<1> QED BY <1>3, <1>4, StopTogether

LEMMA StopStep ==
  ASSUME IInv, TypeOK', NEW p \in Party, NEW q \in Party, q = Peer(p), Same(q),
         pc[p] \in {"picking", "battle", "dying"}, abort[p], pc'[p] = "resetting",
         state'[p] # "inSetup",
         localReset' = localReset, remoteReset' = remoteReset, abort' = abort, game' = game,
         met' = met, seed' = seed, peerDelay' = peerDelay, fault' = fault,
         NEW s \in Seq(PacketType), chan'[p] = chan[p] \o s, chan'[q] = chan[q],
         s = <<>> \/ (s = <<"BATTLEINPUT">> /\ pc[p] # "picking")
  PROVE  IInv'
<1>0. /\ Active(p) /\ Placed(p) /\ Resets(p) /\ TypeOK /\ fate \in Seq(Party) /\ fate' = fate
      /\ chan[p] \in Seq(PacketType)
  BY InGameActive DEF IInv, TypeOK, Same
<1>1. /\ NoResetIn(s) /\ (s # <<>> => Head(s) \in {"BATTLEINPUT", "READY"})
      /\ (s = <<>> \/ s = <<"BATTLEINPUT">>)
  BY Len(<<>>) = 0, Len(<<"BATTLEINPUT">>) = 1 DEF NoResetIn
<1>2. game[p] > 0
  BY <1>0 DEF Placed, InMenu
<1>3. state[p] \notin {"inSetup", "preBattle"} /\ seed[p] = game[p] /\ peerDelay[p] = game[p]
  BY <1>0, KnowsBoth DEF Placed, InGame
<1>4. ~Active(p)' /\ ~Live(p)' /\ Placed(p)'
  BY DEF Active, Live, Placed
<1>5. CASE Live(p)
  <2> DEFINE x == At(p)
  <2>1. x \in Position /\ ~localReset[p] /\ ~remoteReset[p]
    BY <1>0, <1>5, AtPosition DEF Live, Resets
  <2>2. /\ StageOf(p) \in {"chosen"} \cup Fighting
        /\ (pc[p] # "picking" => StageOf(p) \in Fighting)
        /\ (StageOf(p) = "chosen" => pc[p] = "picking")
    BY DEF StageOf, Fighting
  <2>3. /\ x.stage = StageOf(p) /\ x.game = game[p] /\ met[p] = MetAt(x)
        /\ x.turn = Turn(p)
    BY <1>0, <1>2, <2>2, MetHere DEF At
  <2>4. Turn(p) \in Nat /\ Turn(p) < Len(fate) /\ Len(fate) \in Nat
    <3>1. deaths[p] \in 0 .. Len(fate) /\ Len(fate) \in Nat
      BY <1>0 DEF TypeOK
    <3>2. CASE pc[p] = "dying"
      <4>1. Turn(p) = deaths[p] - 1 /\ deaths[p] > 0
        BY <1>0, <2>2, <3>2 DEF Placed, InGame, Turn, Fighting
      <4> QED BY <3>1, <4>1
    <3>3. CASE pc[p] \in {"picking", "battle"}
      <4>1. Turn(p) = deaths[p] /\ deaths[p] < Len(fate)
        BY <1>0, <3>3 DEF Placed, InGame, Turn, StageOf
      <4> QED BY <3>1, <4>1
    <3> QED BY <3>2, <3>3
  <2>5. MetAt(x) # 0 /\ MetAt(x) # 5 * Len(fate) + 2
    BY <2>2, <2>3, <2>4 DEF MetAt, Fighting
  <2>6. MidGame(p)' /\ ~Quit(p)' /\ ~Asked(p)'
    BY <1>0, <1>2, <2>1, <2>3, <2>5 DEF MidGame, Quit, Asked
  <2>7. PICK o \in Said(p) : Live(q) => FlowOf(p, x, o, chan[p])
    BY <1>5, LiveSaid
  <2>8. o \in Parts(fate, p, x)
    BY <1>0, SaidIsPart
  <2>9. x.stage \notin {"toEnd", "toEnd2"} => o \in {<<>>, <<"SELECTSHIP">>}
    <3> SUFFICES ASSUME x.stage \notin {"toEnd", "toEnd2"} PROVE o \in {<<>>, <<"SELECTSHIP">>}
      OBVIOUS
    <3>1. StageOf(p) \in {"chosen", "ended"}
      BY <2>2, <2>3 DEF Fighting
    <3>2. ~ready[p].local
      BY <1>0, <2>2, <3>1 DEF Placed, ReadyAt, StageOf, InGame
    <3> QED BY <2>7, <3>1, <3>2 DEF Said, SaidFirst
  <2>10. StopAt(p, x, o)
    BY <1>2, <2>2, <2>3, <2>4, <2>9 DEF StopAt, Fighting
  <2>11. PICK z \in Position : z = x
    BY <2>1
  <2>12. StopAt(p, z, o)'
    BY <1>0, <2>10, <2>11 DEF StopAt
  <2>13. End(p, z, s)'
    BY <1>1, <1>4, <2>2, <2>3, <2>6, <2>11 DEF End
  <2>14. Flows(p)'
    <3>1. Live(q) => Flow(fate, p, z, o, chan[p], At(q), Heard(q), Signaled(q), localOk[q])
      BY <2>7, <2>11 DEF FlowOf
    <3> QED BY <1>0, <1>4, <2>8, <2>11, <2>12, <2>13, <3>1, OutStop
  <2>15. Stopped(q) => met'[p] = met[q] /\ game'[p] = game[q]
    <3>1. StageOf(p) = "chosen" => ~ready[p].local
      BY <1>0, <2>2 DEF Placed, ReadyAt
    <3> QED BY <1>5, <2>2, <3>1, StopsAlike
  <2> QED BY <1>1, <1>2, <1>3, <1>4, <1>5, <2>1, <2>6, <2>14, <2>15, OffStep DEF Pops
<1>6. CASE remoteReset[p] /\ localReset[p] /\ abort[p]
  BY <1>0, <1>1, <1>3, <1>4, <1>6, DoomedStep
<1> QED BY <1>0, <1>5, <1>6, LiveOrDoomed

LEMMA PickAbortedStep ==
  ASSUME IInv, TypeOK', NEW p \in Party, NEW q \in Party, q = Peer(p), Same(q), PickAborted(p)
  PROVE  IInv'
<1>1. TypeOK /\ chan'[p] = chan[p] \o <<>> /\ chan'[q] = chan[q] /\ <<>> \in Seq(PacketType)
  <2>1. TypeOK /\ chan[p] \in Seq(PacketType) /\ chan' = chan
    BY DEF IInv, TypeOK, PickAborted
  <2>2. chan[p] \o <<>> = chan[p]
    BY <2>1
  <2> QED BY <2>1, <2>2, Packets
<1>2. /\ pc[p] = "picking" /\ abort[p] /\ state'[p] = "interBattle" /\ pc'[p] = "resetting"
      /\ localReset' = localReset /\ remoteReset' = remoteReset /\ abort' = abort /\ game' = game
      /\ met' = met /\ seed' = seed /\ peerDelay' = peerDelay /\ fault' = fault
  BY <1>1 DEF PickAborted, Go, reset, progress, TypeOK
<1> QED BY <1>1, <1>2, StopStep

LEMMA AbortBattleStep ==
  ASSUME IInv, TypeOK', NEW p \in Party, NEW q \in Party, q = Peer(p), Same(q), AbortBattle(p)
  PROVE  IInv'
<1>0. TypeOK
  BY DEF IInv
<1>1. /\ pc[p] \in {"battle", "dying"} /\ abort[p] /\ state' = state /\ pc'[p] = "resetting"
      /\ localReset' = localReset /\ remoteReset' = remoteReset /\ abort' = abort /\ game' = game
      /\ met' = met /\ seed' = seed /\ peerDelay' = peerDelay /\ fault' = fault
  BY <1>0 DEF AbortBattle, Go, reset, progress, TypeOK
<1>2. PICK s \in {<<>>, <<"BATTLEINPUT">>} : Send(p, s)
  BY DEF AbortBattle
<1>3. chan'[p] = chan[p] \o s /\ chan'[q] = chan[q] /\ s \in Seq(PacketType)
  BY <1>0, <1>2, Packets, Sends
<1>4. state[p] # "inSetup"
  BY <1>1, InGameActive DEF Placed, InGame
<1> QED BY <1>1, <1>2, <1>3, <1>4, StopStep

(* A side that is out of the game keeps what it has said.                  *)
LEMMA AsideStep ==
  ASSUME IInv, TypeOK', NEW p \in Party, NEW q \in Party, q = Peer(p), Same(q),
         ~Live(p), ~Active(p)', localReset'[p] = localReset[p], remoteReset'[p] = remoteReset[p],
         state'[p] = state[p], game'[p] = game[p], met'[p] = met[p], pc'[p] \in {pc[p], "left"},
         Faultless(p)', chan'[p] = chan[p], Pops(q),
         ~(Asked(q) /\ Told(p)) \/ chan'[q] = chan[q]
  PROVE  IInv'
<1>1. /\ Peer(q) = p /\ Resets(p) /\ Resets(q) /\ Outgoing(p) /\ Outgoing(q) /\ TypeOK
      /\ fate' = fate
  BY PeerFacts DEF IInv, Same
<1>2. /\ (Quit(p)' <=> Quit(p)) /\ (Asked(p)' <=> Asked(p)) /\ (Told(p)' <=> Told(p))
      /\ (Stopped(p)' => Stopped(p)) /\ ~Live(p)' /\ (MidGame(p)' <=> MidGame(p))
  BY <1>1 DEF Quit, Asked, Told, Stopped, Live, MidGame
<1>3. Asked(p)' = Asked(p)
  BY <1>1 DEF Asked, Quit
<1>4. /\ (Asked(q)' <=> Asked(q)) /\ (Told(q)' <=> Told(q)) /\ (Stopped(q)' <=> Stopped(q))
      /\ (Quit(q)' <=> Quit(q)) /\ remoteReset'[q] = remoteReset[q] /\ met'[q] = met[q]
      /\ game'[q] = game[q]
  BY SameMeans DEF Same
<1>5. Flows(p)'
  BY <1>2, <1>3, OutKeep
<1>6. Flows(q)' /\ Placed(p)'
  BY <1>1, <1>2 DEF Flows, Placed
<1>7. Outgoing(q)'
  BY <1>1, <1>2, OutgoingPops
<1>8. Outgoing(p)'
  <2>1. \A s : Late(s, q)' <=> Late(s, q)
    BY <1>4 DEF Late, NoResetIn
  <2>2. NoResetIn(chan[p])' <=> NoResetIn(chan[p])
    BY DEF NoResetIn
  <2>3. Late(chan[p], q)' <=> Late(chan[p], q)
    BY <1>4, <2>2 DEF Late
  <2>4. \A b : NoResetIn(b)' <=> NoResetIn(b)
    BY DEF NoResetIn
  <2> QED BY <1>1, <1>2, <1>4, <2>1, <2>2, <2>3, <2>4 DEF Outgoing
<1>9. Resets(q)'
  BY <1>1, <1>2, ResetsOther DEF Resets
<1>10. Resets(p)'
  BY <1>1, <1>2, <1>4 DEF Resets
<1>11. Placed(q)' /\ Faultless(q)'
  BY SamePlaced, SameMeans DEF IInv
<1>12. Len(fate') >= 1
  BY <1>1 DEF IInv
<1> QED BY <1>5, <1>6, <1>7, <1>8, <1>9, <1>10, <1>11, <1>12, PeerFacts DEF IInv

LEMMA HeardWord ==
  ASSUME TypeOK, NEW p \in Party, Active(p), Placed(p)
  PROVE  Heard(p) \in Seq(PacketType)
<1>1. At(p) \in Position /\ Peer(p) \in Party /\ fate \in Seq(Party)
  BY AtPosition, PeerFacts DEF TypeOK
<1>2. HeardFirst(p) \in Seq(PacketType)
  BY <1>1, HeardIsOpening, OpeningShort, Packets
<1> QED BY <1>1, <1>2, Words DEF Heard

(* A side that nobody resets hears a RESET, or the last input before it,   *)
(* from a side that stopped.                                               *)
LEMMA HearsEnd ==
  ASSUME IInv, NEW p \in Party, NEW q \in Party, q = Peer(p), Live(p), chan[q] # <<>>,
         Head(chan[q]) \in {"BATTLEINPUT", "RESET"}
  PROVE  /\ met[p] = met[q] /\ game[p] = game[q] /\ game[p] > 0
         /\ met[p] # 0 /\ met[p] # 5 * Len(fate) + 2
         /\ StageOf(p) \in {"chosen", "fight", "over"} \cup Fighting
         /\ ready[p].remote => StageOf(p) = "toEnd"
         /\ Head(chan[q]) = "BATTLEINPUT" => StageOf(p) \in Fighting
         /\ Head(chan[q]) = "RESET" => Asked(q) /\ Tail(chan[q]) = <<>>
<1>0. /\ Active(p) /\ Placed(p) /\ TypeOK /\ fate \in Seq(Party) /\ Peer(q) = p
      /\ At(p) \in Position /\ Len(fate) \in Nat
  <2>1. Active(p) /\ Placed(p) /\ TypeOK /\ Peer(q) = p
    BY PeerFacts DEF IInv, Live
  <2>2. fate \in Seq(Party)
    BY <2>1 DEF TypeOK
  <2> QED BY <2>1, <2>2, AtPosition
<1>1. PICK x \in Position, body \in Seq(PacketType), end \in Seq(PacketType) :
        \E o \in Parts(fate, q, x) :
           /\ Stream(q, x, o, body, end)
           /\ Flow(fate, q, x, o, body, At(p), Heard(p), Signaled(p), localOk[p])
           /\ \/ body # <<>> /\ Head(chan[q]) = Head(body) /\ Tail(chan[q]) = Tail(body) \o end
              \/ body = <<>> /\ end # <<>> /\ chan[q] = end
  BY Incomes
<1>2. PICK o \in Parts(fate, q, x) :
           /\ Stream(q, x, o, body, end)
           /\ Flow(fate, q, x, o, body, At(p), Heard(p), Signaled(p), localOk[p])
           /\ \/ body # <<>> /\ Head(chan[q]) = Head(body) /\ Tail(chan[q]) = Tail(body) \o end
              \/ body = <<>> /\ end # <<>> /\ chan[q] = end
  BY <1>1
<1>3. body = <<>> /\ end # <<>> /\ chan[q] = end
  <2>1. Heard(p) \in Seq(PacketType)
    BY <1>0, HeardWord
  <2> SUFFICES ASSUME body # <<>> PROVE FALSE
    BY <1>2
  <2>2. Head(body) = body[1] /\ 1 \in 1 .. Len(body)
    OBVIOUS
  <2>3. body[1] \notin {"BATTLEINPUT", "RESET"}
    BY <1>0, <1>2, <2>1, <2>2, BodyLetters
  <2> QED BY <1>2, <2>2, <2>3
<1>4. StopAt(q, x, o) /\ End(q, x, end)
  BY <1>2, <1>3 DEF Stream
<1>5. /\ met[p] = met[q] /\ game[p] = game[q]
      /\ StageOf(p) \in {"chosen", "fight", "over"} \cup Fighting
  BY <1>2, <1>3, <1>4, StopTogether
<1>6. met[q] = MetAt(x) /\ met[p] = MetAt(At(p)) /\ x.turn \in Nat /\ At(p).turn \in Nat
      /\ At(p).stage = StageOf(p)
  BY <1>0, <1>4, <1>5, MetHere DEF StopAt, Position
<1>7. met[p] # 0 /\ met[p] # 5 * Len(fate) + 2
  BY <1>0, <1>4, <1>5, <1>6 DEF StopAt, MetAt, Fighting
<1>8. /\ Head(chan[q]) = "BATTLEINPUT" => x.stage \in Fighting
      /\ Head(chan[q]) = "RESET" => Asked(q) /\ Tail(chan[q]) = <<>>
  BY <1>3, <1>4, Endings
<1>9. Head(chan[q]) = "BATTLEINPUT" => StageOf(p) \in Fighting
  <2>1. \A a, b \in Nat : 5 * a + 4 # 5 * b + 1 /\ 5 * a + 4 # 5 * b + 2 /\ 5 * a + 4 # 5 * b + 3
    OBVIOUS
  <2>2. x.stage \in Fighting => MetAt(x) = 5 * x.turn + 4
    BY DEF MetAt, Fighting
  <2>3. StageOf(p) \notin Fighting =>
          MetAt(At(p)) \in {5 * At(p).turn + 1, 5 * At(p).turn + 2, 5 * At(p).turn + 3}
    BY <1>5, <1>6 DEF MetAt
  <2> QED BY <1>5, <1>6, <1>8, <2>1, <2>2, <2>3
<1>10. ASSUME ready[p].remote PROVE StageOf(p) = "toEnd"
  <2>1. Heard(p) = Whole(fate, q, At(p)) /\ Heard(p) # <<>>
    BY <1>0, <1>10, Words DEF Heard
  <2>2. ~ready[p].local
    BY <1>0, <1>10 DEF Placed, ReadyAt
  <2>3. ~Signaled(p)
    BY <1>5, <2>2 DEF Signaled, Fighting
  <2>4. x = At(p) /\ Heard(p) \o body = o
    BY <1>2, <2>1, <2>3 DEF Flow
  <2>5. o = Whole(fate, q, x)
    <3>1. Heard(p) \o <<>> = Heard(p)
      BY <1>0, HeardWord
    <3> QED BY <1>3, <2>1, <2>4, <3>1
  <2>6. StageOf(p) \in {"toEnd", "toEnd2"}
    BY <1>0, <1>4, <1>5, <1>6, <2>4, <2>5, StopShort DEF StopAt, Fighting
  <2>7. StageOf(p) # "toEnd2"
    BY <1>0, <2>2 DEF Placed, ReadyAt, StageOf, TypeOK, Place, Meeting
  <2> QED BY <2>6, <2>7
<1>11. game[p] > 0
  BY <1>0, <1>5 DEF Placed, InMenu, StageOf, Fighting
<1> QED BY <1>5, <1>7, <1>8, <1>9, <1>10, <1>11

LEMMA HandleResetLive ==
  ASSUME IInv, TypeOK', NEW p \in Party, NEW q \in Party, q = Peer(p), Same(q), Live(p),
         HandleReset(p)
  PROVE  IInv'
<1>0. /\ Active(p) /\ Placed(p) /\ Resets(p) /\ Resets(q) /\ Outgoing(p) /\ Outgoing(q) /\ TypeOK
      /\ Peer(q) = p /\ fate' = fate /\ chan[p] \in Seq(PacketType)
      /\ ~localReset[p] /\ ~remoteReset[p] /\ ~Asked(p) /\ ~Told(p)
  BY PeerFacts DEF IInv, Live, Same, TypeOK, Resets, Asked, Told, Active
<1>1. chan[q] # <<>> /\ Head(chan[q]) = "RESET" /\ pc[p] # "resetWait" /\ Answer(p, <<"RESET">>)
  BY <1>0 DEF HandleReset, Polls, Incoming, Active
<1>2. /\ met[p] = met[q] /\ game[p] = game[q] /\ game[p] > 0
      /\ met[p] # 0 /\ met[p] # 5 * Len(fate) + 2
      /\ StageOf(p) \in {"chosen", "fight", "over"} \cup Fighting
      /\ (ready[p].remote => StageOf(p) = "toEnd")
      /\ Asked(q) /\ Tail(chan[q]) = <<>>
  BY <1>1, HearsEnd
<1>3. chan'[p] = chan[p] \o <<"RESET">> /\ chan'[q] = <<>>
  BY <1>0, <1>1, <1>2, Packets, Answers
<1>4. state[p] # "inSetup"
  BY <1>0, <1>2 DEF StageOf, Fighting, Placed, InMenu, InGame, TypeOK, Place, Meeting
<1>5. /\ remoteReset'[p] /\ localReset'[p] /\ abort'[p] /\ pc' = pc /\ state' = state
      /\ waiting' = waiting /\ localOk' = localOk /\ remoteOk' = remoteOk /\ ready' = ready
      /\ met' = met /\ game' = game /\ deaths' = deaths /\ picked' = picked /\ seed' = seed
      /\ peerDelay' = peerDelay /\ fault' = fault
  BY <1>0, <1>1, <1>4 DEF HandleReset, handshake, progress, TypeOK
<1>6. /\ Asked(p)' /\ Told(p)' /\ ~Live(p)' /\ ~Quit(p)' /\ Stopped(p)' /\ MidGame(p)'
      /\ Active(p)' /\ StageOf(p)' = StageOf(p)
  BY <1>0, <1>2, <1>5 DEF Asked, Told, Live, Quit, Stopped, MidGame, Active, StageOf
<1>7. /\ (Asked(q)' <=> Asked(q)) /\ (Told(q)' <=> Told(q)) /\ (Stopped(q)' <=> Stopped(q))
      /\ (Live(q)' <=> Live(q)) /\ met'[q] = met[q] /\ game'[q] = game[q]
      /\ remoteReset'[q] = remoteReset[q]
  BY SameMeans DEF Same
<1>8. ~Told(q) /\ ~remoteReset[q] /\ ~Live(q)
  BY <1>0, <1>2 DEF Resets, Told, Live, Asked, Active
<1>9. Placed(p)'
  <2>1. InMenu(p)'
    BY <1>0, <1>2, <1>5 DEF Placed, InMenu, StageOf, Fighting
  <2>2. InGame(p)' /\ ReadyAt(p)'
    BY <1>0, <1>5, <1>6 DEF Placed, InGame, ReadyAt, Selecting
  <2>3. Informed(p)'
    BY <1>0, <1>2, <1>5, <1>6 DEF Placed, Informed, Fighting
  <2> QED BY <2>1, <2>2, <2>3 DEF Placed
<1>10. Flows(p)' /\ Flows(q)'
  BY <1>0, <1>6, <1>7, <1>8 DEF Flows
<1>11. Outgoing(p)'
  <2>1. NoResetIn(chan[p]) /\ Late(<<>>, q)'
    BY <1>0, Len(<<>>) = 0 DEF Outgoing, Late, NoResetIn
  <2>2. NoResetIn(chan[p])' <=> NoResetIn(chan'[p])
    BY DEF NoResetIn
  <2>3. chan[p] \o <<"RESET">> \in Seq(PacketType)
    BY <1>0, Packets
  <2>4. chan'[p] = chan[p] \o <<"RESET">> \o <<>>
    BY <1>3, <2>3
  <2>5. \E before, after \in Seq(PacketType) :
          /\ chan'[p] = before \o <<"RESET">> \o after
          /\ NoResetIn(before) /\ Late(after, q)'
    BY <1>0, <2>1, <2>4, Packets
  <2> QED BY <1>6, <1>7, <1>8, <2>5 DEF Outgoing, NoResetIn
<1>12. Outgoing(q)'
  <2>1. Late(chan[q], p)'
    BY <1>3, Len(<<>>) = 0 DEF Late, NoResetIn
  <2> QED BY <1>0, <1>2, <1>6, <1>7, <2>1 DEF Outgoing
<1>13. Resets(p)'
  BY <1>0, <1>2, <1>5, <1>6, <1>7, <1>8 DEF Resets, Active
<1>14. Resets(q)'
  BY <1>0, <1>2, <1>5, <1>6, <1>8, ResetsOther
<1>15. Faultless(p)'
  BY <1>0, <1>5 DEF IInv, Faultless
<1>16. Placed(q)' /\ Faultless(q)'
  BY SamePlaced, SameMeans DEF IInv
<1>17. Len(fate') >= 1
  BY <1>0 DEF IInv
<1> QED BY <1>9, <1>10, <1>11, <1>12, <1>13, <1>14, <1>15, <1>16, <1>17, PeerFacts DEF IInv

(* The side is back in the menu when both have asked for the reset.        *)
LEMMA BackStep ==
  ASSUME IInv, TypeOK', NEW p \in Party, NEW q \in Party, q = Peer(p), Same(q),
         localReset[p], pc[p] \in {"resetting", "resetWait"}, BackToMenu(p),
         game' = game, met' = met, fault' = fault, chan'[p] = chan[p],
         \/ remoteReset[p] /\ chan'[q] = chan[q]
         \/ /\ ~remoteReset[p] /\ chan[q] # <<>> /\ Head(chan[q]) = "RESET"
            /\ chan'[q] = Tail(chan[q])
  PROVE  IInv'
<1>0. /\ Resets(p) /\ Resets(q) /\ Outgoing(p) /\ Outgoing(q) /\ TypeOK
      /\ Peer(q) = p /\ fate' = fate /\ chan[q] \in Seq(PacketType)
  BY PeerFacts DEF IInv, Same, TypeOK
<1>1. /\ pc'[p] = "menu" /\ state'[p] = "inSetup" /\ ~localReset'[p] /\ ~remoteReset'[p]
      /\ ~abort'[p]
  BY <1>0 DEF BackToMenu, Go, TypeOK
<1>2. MidGame(p) /\ Asked(p) /\ Stopped(p) /\ ~Quit(p)
  BY <1>0 DEF Resets, Asked, Stopped
<1>3. /\ Quit(p)' /\ Asked(p)' /\ Told(p)' /\ Stopped(p)' /\ ~Live(p)' /\ ~Active(p)'
      /\ MidGame(p)'
  BY <1>0, <1>1, <1>2 DEF MidGame, Quit, Asked, Told, Stopped, Live, Active
<1>4. /\ (Asked(q)' <=> Asked(q)) /\ (Told(q)' <=> Told(q)) /\ (Stopped(q)' <=> Stopped(q))
      /\ (Live(q)' <=> Live(q)) /\ met'[q] = met[q] /\ game'[q] = game[q]
      /\ remoteReset'[q] = remoteReset[q]
  BY SameMeans DEF Same
<1>5. Asked(q) /\ ~Live(q)
  <2>1. Asked(q)
    <3>1. CASE remoteReset[p]
      BY <1>0, <3>1 DEF Resets, Told
    <3>2. CASE ~remoteReset[p]
      <4>1. ~NoResetIn(chan[q])
        BY <1>0, <3>2, NoResetJoin
      <4> QED BY <1>0, <4>1 DEF Outgoing
    <3> QED BY <3>1, <3>2
  <2> QED BY <2>1 DEF Asked, Live, Active
<1>6. Outgoing(p)'
  <2>1. \A b : NoResetIn(b)' <=> NoResetIn(b)
    BY DEF NoResetIn
  <2>2. \A s : Late(s, q)' <=> Late(s, q)
    BY <1>4 DEF Late, NoResetIn
  <2>3. NoResetIn(chan[p])' <=> NoResetIn(chan[p])
    BY DEF NoResetIn
  <2>4. Late(chan[p], q)' <=> Late(chan[p], q)
    BY <1>4, <2>3 DEF Late
  <2> QED BY <1>0, <1>2, <1>3, <1>4, <2>1, <2>2, <2>3, <2>4 DEF Outgoing
<1>7. Outgoing(q)'
  <2>1. CASE remoteReset[p] /\ chan'[q] = chan[q]
    <3>1. Late(chan[q], p)
      BY <1>0, <1>5, <2>1 DEF Outgoing, Told
    <3>2. Late(chan[q], p)'
      BY <1>1, <1>3, <2>1, <3>1 DEF Late, NoResetIn
    <3> QED BY <1>0, <1>3, <1>4, <1>5, <3>2 DEF Outgoing
  <2>2. CASE /\ ~remoteReset[p] /\ chan[q] # <<>> /\ Head(chan[q]) = "RESET"
             /\ chan'[q] = Tail(chan[q])
    <3>1. ~Told(p)
      BY <1>2, <2>2 DEF Told
    <3>2. PICK before \in Seq(PacketType), after \in Seq(PacketType) :
             /\ chan[q] = before \o <<"RESET">> \o after
             /\ NoResetIn(before) /\ Late(after, p)
      BY <1>0, <1>5, <3>1 DEF Outgoing
    <3>3. before = <<>>
      <4>1. before # <<>> => Head(before) # "RESET"
        BY <3>2, NoResetJoin
      <4>2. before # <<>> => Head(before \o (<<"RESET">> \o after)) = Head(before)
        BY Packets
      <4>3. before \o (<<"RESET">> \o after) = chan[q]
        BY <3>2, Packets, JoinThree, SMTT(30)
      <4> QED BY <2>2, <4>1, <4>2, <4>3
    <3>4. chan[q] = <<"RESET">> \o after
      BY <3>2, <3>3, Packets
    <3>5. Tail(chan[q]) = after
      BY <3>4, Packets
    <3>6. Late(chan[q], p)'
      BY <1>1, <1>3, <2>2, <3>2, <3>5 DEF Late, NoResetIn
    <3> QED BY <1>0, <1>3, <1>4, <1>5, <3>6 DEF Outgoing
  <2> QED BY <2>1, <2>2
<1>8. Flows(p)' /\ Flows(q)'
  BY <1>0, <1>3, <1>4, <1>5 DEF Flows
<1>9. Resets(p)'
  BY <1>0, <1>1, <1>2, <1>3, <1>4, <1>5 DEF Resets
<1>10. Resets(q)'
  BY <1>0, <1>1, <1>2, <1>3, ResetsOther DEF Resets
<1>11. Faultless(p)' /\ Placed(p)'
  <2>1. fault[p] = "none"
    BY DEF IInv, Faultless
  <2> QED BY <1>1, <1>3, <2>1 DEF Faultless, Placed, PacketType
<1>12. Placed(q)' /\ Faultless(q)'
  BY SamePlaced, SameMeans DEF IInv
<1>13. Len(fate') >= 1
  BY <1>0 DEF IInv
<1> QED BY <1>6, <1>7, <1>8, <1>9, <1>10, <1>11, <1>12, <1>13, PeerFacts DEF IInv

LEMMA HandleResetStep ==
  ASSUME IInv, TypeOK', NEW p \in Party, NEW q \in Party, q = Peer(p), Same(q), HandleReset(p)
  PROVE  IInv'
<1>0. /\ Resets(p) /\ Outgoing(q) /\ TypeOK /\ Peer(q) = p /\ chan[p] \in Seq(PacketType)
      /\ chan[q] \in Seq(PacketType)
  BY PeerFacts DEF IInv, TypeOK
<1>1. /\ pc[p] \notin {"resetting", "left"} /\ chan[q] # <<>> /\ Head(chan[q]) = "RESET"
      /\ ~remoteReset[p]
  BY DEF HandleReset, Polls, Incoming
<1>2. CASE pc[p] = "resetWait"
  <2>1. localReset[p]
    BY <1>0, <1>2 DEF Resets
  <2>2. /\ Answer(p, <<>>) /\ BackToMenu(p) /\ game' = game /\ met' = met /\ fault' = fault
    BY <1>2, <2>1 DEF HandleReset, progress
  <2>3. chan'[p] = chan[p] /\ chan'[q] = Tail(chan[q])
    <3>1. chan[p] \o <<>> = chan[p]
      BY <1>0
    <3> QED BY <1>0, <1>1, <2>2, <3>1, Packets, Answers
  <2> QED BY <1>1, <1>2, <2>1, <2>2, <2>3, BackStep
<1>3. CASE pc[p] # "resetWait"
  <2>1. ~localReset[p]
    BY <1>0, <1>1, <1>3 DEF Resets
  <2>2. ~Quit(p)
    <3>1. SUFFICES ASSUME Quit(p) PROVE FALSE
      OBVIOUS
    <3>2. Late(chan[q], p)
      BY <1>0, <3>1 DEF Resets, Told, Outgoing
    <3> QED BY <1>0, <1>1, <3>2, NoResetJoin DEF Late
  <2>3. Live(p)
    BY <1>1, <1>3, <2>1, <2>2 DEF Live, Active
  <2> QED BY <2>3, HandleResetLive
<1> QED BY <1>2, <1>3

(* The side asks for a reset.                                              *)
LEMMA AskStep ==
  ASSUME IInv, TypeOK', NEW p \in Party, NEW q \in Party, q = Peer(p), Same(q),
         pc[p] = "resetting", ~remoteReset[p], WaitReset(p)
  PROVE  IInv'
<1>0. /\ Resets(p) /\ Resets(q) /\ Outgoing(p) /\ Outgoing(q) /\ TypeOK
      /\ Peer(q) = p /\ fate' = fate /\ chan[p] \in Seq(PacketType)
  BY PeerFacts DEF IInv, Same, TypeOK
<1>1. /\ ~localReset[p] /\ ~Quit(p) /\ MidGame(p) /\ state[p] # "inSetup" /\ ~Asked(p) /\ ~Told(p)
      /\ Stopped(p)
  BY <1>0 DEF Resets, Asked, Told, Stopped
<1>2. /\ localReset'[p] /\ Send(p, <<"RESET">>) /\ pc'[p] = "resetWait"
      /\ remoteReset' = remoteReset /\ state' = state /\ abort' = abort /\ waiting' = waiting
      /\ localOk' = localOk /\ remoteOk' = remoteOk /\ ready' = ready /\ met' = met
      /\ game' = game /\ seed' = seed /\ peerDelay' = peerDelay /\ fault' = fault
  BY <1>0 DEF WaitReset, Go, handshake, progress, TypeOK
<1>3. chan'[p] = chan[p] \o <<"RESET">> /\ chan'[q] = chan[q]
  BY <1>0, <1>2, Packets, Sends
<1>4. /\ ~Quit(p)' /\ Asked(p)' /\ ~Told(p)' /\ Stopped(p)' /\ ~Live(p)' /\ ~Active(p)'
      /\ MidGame(p)'
  BY <1>0, <1>1, <1>2 DEF MidGame, Quit, Asked, Told, Stopped, Live, Active
<1>5. /\ (Asked(q)' <=> Asked(q)) /\ (Told(q)' <=> Told(q)) /\ (Stopped(q)' <=> Stopped(q))
      /\ (Live(q)' <=> Live(q)) /\ met'[q] = met[q] /\ game'[q] = game[q]
      /\ remoteReset'[q] = remoteReset[q]
  BY SameMeans DEF Same
<1>6. ~Told(q)
  BY <1>0, <1>1 DEF Resets
<1>7. Outgoing(p)'
  <2>1. NoResetIn(chan[p]) /\ Late(<<>>, q)'
    BY <1>0, <1>1, Len(<<>>) = 0 DEF Outgoing, Late, NoResetIn
  <2>2. chan[p] \o <<"RESET">> \in Seq(PacketType)
    BY <1>0, Packets
  <2>3. chan'[p] = chan[p] \o <<"RESET">> \o <<>>
    BY <1>3, <2>2
  <2>4. \E before, after \in Seq(PacketType) :
          /\ chan'[p] = before \o <<"RESET">> \o after
          /\ NoResetIn(before) /\ Late(after, q)'
    BY <1>0, <2>1, <2>3, Packets
  <2> QED BY <1>4, <1>5, <1>6, <2>4 DEF Outgoing, NoResetIn
<1>8. Outgoing(q)'
  <2>1. \A b : NoResetIn(b)' <=> NoResetIn(b)
    BY DEF NoResetIn
  <2>2. \A s : Late(s, p) => Late(s, p)'
    BY <1>2, <1>4 DEF Late, NoResetIn
  <2>3. NoResetIn(chan[q])' <=> NoResetIn(chan[q])
    BY <1>3 DEF NoResetIn
  <2> QED BY <1>0, <1>1, <1>3, <1>4, <1>5, <2>1, <2>2, <2>3 DEF Outgoing
<1>9. Flows(q)'
  BY <1>0, <1>4 DEF Flows
<1>10. Flows(p)'
  <2>1. SUFFICES ASSUME Live(q) PROVE Flows(p)'
    BY <1>5 DEF Flows
  <2>2. PICK x \in Position, body \in Seq(PacketType), end \in Seq(PacketType) :
          \E o \in Parts(fate, p, x) : Stream(p, x, o, body, end)
    BY <2>1 DEF IInv, Flows
  <2>3. PICK o \in Parts(fate, p, x) : Stream(p, x, o, body, end)
    BY <2>2
  <2>4. /\ chan[p] = body \o end /\ StopAt(p, x, o)
        /\ end = <<>> \/ (end = <<"BATTLEINPUT">> /\ x.stage \in Fighting)
        /\ Flow(fate, p, x, o, body, At(q), Heard(q), Signaled(q), localOk[q])
    BY <1>1, <2>3 DEF Stream, FlowOf, End
  <2>5. end \o <<"RESET">> \in Seq(PacketType) /\ chan'[p] = body \o (end \o <<"RESET">>)
    BY <1>3, <2>4, Packets, JoinThree
  <2>6. End(p, x, end \o <<"RESET">>)'
    <3>1. \/ end \o <<"RESET">> = <<"RESET">>
          \/ end \o <<"RESET">> = <<"BATTLEINPUT", "RESET">> /\ x.stage \in Fighting
      BY <2>4, Tuples, ZenonT(40) DEF PacketType
    <3> QED BY <1>4, <3>1 DEF End
  <2>7. StopAt(p, x, o)'
    BY <1>0, <1>2, <2>4 DEF StopAt
  <2> QED BY <1>4, <2>4, <2>5, <2>6, <2>7, OutStop
<1>11. Resets(p)'
  BY <1>0, <1>1, <1>2, <1>4, <1>5 DEF Resets
<1>12. Resets(q)'
  BY <1>0, <1>1, <1>2, <1>4, ResetsOther DEF Resets
<1>13. Faultless(p)' /\ Placed(p)'
  BY <1>0, <1>2, <1>4 DEF IInv, Faultless, Placed
<1>14. Placed(q)' /\ Faultless(q)'
  BY SamePlaced, SameMeans DEF IInv
<1>15. Len(fate') >= 1
  BY <1>0 DEF IInv
<1> QED BY <1>7, <1>8, <1>9, <1>10, <1>11, <1>12, <1>13, <1>14, <1>15, PeerFacts DEF IInv

LEMMA WaitResetStep ==
  ASSUME IInv, TypeOK', NEW p \in Party, NEW q \in Party, q = Peer(p), Same(q), WaitReset(p)
  PROVE  IInv'
<1>1. pc[p] = "resetting" /\ Resets(p)
  BY DEF WaitReset, IInv
<1>2. CASE remoteReset[p]
  <2>1. localReset[p] /\ BackToMenu(p) /\ chan' = chan /\ game' = game /\ met' = met
        /\ fault' = fault
    BY <1>1, <1>2 DEF WaitReset, Resets, progress
  <2> QED BY <1>1, <1>2, <2>1, BackStep
<1> QED BY <1>1, <1>2, AskStep

LEMMA DropPacketStep ==
  ASSUME IInv, TypeOK', NEW p \in Party, NEW q \in Party, q = Peer(p), Same(q), DropPacket(p)
  PROVE  IInv'
<1>0. /\ Resets(p) /\ Outgoing(q) /\ TypeOK /\ Peer(q) = p /\ chan[p] \in Seq(PacketType)
  BY PeerFacts DEF IInv, TypeOK
<1>1. /\ pc[p] \notin {"resetting", "left"} /\ chan[q] # <<>> /\ Head(chan[q]) # "RESET"
      /\ localReset[p] /\ Answer(p, <<>>)
      /\ pc' = pc /\ waiting' = waiting /\ state' = state /\ localReset' = localReset
      /\ remoteReset' = remoteReset /\ abort' = abort /\ met' = met /\ game' = game
      /\ seed' = seed /\ peerDelay' = peerDelay /\ fault' = fault
  BY DEF DropPacket, Polls, Incoming, reset, progress
<1>2. chan'[p] = chan[p] /\ chan'[q] = Tail(chan[q])
  <2>1. chan[p] \o <<>> = chan[p]
    BY <1>0
  <2> QED BY <1>0, <1>1, <2>1, Packets, Answers
<1>3. ~remoteReset[p]
  <2>1. SUFFICES ASSUME remoteReset[p] PROVE FALSE
    OBVIOUS
  <2>2. Late(chan[q], p)
    BY <1>0, <2>1 DEF Resets, Told, Outgoing
  <2> QED BY <1>1, <2>1, <2>2 DEF Late
<1>4. pc[p] = "resetWait" /\ ~Quit(p) /\ ~Told(p)
  BY <1>0, <1>1, <1>3 DEF Resets, Told
<1>5. ~Live(p) /\ ~Active(p)'
  BY <1>1, <1>4 DEF Live, Active
<1>6. Faultless(p)'
  BY <1>0, <1>1 DEF IInv, Faultless
<1> QED BY <1>1, <1>2, <1>4, <1>5, <1>6, AsideStep DEF Pops

LEMMA LoseStep ==
  ASSUME IInv, TypeOK', NEW p \in Party, NEW q \in Party, q = Peer(p), Same(q), Lose(p)
  PROVE  IInv'
<1>0. /\ Resets(p) /\ Placed(p) /\ TypeOK /\ chan[p] \in Seq(PacketType)
  BY DEF IInv, TypeOK
<1>1. /\ pc'[p] = "left" /\ waiting' = waiting /\ state' = state /\ localReset' = localReset
      /\ remoteReset' = remoteReset /\ abort' = abort /\ met' = met /\ game' = game
      /\ seed' = seed /\ peerDelay' = peerDelay /\ fault' = fault /\ chan' = chan
      /\ fate' = fate
  BY <1>0 DEF Lose, Go, reset, progress, TypeOK
<1>2. ~Active(p)' /\ ~Live(p)' /\ Faultless(p)'
  BY <1>0, <1>1 DEF Live, Active, IInv, Faultless
<1>3. CASE Live(p)
  <2>1. /\ ~localReset'[p] /\ ~remoteReset'[p] /\ ~Quit(p)' /\ ~Stopped(p)'
        /\ (Asked(p)' <=> Asked(p))
    BY <1>0, <1>1, <1>3 DEF Live, Active, Quit, Resets, Stopped, Asked
  <2>2. Asked(p)' = Asked(p)
    BY <1>1 DEF Asked, Quit
  <2>3. Flows(p)'
    BY <1>1, <1>2, <2>1, <2>2, OutKeep
  <2>4. state'[p] \notin {"inSetup", "preBattle"} => seed'[p] = game'[p] /\ peerDelay'[p] = game'[p]
    BY <1>0, <1>1, <1>3, KnowsBoth DEF Live
  <2>5. chan'[p] = chan[p] \o <<>> /\ NoResetIn(<<>>)
    BY <1>0, <1>1, Len(<<>>) = 0 DEF NoResetIn
  <2> QED BY <1>1, <1>2, <1>3, <2>1, <2>3, <2>4, <2>5, Packets, OffStep DEF Pops
<1>4. CASE ~Live(p)
  BY <1>1, <1>2, <1>4, AsideStep DEF Pops
<1> QED BY <1>3, <1>4

LEMMA ExitActive ==
  ASSUME IInv, TypeOK', NEW p \in Party, NEW q \in Party, q = Peer(p), Same(q),
         Active(p), Exit(p)
  PROVE  IInv'
<1>0. TypeOK /\ Placed(p) /\ Resets(p)
  BY DEF IInv
<1>1. /\ pc' = pc /\ waiting' = waiting /\ state' = state /\ localOk' = localOk
      /\ remoteOk' = remoteOk /\ ready' = ready /\ localReset' = localReset
      /\ remoteReset' = remoteReset /\ met' = met /\ fate' = fate /\ game' = game
      /\ deaths' = deaths /\ picked' = picked /\ seed' = seed /\ peerDelay' = peerDelay
      /\ chan' = chan /\ fault' = fault
  BY DEF Exit, handshake, reset, progress
<1>2. pc[p] \notin {"menu", "confirming"}
  BY <1>0 DEF Exit, Placed, InMenu, Resting
<1>3. Placed(p)'
  <2>1. InGame(p)' /\ ReadyAt(p)' /\ Informed(p)'
    BY <1>0, <1>1 DEF Placed, InGame, ReadyAt, Informed, StageOf, Round, Selecting
  <2>2. InMenu(p)'
    BY <1>0, <1>1, <1>2 DEF Placed, InMenu
  <2> QED BY <2>1, <2>2 DEF Placed
<1>4. /\ At(p)' = At(p) /\ Heard(p)' = Heard(p) /\ Signaled(p)' = Signaled(p)
      /\ Said(p)' = Said(p) /\ localOk'[p] = localOk[p]
      /\ (Live(p)' <=> Live(p)) /\ (Active(p)' <=> Active(p)) /\ StageOf(p)' = StageOf(p)
  BY <1>1 DEF At, Round, Turn, StageOf, Heard, HeardFirst, Signaled, Said, SaidFirst, Live, Active, Quit
<1>6. chan'[p] = chan[p] \o <<>> /\ chan'[q] = chan[q] /\ <<>> \in Seq(PacketType) /\ NoResetIn(<<>>)
  BY <1>0, <1>1, Packets, Join DEF TypeOK, NoResetIn
<1>7. CASE Live(p)
  <2>1. Flows(q)'
    BY <1>4, <1>6, <1>7, InStay
  <2>2. Flows(p)'
    BY <1>3, <1>4, <1>6, <1>7, OutStay
  <2> QED BY <1>1, <1>3, <1>4, <1>6, <1>7, <2>1, <2>2, Step DEF Pops
<1>8. CASE remoteReset[p] /\ localReset[p]
  <2>1. abort'[p] /\ (ready'[p].remote => StageOf(p)' = "toEnd")
    BY <1>0, <1>1, <1>4, <1>8 DEF Exit, TypeOK, Resets
  <2> QED BY <1>1, <1>3, <1>4, <1>6, <1>8, <2>1, DoomedStep
<1> QED BY <1>7, <1>8, LiveOrDoomed

LEMMA ExitStep ==
  ASSUME IInv, TypeOK', NEW p \in Party, NEW q \in Party, q = Peer(p), Same(q), Exit(p)
  PROVE  IInv'
<1>1. /\ pc' = pc /\ waiting' = waiting /\ state' = state /\ localReset' = localReset
      /\ remoteReset' = remoteReset /\ met' = met /\ game' = game
      /\ seed' = seed /\ peerDelay' = peerDelay /\ fault' = fault /\ chan' = chan
  BY DEF Exit, reset, progress
<1>2. CASE ~Active(p)
  <2>1. ~Live(p) /\ ~Active(p)' /\ Faultless(p)'
    BY <1>1, <1>2 DEF Live, Active, Quit, IInv, Faultless, Same
  <2> QED BY <1>1, <2>1, AsideStep DEF Pops
<1> QED BY <1>2, ExitActive

-----------------------------------------------------------------------------
(* A packet is refused only by a side that is back in the menu.            *)

LEMMA LiveAccepts ==
  ASSUME IInv, NEW p \in Party, NEW q \in Party, q = Peer(p), Live(p), chan[q] # <<>>
  PROVE  Acceptable(p, Head(chan[q]))
<1> DEFINE t == Head(chan[q])
<1>0. /\ Active(p) /\ Placed(p) /\ Resets(p) /\ TypeOK /\ Peer(q) = p /\ p # q
      /\ ~localReset[p] /\ ~remoteReset[p]
  BY PeerFacts DEF IInv, Live, Resets
<1>1. t \in PacketType /\ pc[p] \in Place /\ state[p] \in NetState
  BY <1>0 DEF TypeOK
<1>2. CASE t = "RESET"
  BY <1>0, <1>2 DEF Acceptable
<1>3. CASE t = "BATTLEINPUT"
  <2>1. StageOf(p) \in Fighting
    BY <1>3, HearsEnd
  <2>2. state[p] \in {"inBattle", "endingBattle", "endingBattle2"}
    BY <1>0, <1>1, <2>1 DEF StageOf, Fighting, Placed, InGame, Place, Meeting
  <2> QED BY <1>3, <2>2 DEF Acceptable
<1>4. CASE t \notin {"BATTLEINPUT", "RESET"}
  <2>1. /\ ~ready[p].remote
        /\ t = "HANDSHAKE0" => StageOf(p) = "handshake" /\ ~remoteOk[p]
        /\ t = "HANDSHAKE1" => StageOf(p) = "handshake" /\ localOk[p]
        /\ t = "INPUTDELAY" => StageOf(p) = "agree"
        /\ t = "SEEDRANDOM" => StageOf(p) = "agree" /\ q = Host
        /\ t = "SELECTSHIP" => StageOf(p) = "chosen" /\ q \in Selecting(p) \ picked[p]
        /\ t = "READY" => StageOf(p) \notin {"handshake", "toEnd2"}
        /\ t = "FRAMECOUNT" => StageOf(p) = "toEnd2"
    BY <1>1, <1>4, Hearing
  <2>2. StageOf(p) = "handshake" <=> state[p] = "inSetup"
    <3>1. CASE pc[p] \in {"menu", "confirming"}
      BY <1>0, <3>1 DEF StageOf, Placed, InMenu
    <3>2. CASE pc[p] \notin {"menu", "confirming"}
      <4>1. state[p] # "inSetup"
        BY <1>0, <1>1, <3>2 DEF Placed, InGame, Place, Meeting, Active
      <4>2. StageOf(p) # "handshake"
        BY <1>1, <3>2 DEF StageOf, Place, Meeting
      <4> QED BY <4>1, <4>2
    <3> QED BY <3>1, <3>2
  <2>3. StageOf(p) = "agree" => state[p] = "preBattle"
    BY <1>0, <1>1 DEF StageOf, Placed, InMenu, InGame, Place, Meeting
  <2>4. StageOf(p) = "chosen" => state[p] = "selectShip"
    BY <1>0, <1>1 DEF StageOf, Placed, InMenu, InGame, Place, Meeting
  <2>5. StageOf(p) = "toEnd2" => state[p] = "endingBattle"
    BY <1>0, <1>1 DEF StageOf, Placed, InMenu, InGame, Place, Meeting
  <2> QED BY <1>0, <1>1, <1>4, <2>1, <2>2, <2>3, <2>4, <2>5
          DEF Acceptable, PacketType, ReadyFlagsMeaningful
<1> QED BY <1>2, <1>3, <1>4

LEMMA RefusePacketStep ==
  ASSUME IInv, TypeOK', NEW p \in Party, NEW q \in Party, q = Peer(p), Same(q), RefusePacket(p)
  PROVE  IInv'
<1>0. /\ Resets(p) /\ Outgoing(q) /\ TypeOK /\ Peer(q) = p
  BY PeerFacts DEF IInv
<1>1. /\ pc'[p] = "left" /\ fault'[p] = Head(chan[q]) /\ waiting' = waiting /\ state' = state
      /\ localReset' = localReset /\ remoteReset' = remoteReset /\ abort' = abort
      /\ met' = met /\ game' = game /\ seed' = seed /\ peerDelay' = peerDelay /\ chan' = chan
      /\ ~Acceptable(p, Head(chan[q])) /\ chan[q] # <<>> /\ pc[p] \notin {"resetting", "left"}
  BY <1>0 DEF RefusePacket, Go, Polls, Incoming, reset, progress, TypeOK
<1>2. ~Live(p)
  BY <1>1, LiveAccepts
<1>3. ~localReset[p]
  <2>1. SUFFICES ASSUME localReset[p] PROVE FALSE
    OBVIOUS
  <2>2. remoteReset[p]
    BY <1>1, <2>1 DEF Acceptable
  <2>3. Late(chan[q], p)
    BY <1>0, <2>2 DEF Resets, Told, Outgoing
  <2> QED BY <1>1, <2>2, <2>3 DEF Late
<1>4. Quit(p)
  BY <1>0, <1>1, <1>2, <1>3 DEF Live, Active, Resets
<1>5. Late(chan[q], p)
  BY <1>0, <1>4 DEF Resets, Told, Outgoing
<1>6. fault'[p] \in {"BATTLEINPUT", "READY"} /\ state'[p] = "inSetup"
  BY <1>1, <1>4, <1>5 DEF Late, Quit
<1>7. Faultless(p)'
  BY <1>1, <1>6 DEF Faultless
<1>8. ~Active(p)'
  BY <1>1 DEF Active
<1> QED BY <1>1, <1>2, <1>7, <1>8, AsideStep DEF Pops

-----------------------------------------------------------------------------
(* Every step.                                                             *)

LEMMA ActStep ==
  ASSUME IInv, NEW p \in Party, Act(p)
  PROVE  IInv'
<1>1. TypeOK'
  BY TypeStep
<1>2. Peer(p) \in Party
  BY PeerFacts
<1>3. PICK q \in Party : q = Peer(p)
  BY <1>2
<1>4. Same(q)
  BY <1>3, Frame
<1>5. CASE Player(p) \/ ShipDies(p)
  BY <1>1, <1>3, <1>4, <1>5, ConfirmStep, PickStep, ExitStep, ShipDiesStep DEF Act, Player
<1>6. CASE Proceed(p)
  BY <1>1, <1>3, <1>4, <1>6, PrepareStep, NegotiateStep, PickedStep, PickAbortedStep,
     PickForgottenStep, SignalEndStep, AwaitFrameCountStep, EndReachedStep, AbortBattleStep, WaitResetStep
     DEF Proceed
<1>7. CASE Receive(p)
  BY <1>1, <1>3, <1>4, <1>7, Handshake0Step, Handshake1Step, InputDelayStep, SeedRandomStep,
     HandleReadyStep, SelectShipStep, BattleInputStep, FrameCountStep, HandleResetStep,
     DropPacketStep, RefusePacketStep
     DEF Receive
<1>8. CASE PeerLost(p) \/ Lose(p)
  BY <1>1, <1>3, <1>4, <1>8, LoseStep DEF PeerLost
<1> QED BY <1>5, <1>6, <1>7, <1>8 DEF Act

LEMMA StutterStep ==
  ASSUME IInv, UNCHANGED vars
  PROVE  IInv'
<1>1. \A p \in Party : Same(p)
  BY DEF vars, Same
<1>2. TypeOK' /\ Len(fate') >= 1
  BY DEF IInv, TypeOK, vars
<1>3. ASSUME NEW p \in Party
      PROVE  (Placed(p) /\ Resets(p) /\ Outgoing(p) /\ Flows(p) /\ Faultless(p))'
  <2>1. Placed(p) /\ Resets(p) /\ Outgoing(p) /\ Flows(p) /\ Faultless(p)
    BY DEF IInv
  <2>2. Placed(p)' /\ Faultless(p)'
    BY <1>1, <2>1, SamePlaced, SameMeans
  <2>3. Resets(p)'
    <3>1. \A r \in Party : /\ pc'[r] = pc[r] /\ state'[r] = state[r] /\ ready'[r] = ready[r]
                          /\ localReset'[r] = localReset[r] /\ remoteReset'[r] = remoteReset[r]
                          /\ abort'[r] = abort[r] /\ game'[r] = game[r] /\ met'[r] = met[r]
      BY DEF vars
    <3>2. \A r \in Party : /\ Quit(r)' = Quit(r) /\ MidGame(r)' = MidGame(r)
                          /\ StageOf(r)' = StageOf(r)
      BY DEF vars, Quit, MidGame, StageOf
    <3>3. \A r \in Party : /\ Asked(r)' = Asked(r) /\ Told(r)' = Told(r)
                          /\ Active(r)' = Active(r) /\ Stopped(r)' = Stopped(r)
      BY <3>1, <3>2 DEF Asked, Told, Active, Stopped
    <3> QED BY <2>1, <3>1, <3>2, <3>3, PeerFacts DEF Resets
  <2>5. Outgoing(p)'
    BY <2>1 DEF vars, Outgoing, Late, NoResetIn, Asked, Told, Quit
  <2>4. Flows(p)'
    <3>1. /\ Live(Peer(p))' = Live(Peer(p)) /\ Live(p)' = Live(p) /\ Stopped(p)' = Stopped(p)
          /\ At(p)' = At(p) /\ Said(p)' = Said(p) /\ chan' = chan
      BY <1>1, PeerFacts, SameMeans DEF vars
    <3>2. /\ At(Peer(p))' = At(Peer(p)) /\ Heard(Peer(p))' = Heard(Peer(p))
          /\ Signaled(Peer(p))' = Signaled(Peer(p)) /\ localOk' = localOk /\ fate' = fate
      BY <1>1, PeerFacts, SameMeans DEF vars
    <3>3. ASSUME NEW x, NEW o, NEW body, NEW end, Stream(p, x, o, body, end)
          PROVE  Stream(p, x, o, body, end)'
      <4>1. FlowOf(p, x, o, body)' = FlowOf(p, x, o, body)
        BY <3>2 DEF FlowOf
      <4>2. StopAt(p, x, o)' = StopAt(p, x, o) /\ End(p, x, end)' = End(p, x, end)
        BY <1>1, SameStop
      <4> QED BY <3>1, <3>3, <4>1, <4>2 DEF Stream
    <3>4. CASE ~Live(Peer(p))
      BY <3>1, <3>4 DEF Flows
    <3>5. CASE Live(Peer(p))
      <4>1. PICK x \in Position, body \in Seq(PacketType), end \in Seq(PacketType) :
              \E o \in Parts(fate, p, x) : Stream(p, x, o, body, end)
        BY <2>1, <3>5 DEF Flows
      <4>2. PICK o \in Parts(fate, p, x) : Stream(p, x, o, body, end)
        BY <4>1
      <4>3. Stream(p, x, o, body, end)' /\ o \in Parts(fate', p, x)
        BY <3>2, <3>3, <4>2
      <4> QED BY <4>3 DEF Flows
    <3> QED BY <3>4, <3>5
  <2> QED BY <2>2, <2>3, <2>4, <2>5
<1> QED BY <1>2, <1>3 DEF IInv

LEMMA InitIInv == Init => IInv
<1> SUFFICES ASSUME Init PROVE IInv
  OBVIOUS
<1>1. PICK n \in 1 .. MaxDeaths : fate \in [1 .. n -> Party]
  BY DEF Init
<1>2. fate \in Seq(Party) /\ Len(fate) = n /\ n \in Nat /\ n >= 1
  BY <1>1, GameAssumption
<1>3. TypeOK
  <2>1. /\ pc \in [Party -> Place] /\ state \in [Party -> NetState]
        /\ ready \in [Party -> R!Ready]
    BY DEF Init, Place, NetState, R!Ready, R!NotReady
  <2>2. /\ waiting \in [Party -> BOOLEAN] /\ localOk \in [Party -> BOOLEAN]
        /\ remoteOk \in [Party -> BOOLEAN] /\ localReset \in [Party -> BOOLEAN]
        /\ remoteReset \in [Party -> BOOLEAN] /\ abort \in [Party -> BOOLEAN]
        /\ hasty \in BOOLEAN
    BY DEF Init, No
  <2>3. /\ game \in [Party -> 0..MaxGames] /\ met \in [Party -> Nat]
        /\ deaths \in [Party -> 0..Len(fate)] /\ seed \in [Party -> 0..MaxGames]
        /\ peerDelay \in [Party -> 0..MaxGames]
    BY <1>2, GameAssumption DEF Init, Zero
  <2>4. picked \in [Party -> SUBSET Party] /\ chan \in [Party -> Seq(PacketType)]
    <3>1. {} \in SUBSET Party /\ <<>> \in Seq(PacketType)
      BY Packets
    <3> QED BY <3>1 DEF Init
  <2>5. fault \in [Party -> PacketType \cup {"none", "assertion", "shipless"}]
    BY DEF Init
  <2> QED BY <1>2, <2>1, <2>2, <2>3, <2>4, <2>5 DEF TypeOK
<1>4. ASSUME NEW p \in Party
      PROVE  Placed(p) /\ Resets(p) /\ Outgoing(p) /\ Flows(p) /\ Faultless(p)
  <2>1. /\ pc[p] = "menu" /\ ~waiting[p] /\ state[p] = "inSetup" /\ ~localOk[p] /\ ~remoteOk[p]
        /\ ready[p] = R!NotReady /\ ~localReset[p] /\ ~remoteReset[p] /\ ~abort[p]
        /\ game[p] = 0 /\ met[p] = 0 /\ deaths[p] = 0 /\ seed[p] = 0 /\ peerDelay[p] = 0
        /\ chan[p] = <<>> /\ fault[p] = "none"
    BY DEF Init, No, Zero
  <2>2. StageOf(p) = "handshake" /\ Round(p) = 1 /\ Turn(p) = 0
    BY <2>1 DEF StageOf, Round, Turn
  <2>3. Active(p) /\ ~Quit(p) /\ Live(p) /\ ~Asked(p) /\ ~Told(p) /\ ~Stopped(p)
    BY <2>1 DEF Active, Quit, Live, Asked, Told, Stopped
  <2>4. Placed(p)
    BY <2>1, <2>2 DEF Placed, InMenu, Resting, InGame, ReadyAt, Informed, Meeting, R!NotReady
  <2>5. Resets(p) /\ Outgoing(p) /\ Faultless(p)
    BY <2>1, <2>3, Len(<<>>) = 0 DEF Resets, Outgoing, Faultless, NoResetIn, PacketType
  <2>6. Flows(p)
    <3>1. PICK q \in Party : q = Peer(p)
      BY PeerFacts
    <3>2. /\ pc[q] = "menu" /\ ~localOk[q] /\ ~remoteOk[q] /\ ready[q] = R!NotReady /\ game[q] = 0
      BY DEF Init, No, Zero
    <3>3. StageOf(q) = "handshake" /\ Round(q) = 1 /\ Turn(q) = 0
      BY <3>2 DEF StageOf, Round, Turn
    <3>4. At(q) = At(p) /\ Heard(q) = <<>> /\ Said(p) = {<<>>}
      BY <2>1, <2>2, <3>2, <3>3 DEF At, Heard, HeardFirst, Said, R!NotReady
    <3>5. <<>> \o <<>> = <<>> /\ <<>> \notin Confirmed
      BY Len(<<>>) = 0, Len(<<"HANDSHAKE1">>) = 1, Len(<<"HANDSHAKE0", "HANDSHAKE1">>) = 2
         DEF Confirmed
    <3>6. FlowOf(p, At(p), <<>>, chan[p])
      BY <2>1, <3>1, <3>4, <3>5 DEF FlowOf, Flow
    <3> QED BY <1>3, <2>3, <2>4, <3>4, <3>6, FlowsFromLive
  <2> QED BY <2>4, <2>5, <2>6
<1> QED BY <1>2, <1>3, <1>4 DEF IInv

-----------------------------------------------------------------------------
(* What is left of a game that is reset, and the next game.                *)

(* A step that moves the program nowhere but off.                          *)
LEMMA SettleStay ==
  ASSUME Leftovers, NEW p \in Party, pc'[p] \in {pc[p], "left"}, fate' = fate,
         state'[p] = state[p], met'[p] = met[p], game'[p] = game[p], seed'[p] = seed[p],
         peerDelay'[p] = peerDelay[p], waiting'[p] = waiting[p],
         (abort'[p] = abort[p]) \/ state[p] # "inSetup"
  PROVE  Settles(p)'
<1>1. Settles(p) /\ (Quit(p)' <=> Quit(p))
  BY DEF Leftovers, Quit
<1> QED BY <1>1 DEF Settles, Quit

(* The game is reset by a side that knows what its peer said of it.        *)
LEMMA SettleStop ==
  ASSUME NEW p \in Party, Resets(p)', Faultless(p)', ~waiting'[p],
         pc'[p] = "resetting", state'[p] # "preBattle"
  PROVE  Settles(p)'
<1>1. state'[p] # "inSetup"
  BY DEF Resets
<1>2. seed'[p] = game'[p] /\ peerDelay'[p] = game'[p]
  BY <1>1 DEF Faultless
<1>3. ~Quit(p)'
  BY <1>1 DEF Quit
<1> QED BY <1>2, <1>3 DEF Settles

LEMMA SettleMet ==
  ASSUME TypeOK, NEW p \in Party, Active(p), Placed(p), pc[p] \in Meeting, Met(p),
         Resets(p)', Faultless(p)'
  PROVE  Settles(p)'
<1>1. /\ pc'[p] = NextPlace(p) /\ state'[p] = NextState(pc[p]) /\ met'[p] = met[p] + 1
      /\ ~waiting'[p] /\ fate' = fate /\ InGame(p) /\ deaths[p] \in Nat /\ Len(fate) \in Nat
  BY DEF Met, Go, TypeOK, Placed
<1>2. CASE pc'[p] = "resetting"
  <2>1. state'[p] # "preBattle"
    BY <1>1 DEF NextState, Meeting
  <2> QED BY <1>1, <1>2, <2>1, SettleStop
<1>3. CASE pc'[p] # "resetting"
  <2>1. ~Quit(p)'
    <3>1. CASE pc[p] = "over"
      BY <1>1, <3>1 DEF InGame, Quit
    <3>2. CASE pc[p] # "over"
      BY <1>1, <3>2 DEF NextState, Meeting, Quit
    <3> QED BY <3>1, <3>2
  <2>2. pc'[p] # "resetWait"
    BY <1>1 DEF NextPlace, Meeting
  <2> QED BY <1>3, <2>1, <2>2 DEF Settles
<1> QED BY <1>2, <1>3

LEMMA SettleBack ==
  ASSUME TypeOK, Leftovers, NEW p \in Party, pc[p] \in {"resetting", "resetWait"}, BackToMenu(p),
         game' = game, seed' = seed, peerDelay' = peerDelay, waiting' = waiting
  PROVE  Settles(p)'
<1>1. pc'[p] = "menu" /\ ~abort'[p] /\ Settles(p)
  BY DEF BackToMenu, Go, TypeOK, Leftovers
<1> QED BY <1>1 DEF Settles

LEMMA SettleStep ==
  ASSUME IInv, IInv', Leftovers, NEW p \in Party, Act(p)
  PROVE  Leftovers'
<1>1. PICK q \in Party : q = Peer(p)
  BY PeerFacts
<1>2. /\ TypeOK /\ Placed(p) /\ Resets(p) /\ Settles(p) /\ Same(q)
      /\ Resets(p)' /\ Faultless(p)'
  BY <1>1, Frame DEF IInv, Leftovers
<1>3. Settles(q)'
  <2>1. Settles(q) /\ Quit(q)' = Quit(q)
    BY <1>2, SameMeans DEF Leftovers
  <2> QED BY <1>2, <2>1 DEF Settles, Same
<1>4. ASSUME Active(p)' PROVE Settles(p)'
  BY <1>4 DEF Active, Settles
<1>5. ASSUME pc'[p] \notin {"menu", "left", "resetting", "resetWait"} PROVE Settles(p)'
  BY <1>2, <1>5 DEF Resets, Settles
<1>6. ASSUME Live(p), pc'[p] = pc[p], state'[p] # "inSetup" PROVE Settles(p)'
  BY <1>4, <1>6 DEF Live, Active, Quit
<1>7. Settles(p)'
  <2>1. CASE Confirm(p)
    BY <1>2, <1>5, <2>1 DEF Confirm, Go, TypeOK
  <2>2. CASE Pick(p) \/ Picked(p) \/ PickForgotten(p)
    BY <1>2, <1>5, <2>2 DEF Pick, Picked, PickForgotten, Go, TypeOK
  <2>3. CASE Exit(p)
    <3>1. pc' = pc /\ state' = state /\ met' = met /\ game' = game /\ seed' = seed
          /\ peerDelay' = peerDelay /\ waiting' = waiting /\ fate' = fate
      BY <2>3 DEF Exit, progress
    <3>2. pc[p] \in {"picking", "battle", "dying", "waitReady"} \/ waiting[p]
      BY <2>3 DEF Exit
    <3>3. Quit(p)' <=> Quit(p)
      BY <3>1 DEF Quit
    <3> QED BY <1>2, <3>1, <3>2, <3>3 DEF Settles
  <2>4. CASE ShipDies(p) \/ Prepare(p) \/ AwaitFrameCount(p) \/ EndReached(p) \/ SignalEnd(p)
    BY <1>2, <1>5, <2>4
       DEF ShipDies, Prepare, AwaitFrameCount, EndReached, SignalEnd, Go, TypeOK
  <2>5. CASE Negotiate(p)
    <3>1. Active(p) /\ Placed(p) /\ pc[p] \in Meeting
      BY <2>5, InGameActive DEF Negotiate, Meeting
    <3>2. CASE MayBeReady(p) /\ R!MetByLocal(ready[p])
      BY <1>2, <2>5, <3>1, <3>2, SettleMet DEF Negotiate, LocalReady
    <3>3. CASE MayBeReady(p) /\ ~R!MetByLocal(ready[p])
      <4>1. pc' = pc
        BY <2>5, <3>3 DEF Negotiate, LocalReady
      <4> QED BY <1>5, <3>1, <4>1 DEF Meeting
    <3>4. CASE ~MayBeReady(p)
      BY <1>2, <2>5, <3>4, SettleStay DEF Negotiate, AssertionFails, Go, progress, TypeOK
    <3> QED BY <3>2, <3>3, <3>4
  <2>6. CASE PickAborted(p) \/ AbortBattle(p)
    <3>1. /\ pc[p] \in {"picking", "battle", "dying"} /\ pc'[p] = "resetting"
          /\ waiting' = waiting /\ state'[p] \in {state[p], "interBattle"}
      BY <1>2, <2>6 DEF PickAborted, AbortBattle, Go, TypeOK
    <3>2. Active(p) /\ Placed(p)
      BY <3>1, InGameActive
    <3>3. state'[p] # "preBattle" /\ ~waiting'[p]
      BY <3>1, <3>2 DEF Placed, InGame, ReadyAt, Meeting
    <3> QED BY <1>2, <3>1, <3>3, SettleStop
  <2>7. CASE WaitReset(p)
    <3>1. pc[p] = "resetting" /\ game' = game /\ seed' = seed /\ peerDelay' = peerDelay
          /\ waiting' = waiting /\ met' = met /\ fate' = fate
      BY <2>7 DEF WaitReset, progress
    <3>2. CASE remoteReset[p]
      BY <1>2, <2>7, <3>1, <3>2, SettleBack DEF WaitReset
    <3>3. CASE ~remoteReset[p]
      <4>1. pc'[p] = "resetWait"
        BY <1>2, <2>7, <3>3 DEF WaitReset, Go, TypeOK
      <4>2. ~Quit(p)'
        BY <1>2, <4>1 DEF Resets
      <4> QED BY <1>2, <3>1, <4>1, <4>2 DEF Settles
    <3> QED BY <3>2, <3>3
  <2>8. CASE HandleHandshake0(p) \/ DropPacket(p)
    BY <1>2, <2>8, SettleStay DEF HandleHandshake0, DropPacket, reset, progress
  <2>9. CASE RefusePacket(p) \/ PeerLost(p) \/ Lose(p)
    BY <1>2, <2>9, SettleStay DEF RefusePacket, PeerLost, Lose, Go, reset, progress, TypeOK
  <2>10. CASE HandleHandshake1(p)
    <3>1. Live(p)
      BY <2>10, ArrivesLive DEF HandleHandshake1
    <3>2. pc' = pc /\ state'[p] = "preBattle"
      BY <1>2, <2>10 DEF HandleHandshake1, TypeOK
    <3> QED BY <1>6, <3>1, <3>2
  <2>11. CASE HandleInputDelay(p) \/ HandleSeedRandom(p) \/ HandleSelectShip(p)
              \/ HandleBattleInput(p)
    <3>1. Live(p)
      BY <2>11, ArrivesLive
         DEF HandleInputDelay, HandleSeedRandom, HandleSelectShip, HandleBattleInput
    <3>2. pc' = pc /\ state' = state /\ state[p] # "inSetup"
      BY <2>11 DEF HandleInputDelay, HandleSeedRandom, HandleSelectShip, HandleBattleInput
    <3> QED BY <1>6, <3>1, <3>2
  <2>12. CASE HandleFrameCount(p)
    <3>1. Live(p)
      BY <2>12, ArrivesLive DEF HandleFrameCount
    <3>2. pc' = pc /\ state'[p] \in {state[p], "endingBattle2"} /\ state[p] # "inSetup"
      BY <1>2, <2>12 DEF HandleFrameCount, TypeOK
    <3> QED BY <1>6, <3>1, <3>2
  <2>13. CASE HandleReady(p)
    <3>1. Live(p) /\ Active(p) /\ state[p] # "inSetup"
      BY <2>13, ArrivesLive DEF HandleReady, ReadyFlagsMeaningful, Live
    <3>2. CASE R!MetByRemote(ready[p]) /\ ready[p].callback = "negotiate"
      <4>1. pc[p] \in Meeting
        BY <1>2, <3>1, <3>2, Callbacks DEF R!MetByRemote
      <4> QED BY <1>2, <2>13, <3>1, <3>2, <4>1, SettleMet DEF HandleReady
    <3>3. CASE R!MetByRemote(ready[p]) /\ ready[p].callback = "toEnd"
      <4>1. pc' = pc /\ state'[p] = "endingBattle"
        BY <1>2, <2>13, <3>3 DEF HandleReady, ReadyToEnd, TypeOK
      <4> QED BY <1>6, <3>1, <4>1
    <3>4. CASE R!MetByRemote(ready[p]) /\ ready[p].callback = "toEnd2"
      <4>1. pc' = pc /\ state'[p] = "endingBattle2"
        BY <1>2, <2>13, <3>4 DEF HandleReady, TypeOK
      <4> QED BY <1>6, <3>1, <4>1
    <3>5. CASE ~R!MetByRemote(ready[p])
      <4>1. pc' = pc /\ state' = state
        BY <2>13, <3>5 DEF HandleReady
      <4> QED BY <1>6, <3>1, <4>1
    <3>6. R!MetByRemote(ready[p]) => ready[p].callback \in {"toEnd", "toEnd2", "negotiate"}
      BY <1>2, <3>1, Callbacks DEF R!MetByRemote
    <3> QED BY <3>2, <3>3, <3>4, <3>5, <3>6
  <2>14. CASE HandleReset(p)
    <3>1. game' = game /\ seed' = seed /\ peerDelay' = peerDelay /\ waiting' = waiting
          /\ met' = met /\ fate' = fate
      BY <2>14 DEF HandleReset, progress
    <3>2. CASE pc[p] = "resetWait"
      BY <1>2, <2>14, <3>1, <3>2, SettleBack DEF HandleReset
    <3>3. CASE pc[p] # "resetWait"
      <4>1. pc' = pc /\ state' = state /\ abort'[p] = (abort[p] \/ state[p] # "inSetup")
        BY <1>2, <2>14, <3>3 DEF HandleReset, TypeOK
      <4>2. abort[p] \in BOOLEAN
        BY <1>2 DEF TypeOK
      <4>3. (abort'[p] = abort[p]) \/ state[p] # "inSetup"
        BY <4>1, <4>2
      <4> QED BY <3>1, <4>1, <4>3, SettleStay
    <3> QED BY <3>2, <3>3
  <2> QED BY <2>1, <2>2, <2>3, <2>4, <2>5, <2>6, <2>7, <2>8, <2>9, <2>10, <2>11, <2>12, <2>13, <2>14
          DEF Act, Player, Proceed, Receive
<1> QED BY <1>1, <1>3, <1>7, PeerFacts DEF Leftovers

(* When a player begins a game and nothing is left of the last one, which  *)
(* was reset, both sides are where they were after a game that was played  *)
(* to its end.                                                             *)
LEMMA FreshStep ==
  ASSUME IInv, Leftovers, NEW p \in Party, Confirm(p), Quit(p), Settled
  PROVE  IInv' /\ Leftovers'
<1>1. PICK q \in Party : q = Peer(p)
  BY PeerFacts
<1>2. /\ p # q /\ Peer(q) = p /\ TypeOK /\ Resets(p) /\ Resets(q) /\ Placed(q)
      /\ \A r \in Party : r = p \/ r = q
  BY <1>1, PeerFacts DEF IInv
<1>3. Quit(q)
  <2>1. Asked(q)
    BY <1>1, <1>2 DEF Resets, Told
  <2>2. SUFFICES ASSUME localReset[q], ~Quit(q) PROVE FALSE
    BY <2>1 DEF Asked
  <2>3. pc[q] = "menu"
    BY DEF Settled
  <2>4. Active(q) /\ remoteReset[q]
    BY <1>2, <2>2, <2>3 DEF Active, Resets
  <2>5. abort[q]
    BY <1>2, <2>3, <2>4 DEF Resets
  <2> QED BY <1>2, <2>3, <2>4, <2>5 DEF Placed, InMenu, Resting
<1>4. met[p] = met[q] /\ game[p] = game[q]
  BY <1>1, <1>2, <1>3 DEF Resets, Stopped, Asked
<1>5. ASSUME NEW r \in Party
      PROVE  /\ pc[r] = "menu" /\ state[r] = "inSetup" /\ ~localOk[r] /\ ~remoteOk[r]
             /\ ~ready[r].local /\ ~ready[r].remote /\ ~waiting[r] /\ ~abort[r]
             /\ ~localReset[r] /\ ~remoteReset[r] /\ game[r] > 0 /\ chan[r] = <<>>
             /\ seed[r] = game[r] /\ peerDelay[r] = game[r] /\ fault[r] = "none"
  <2>1. Quit(r) /\ Resets(r) /\ Settles(r) /\ Faultless(r)
    BY <1>2, <1>3 DEF IInv, Leftovers
  <2>2. pc[r] = "menu" /\ chan[r] = <<>> /\ ~localOk[r] /\ ~remoteOk[r] /\ ~ready[r].local
        /\ ~ready[r].remote
    BY DEF Settled
  <2> QED BY <2>1, <2>2 DEF Resets, MidGame, Settles, Faultless, Quit
<1> DEFINE all == 5 * Len(fate) + 2
<1>6. /\ fate' = fate /\ waiting' = waiting /\ state' = state /\ remoteOk' = remoteOk
      /\ ready' = ready /\ localReset' = localReset /\ remoteReset' = remoteReset
      /\ abort' = abort /\ game' = game /\ deaths' = deaths /\ picked' = picked
      /\ seed' = seed /\ peerDelay' = peerDelay /\ fault' = fault /\ game[p] < MaxGames
      /\ met' = [r \in Party |-> all] /\ localOk' = [localOk EXCEPT ![p] = TRUE]
      /\ pc' = [pc EXCEPT ![p] = "confirming"] /\ Send(p, <<"HANDSHAKE0">>) /\ hasty' = hasty
  BY <1>5 DEF Confirm, Go, reset, progress, TypeOK, IInv
<1>7. Len(fate) \in Nat /\ Len(fate) >= 1 /\ all \in Nat /\ all # 0
  <2>1. Len(fate) \in Nat /\ Len(fate) >= 1
    BY DEF IInv, TypeOK
  <2> QED BY <2>1
<1>8. /\ pc'[p] = "confirming" /\ pc'[q] = "menu" /\ localOk'[p] /\ ~localOk'[q]
      /\ chan'[p] = <<"HANDSHAKE0">> /\ chan'[q] = <<>>
  <2>1. chan'[p] = <<>> \o <<"HANDSHAKE0">> /\ chan'[q] = <<>>
    <3>1. TypeOK /\ <<"HANDSHAKE0">> \in Seq(PacketType) /\ q = Peer(p)
      BY <1>1, Packets DEF IInv
    <3>2. chan'[p] = chan[p] \o <<"HANDSHAKE0">> /\ chan'[q] = chan[q]
      BY <1>6, <3>1, Sends
    <3> QED BY <1>1, <1>2, <1>5, <3>2
  <2>2. chan'[p] = <<"HANDSHAKE0">>
    BY <2>1, Tuples DEF PacketType
  <2>3. pc'[p] = "confirming" /\ pc'[q] = "menu" /\ localOk'[p] /\ ~localOk'[q]
    BY <1>1, <1>2, <1>5, <1>6 DEF IInv, TypeOK
  <2> QED BY <2>1, <2>2, <2>3
<1> HIDE DEF all
<1>9. TypeOK'
  <2>1. chan' \in [Party -> Seq(PacketType)]
    BY <1>2, <1>6, Packets, Sends
  <2> QED BY <1>2, <1>6, <1>7, <2>1 DEF TypeOK, Place
<1>10. ASSUME NEW r \in Party
       PROVE  /\ met'[r] = all /\ state'[r] = "inSetup" /\ pc'[r] \in {"menu", "confirming"}
              /\ ~remoteOk'[r] /\ ~ready'[r].local /\ ~ready'[r].remote /\ ~waiting'[r]
              /\ ~abort'[r] /\ ~localReset'[r] /\ ~remoteReset'[r] /\ fault'[r] = "none"
              /\ game'[r] = game'[p] /\ game'[r] > 0 /\ game'[r] < MaxGames
              /\ seed'[r] = game'[r] /\ peerDelay'[r] = game'[r]
  BY <1>2, <1>4, <1>5, <1>6, <1>8
<1>11. ASSUME NEW r \in Party
       PROVE  /\ ~Quit(r)' /\ Active(r)' /\ Live(r)' /\ ~Asked(r)' /\ ~Told(r)' /\ ~Stopped(r)'
              /\ StageOf(r)' = "handshake" /\ Round(r)' = game'[r] + 1 /\ Turn(r)' = 0
  <2>1. ~Quit(r)'
    BY <1>6, <1>10 DEF Quit, all
  <2>2. StageOf(r)' = "handshake" /\ Round(r)' = game'[r] + 1
    BY <1>10 DEF StageOf, Round
  <2>3. Turn(r)' = 0
    BY <2>2 DEF Turn
  <2> QED BY <1>10, <2>1, <2>2, <2>3 DEF Active, Live, Asked, Told, Stopped
<1>12. ASSUME NEW r \in Party PROVE Placed(r)'
  <2>1. Resting(r)'
    BY <1>6, <1>10 DEF Resting, all
  <2>2. InMenu(r)'
    BY <1>2, <1>8, <1>10, <2>1 DEF InMenu
  <2>3. InGame(r)' /\ ReadyAt(r)' /\ Informed(r)'
    BY <1>10, <1>11 DEF InGame, ReadyAt, Informed, Meeting
  <2> QED BY <2>2, <2>3 DEF Placed
<1>13. ASSUME NEW r \in Party PROVE (Resets(r) /\ Outgoing(r) /\ Faultless(r) /\ Settles(r))'
  <2>1. NoResetIn(chan[r])'
    BY <1>2, <1>8, Len(<<>>) = 0, Len(<<"HANDSHAKE0">>) = 1 DEF NoResetIn
  <2>2. Outgoing(r)'
    BY <1>11, <2>1 DEF Outgoing
  <2>3. Resets(r)'
    BY <1>10, <1>11, PeerFacts DEF Resets
  <2>4. Faultless(r)' /\ Settles(r)'
    BY <1>10, <1>11 DEF Faultless, Settles, PacketType
  <2> QED BY <2>2, <2>3, <2>4
<1>14. /\ At(p)' = At(q)' /\ Heard(p)' = <<>> /\ Heard(q)' = <<>>
       /\ Said(p)' = {<<"HANDSHAKE0">>} /\ Said(q)' = {<<>>}
  BY <1>8, <1>10, <1>11 DEF At, Heard, HeardFirst, Said
<1>15. /\ <<>> \o <<>> = <<>> /\ <<>> \o <<"HANDSHAKE0">> = <<"HANDSHAKE0">>
       /\ <<>> \notin Confirmed /\ <<"HANDSHAKE0">> \notin Confirmed
  <2>1. <<"HANDSHAKE0">> # <<"HANDSHAKE1">>
    BY Head(<<"HANDSHAKE0">>) = "HANDSHAKE0", Head(<<"HANDSHAKE1">>) = "HANDSHAKE1"
  <2> QED BY <2>1, Packets, Join, Len(<<>>) = 0, Len(<<"HANDSHAKE1">>) = 1,
             Len(<<"HANDSHAKE0">>) = 1, Len(<<"HANDSHAKE0", "HANDSHAKE1">>) = 2 DEF Confirmed
<1>16. FlowOf(p, At(p), <<"HANDSHAKE0">>, chan[p])' /\ FlowOf(q, At(q), <<>>, chan[q])'
  BY <1>1, <1>2, <1>8, <1>14, <1>15 DEF FlowOf, Flow
<1>17. Flows(p)' /\ Flows(q)'
  BY <1>9, <1>11, <1>12, <1>14, <1>16, FlowsFromLiveNext
<1>18. Len(fate') >= 1
  BY <1>6, <1>7
<1> QED BY <1>2, <1>9, <1>12, <1>13, <1>17, <1>18 DEF IInv, Leftovers

LEMMA InitLeftovers == Init => Leftovers
BY DEF Init, Leftovers, Settles, Quit, Zero

LEMMA HastyStays ==
  ASSUME NEW p \in Party, hasty,
         Player(p) \/ ShipDies(p) \/ Proceed(p) \/ Receive(p) \/ PeerLost(p) \/ Lose(p)
  PROVE  hasty'
BY DEF Player, Confirm, Pick, Exit, ShipDies, Proceed, Prepare, Negotiate, LocalReady,
       AssertionFails, Picked, PickAborted, PickForgotten, SignalEnd, AwaitFrameCount,
       EndReached, AbortBattle, WaitReset, Receive, HandleHandshake0, HandleHandshake1,
       HandleInputDelay, HandleSeedRandom, HandleReady, HandleSelectShip, HandleBattleInput,
       HandleFrameCount, HandleReset, DropPacket, RefusePacket, PeerLost, Lose

(* As long as no game is begun with something left of one that was reset.  *)
Clean == IInv /\ Leftovers

LEMMA Inductive ==
  ASSUME hasty \/ Clean, [Next]_vars
  PROVE  (hasty \/ Clean)'
<1>1. CASE UNCHANGED vars
  <2>1. Clean => Clean'
    <3> SUFFICES ASSUME Clean PROVE Clean'
      OBVIOUS
    <3>1. IInv'
      BY <1>1, StutterStep DEF Clean
    <3>2. Leftovers'
      BY <1>1 DEF Clean, Leftovers, Settles, Quit, vars
    <3> QED BY <3>1, <3>2 DEF Clean
  <2> QED BY <1>1, <2>1 DEF vars
<1>2. CASE Next
  <2>1. PICK p \in Party : Player(p) \/ ShipDies(p) \/ Proceed(p) \/ Receive(p)
                            \/ PeerLost(p) \/ Lose(p)
    BY <1>2 DEF Next
  <2>2. CASE hasty
    BY <2>1, <2>2, HastyStays
  <2>3. CASE Clean /\ Act(p)
    BY <2>3, ActStep, SettleStep DEF Clean
  <2>4. CASE Clean /\ Confirm(p) /\ Quit(p)
    BY <2>4, FreshStep DEF Clean, Confirm
  <2> QED BY <2>1, <2>2, <2>3, <2>4 DEF Act
<1> QED BY <1>1, <1>2

-----------------------------------------------------------------------------
(* The meetings that a side has passed at x in its game g, or between it   *)
(* and the next.                                                           *)

MetBy(f, x, g) ==
  IF x.game = g + 1 THEN IF g = 0 THEN 0 ELSE 5 * Len(f) + 2
  ELSE IF x.stage = "agree" THEN 0
  ELSE 5 * x.turn + (IF x.stage \in {"choose", "over"} THEN 1
                     ELSE IF x.stage = "chosen" THEN 2
                     ELSE IF x.stage = "fight" THEN 3
                     ELSE IF x.stage = "checkpoint" THEN 5 ELSE 4)

Fits(f, x, g) ==
  /\ \/ x.game = g + 1 /\ x.stage \in {"handshake", "agree"}
     \/ x.game = g /\ g > 0 /\ x.stage # "handshake"
  /\ x.stage \in {"handshake", "agree"} => x.turn = 0
  /\ x.stage = "over" => x.turn = Len(f)

(* Only a meeting counts.                                                  *)
LEMMA NextMet ==
  ASSUME NEW f \in Seq(Party), NEW g \in Nat, NEW x \in Position, NEW y \in Position,
         Fits(f, x, g), Fits(f, y, g), x = Following(f, y)
  PROVE  \/ MetBy(f, x, g) = MetBy(f, y, g) /\ y.stage \in {"handshake", "toEnd", "toEnd2"}
         \/ MetBy(f, x, g) = MetBy(f, y, g) + 1 /\ y.stage \in Meeting
<1>1. x.turn \in Nat /\ y.turn \in Nat /\ x.game \in Nat /\ y.game \in Nat /\ Len(f) \in Nat
  BY DEF Position
<1>2. CASE y.stage = "over"
  BY <1>1, <1>2 DEF Following, MetBy, Fits, Meeting
<1>3. CASE y.stage = "checkpoint"
  BY <1>1, <1>3 DEF Following, MetBy, Fits, Meeting
<1>4. CASE y.stage = "handshake"
  BY <1>1, <1>4 DEF Following, NextStage, MetBy, Fits
<1>5. CASE y.stage = "agree"
  BY <1>1, <1>5 DEF Following, NextStage, MetBy, Fits, Meeting
<1>6. CASE y.stage \in {"choose", "chosen", "fight", "ended"}
  <2>1. /\ x.game = y.game /\ x.turn = y.turn /\ x.stage = NextStage(y.stage)
        /\ y.stage \in Meeting
    BY <1>6 DEF Following, Meeting
  <2>2. CASE y.stage = "choose"
    BY <1>1, <2>1, <2>2 DEF NextStage, MetBy, Fits
  <2>3. CASE y.stage = "chosen"
    BY <1>1, <2>1, <2>3 DEF NextStage, MetBy, Fits
  <2>4. CASE y.stage = "fight"
    BY <1>1, <2>1, <2>4 DEF NextStage, MetBy, Fits
  <2>5. CASE y.stage = "ended"
    BY <1>1, <2>1, <2>5 DEF NextStage, MetBy, Fits
  <2> QED BY <1>6, <2>2, <2>3, <2>4, <2>5
<1>7. CASE y.stage \in {"toEnd", "toEnd2"}
  BY <1>1, <1>7 DEF Following, NextStage, MetBy, Fits
<1> QED BY <1>2, <1>3, <1>4, <1>5, <1>6, <1>7 DEF Position, Stage

LEMMA MetWhere ==
  ASSUME TypeOK, Len(fate) >= 1, NEW p \in Party, Active(p), Placed(p)
  PROVE  Fits(fate, At(p), game[p]) /\ met[p] = MetBy(fate, At(p), game[p])
<1> DEFINE x == At(p)
<1>0. /\ pc[p] \in Place /\ game[p] \in Nat /\ deaths[p] \in Nat /\ Len(fate) \in Nat
      /\ InMenu(p) /\ InGame(p) /\ pc[p] \notin {"resetting", "resetWait", "left"}
      /\ x.stage = StageOf(p) /\ x.turn = Turn(p) /\ x.game = Round(p)
  BY GameAssumption DEF TypeOK, Placed, Active, At
<1>1. CASE pc[p] \in {"menu", "confirming"}
  <2>1. StageOf(p) \in {"handshake", "agree"} /\ Round(p) = game[p] + 1 /\ Turn(p) = 0
    BY <1>1 DEF StageOf, Round, Turn
  <2>2. met[p] = IF game[p] = 0 THEN 0 ELSE 5 * Len(fate) + 2
    BY <1>0, <1>1 DEF InMenu, Resting
  <2> QED BY <1>0, <2>1, <2>2 DEF Fits, MetBy
<1>2. CASE pc[p] \notin {"menu", "confirming"}
  <2>1. Round(p) = game[p] /\ game[p] > 0
    BY <1>0, <1>2 DEF Round, InMenu
  <2>2. CASE pc[p] \in {"agree", "choose", "fight", "checkpoint", "over", "chosen", "picking",
                        "unchosen"}
    <3>1. StageOf(p) = IF pc[p] \in {"picking", "unchosen"} THEN "chosen" ELSE pc[p]
      BY <2>2 DEF StageOf
    <3>2. Turn(p) = IF pc[p] = "agree" THEN 0
                    ELSE IF pc[p] = "checkpoint" THEN deaths[p] - 1 ELSE deaths[p]
      BY <2>2, <3>1 DEF Turn
    <3> QED BY <1>0, <2>1, <2>2, <3>1, <3>2 DEF Fits, MetBy, InGame
  <2>3. CASE pc[p] \in {"battle", "dying", "waitReady", "ended"}
    <3>1. StageOf(p) \in Fighting
      BY <2>3 DEF StageOf, Fighting
    <3>2. met[p] = 5 * Turn(p) + 4
      BY <1>0, <2>3, <3>1 DEF InGame, Turn, Fighting
    <3> QED BY <1>0, <2>1, <3>1, <3>2 DEF Fits, MetBy, Fighting
  <2> QED BY <1>0, <1>2, <2>2, <2>3 DEF Place, Meeting
<1> QED BY <1>1, <1>2

(* Where p is for a peer that nobody resets.                               *)
LEMMA Seen ==
  ASSUME IInv, NEW p \in Party, NEW q \in Party, q = Peer(p), Live(q), Live(p) \/ Stopped(p)
  PROVE  \E x \in Position, body, end \in Seq(PacketType) : \E o \in Parts(fate, p, x) :
           /\ Flow(fate, p, x, o, body, At(q), Heard(q), Signaled(q), localOk[q])
           /\ Fits(fate, x, game[p]) /\ met[p] = MetBy(fate, x, game[p])
           /\ chan[p] = body \o end
           /\ Stopped(p) => StopAt(p, x, o)
<1>0. Peer(q) = p /\ Placed(p) /\ TypeOK /\ Len(fate) >= 1 /\ Flows(p)
  BY PeerFacts DEF IInv
<1>1. PICK x \in Position, body \in Seq(PacketType), end \in Seq(PacketType) :
        \E o \in Parts(fate, p, x) : Stream(p, x, o, body, end)
  BY <1>0 DEF Flows
<1>2. PICK o \in Parts(fate, p, x) : Stream(p, x, o, body, end)
  BY <1>1
<1>3. /\ Flow(fate, p, x, o, body, At(q), Heard(q), Signaled(q), localOk[q])
      /\ chan[p] = body \o end /\ (Stopped(p) => StopAt(p, x, o))
  BY <1>2 DEF Stream, FlowOf
<1>4. Fits(fate, x, game[p]) /\ met[p] = MetBy(fate, x, game[p])
  <2>1. CASE Live(p)
    <3>1. x = At(p)
      BY <1>2, <2>1 DEF Stream
    <3> QED BY <1>0, <2>1, <3>1, MetWhere DEF Live
  <2>2. CASE Stopped(p)
    <3>1. StopAt(p, x, o)
      BY <1>3, <2>2
    <3>2. MidGame(p) /\ game[p] > 0
      BY <2>2 DEF IInv, Resets, Stopped, Asked, MidGame
    <3> QED BY <1>0, <3>1, <3>2 DEF StopAt, Fits, MetBy, MetAt, Fighting, Position
  <2> QED BY <2>1, <2>2
<1> QED BY <1>3, <1>4

LEMMA Letters ==
  ASSUME NEW f \in Seq(Party), NEW p \in Party, NEW y \in Position, y.stage \in Meeting
  PROVE  /\ Whole(f, p, y)[Len(Whole(f, p, y))] = "READY" /\ Len(Whole(f, p, y)) >= 1
         /\ \A h \in Openings(f, p, y), i \in Nat : i \in 1 .. Len(h) => h[i] # "READY"
<1>1. Whole(f, p, y) \in {<<"INPUTDELAY", "SEEDRANDOM", "READY">>, <<"INPUTDELAY", "READY">>,
                          <<"SELECTSHIP", "READY">>, <<"READY">>}
  BY DEF Whole, Meeting
<1>2. Whole(f, p, y)[Len(Whole(f, p, y))] = "READY" /\ Len(Whole(f, p, y)) >= 1
  <2>1. \A w : w = <<"INPUTDELAY", "SEEDRANDOM", "READY">> => Len(w) = 3 /\ w[3] = "READY"
    OBVIOUS
  <2>2. \A w : w = <<"INPUTDELAY", "READY">> => Len(w) = 2 /\ w[2] = "READY"
    OBVIOUS
  <2>3. \A w : w = <<"SELECTSHIP", "READY">> => Len(w) = 2 /\ w[2] = "READY"
    OBVIOUS
  <2>4. \A w : w = <<"READY">> => Len(w) = 1 /\ w[1] = "READY"
    OBVIOUS
  <2> QED BY <1>1, <2>1, <2>2, <2>3, <2>4
<1>3. Openings(f, p, y) \subseteq {<<>>, <<"INPUTDELAY">>, <<"INPUTDELAY", "SEEDRANDOM">>,
                                   <<"SELECTSHIP">>}
  BY DEF Openings, Meeting
<1>4. ASSUME NEW h \in Openings(f, p, y), NEW i \in Nat, i \in 1 .. Len(h) PROVE h[i] # "READY"
  <2>1. h \in {<<>>, <<"INPUTDELAY">>, <<"INPUTDELAY", "SEEDRANDOM">>, <<"SELECTSHIP">>}
    BY <1>3
  <2>2. CASE h = <<>>
    BY <1>4, <2>2, Len(<<>>) = 0
  <2>3. CASE h = <<"INPUTDELAY">>
    BY <1>4, <2>3, Len(<<"INPUTDELAY">>) = 1
  <2>4. CASE h = <<"INPUTDELAY", "SEEDRANDOM">>
    BY <1>4, <2>4, Len(<<"INPUTDELAY", "SEEDRANDOM">>) = 2
  <2>5. CASE h = <<"SELECTSHIP">>
    BY <1>4, <2>5, Len(<<"SELECTSHIP">>) = 1
  <2> QED BY <2>1, <2>2, <2>3, <2>4, <2>5
<1> QED BY <1>2, <1>4

(* The signal that q waits for is on its way.                              *)
LEMMA ReadyComes ==
  ASSUME IInv, NEW q \in Party, NEW p \in Party, p = Peer(q), Live(q), StageOf(q) \in Meeting,
         Signaled(q), NEW body \in Seq(PacketType), NEW o \in Seq(PacketType),
         NEW end \in Seq(PacketType), chan[p] = body \o end,
         Heard(q) \o body = Whole(fate, p, At(q)) \o o
  PROVE  waiting[q] /\ \E i \in DOMAIN chan[p] : chan[p][i] = "READY"
<1> DEFINE y == At(q)
           W == Whole(fate, p, y)
           h == Heard(q)
<1>0. /\ Active(q) /\ Placed(q) /\ TypeOK /\ fate \in Seq(Party) /\ y \in Position
      /\ y.stage = StageOf(q) /\ W \in Seq(PacketType) /\ pc[q] \in Place
  <2>1. Active(q) /\ Placed(q) /\ TypeOK
    BY DEF IInv, Live
  <2>2. fate \in Seq(Party) /\ pc[q] \in Place /\ y \in Position
    BY <2>1, AtPosition DEF TypeOK
  <2> QED BY <2>1, <2>2, Words DEF At
<1>1. ready[q].local /\ ~ready[q].remote
  BY <1>0 DEF Signaled, Placed, ReadyAt, Meeting
<1>2. waiting[q]
  <2>1. pc[q] \in Meeting
    BY <1>0, <1>1
       DEF Placed, InMenu, Resting, ReadyAt, InGame, StageOf, Place, Meeting, Active
  <2> QED BY <1>0, <1>1, <2>1 DEF Placed, ReadyAt
<1>3. h \in Openings(fate, p, y) /\ h \in Seq(PacketType)
  BY <1>0, <1>1, HeardIsOpening, OpeningShort DEF Heard
<1>4. W[Len(W)] = "READY" /\ Len(W) >= 1 /\ \A i \in Nat : i \in 1 .. Len(h) => h[i] # "READY"
  BY <1>0, <1>3, Letters
<1> DEFINE k == Len(W)
<1>5. k \in Nat /\ k \in 1 .. Len(W \o o) /\ (W \o o)[k] = "READY"
  BY <1>0, <1>4
<1>6. k \in 1 .. Len(h \o body) /\ (h \o body)[k] = "READY"
  BY <1>5
<1> HIDE DEF k, h
<1>7. k \notin 1 .. Len(h)
  <2>1. SUFFICES ASSUME k \in 1 .. Len(h) PROVE FALSE
    OBVIOUS
  <2>2. (h \o body)[k] = h[k]
    BY <1>3, <2>1
  <2> QED BY <1>4, <1>5, <1>6, <2>1, <2>2
<1>8. k - Len(h) \in 1 .. Len(body) /\ (h \o body)[k] = body[k - Len(h)]
  BY <1>3, <1>5, <1>6, <1>7
<1>9. body[k - Len(h)] = "READY"
  BY <1>6, <1>8
<1>10. k - Len(h) \in DOMAIN (body \o end) /\ (body \o end)[k - Len(h)] = "READY"
  BY <1>8, <1>9
<1> QED BY <1>2, <1>10

LEMMA Apart ==
  ASSUME IInv, NoReset, NEW p \in Party, NEW q \in Party, q = Peer(p), game[p] = game[q],
         met[p] > met[q]
  PROVE  /\ met[p] = met[q] + 1 /\ waiting[q]
         /\ \E i \in DOMAIN chan[p] : chan[p][i] = "READY"
<1>0. /\ Peer(q) = p /\ TypeOK /\ fate \in Seq(Party) /\ Len(fate) \in Nat /\ Len(fate) >= 1
      /\ game[p] \in Nat /\ met[p] \in Nat /\ met[q] \in Nat
  <2>1. Peer(q) = p /\ TypeOK /\ Len(fate) >= 1
    BY PeerFacts DEF IInv
  <2>2. fate \in Seq(Party) /\ game[p] \in 0 .. MaxGames /\ met[p] \in Nat /\ met[q] \in Nat
    BY <2>1 DEF TypeOK
  <2>3. Len(fate) \in Nat
    BY <2>2
  <2> QED BY <2>1, <2>2, <2>3, GameAssumption
<1>1. (Live(p) \/ Stopped(p)) /\ (Live(q) \/ Stopped(q))
  BY DEF IInv, NoReset, Live, Active, Stopped, Asked, Resets
<1>2. ~(Stopped(p) /\ Stopped(q))
  <2>1. Stopped(p) /\ Stopped(q) => met[p] = met[q]
    BY DEF IInv, Resets
  <2> QED BY <1>0, <2>1
<1>3. CASE Live(q)
  <2>1. PICK x \in Position, body \in Seq(PacketType), end \in Seq(PacketType) :
          \E o \in Parts(fate, p, x) :
           /\ Flow(fate, p, x, o, body, At(q), Heard(q), Signaled(q), localOk[q])
           /\ Fits(fate, x, game[p]) /\ met[p] = MetBy(fate, x, game[p])
           /\ chan[p] = body \o end
    BY <1>1, <1>3, Seen, ZenonT(40)
  <2>2. PICK o \in Parts(fate, p, x) :
           /\ Flow(fate, p, x, o, body, At(q), Heard(q), Signaled(q), localOk[q])
           /\ Fits(fate, x, game[p]) /\ met[p] = MetBy(fate, x, game[p])
           /\ chan[p] = body \o end
    BY <2>1
  <2>3. PICK y \in Position : y = At(q)
    BY <1>0, <1>3, AtPosition DEF IInv, Live
  <2>4. Fits(fate, y, game[p]) /\ met[q] = MetBy(fate, y, game[p])
    BY <1>0, <1>3, <2>3, MetWhere DEF IInv, Live
  <2>5. x # y
    BY <1>0, <2>2, <2>4
  <2>6. y # Following(fate, x)
    <3>1. SUFFICES ASSUME y = Following(fate, x) PROVE FALSE
      OBVIOUS
    <3>2. met[q] = met[p] \/ met[q] = met[p] + 1
      BY <1>0, <2>2, <2>4, <3>1, NextMet
    <3> QED BY <1>0, <3>2
  <2>7. /\ x = Following(fate, y) /\ Heard(q) \o body = Whole(fate, p, y) \o o /\ Signaled(q)
    BY <2>2, <2>3, <2>5, <2>6 DEF Flow
  <2>8. met[p] = met[q] + 1 /\ y.stage \in Meeting
    <3>1. met[p] = met[q] \/ (met[p] = met[q] + 1 /\ y.stage \in Meeting)
      BY <1>0, <2>2, <2>4, <2>7, NextMet
    <3> QED BY <1>0, <3>1
  <2>9. StageOf(q) \in Meeting /\ o \in Seq(PacketType)
    BY <1>0, <2>3, <2>8, Words DEF At
  <2> QED BY <1>0, <1>3, <2>2, <2>3, <2>7, <2>8, <2>9, ReadyComes
<1>4. CASE Live(p) /\ Stopped(q)
  <2>1. PICK x \in Position, body \in Seq(PacketType), end \in Seq(PacketType) :
          \E o \in Parts(fate, q, x) :
           /\ Flow(fate, q, x, o, body, At(p), Heard(p), Signaled(p), localOk[p])
           /\ Fits(fate, x, game[q]) /\ met[q] = MetBy(fate, x, game[q])
           /\ StopAt(q, x, o)
    BY <1>0, <1>4, Seen
  <2>2. PICK o \in Parts(fate, q, x) :
           /\ Flow(fate, q, x, o, body, At(p), Heard(p), Signaled(p), localOk[p])
           /\ Fits(fate, x, game[q]) /\ met[q] = MetBy(fate, x, game[q])
           /\ StopAt(q, x, o)
    BY <2>1
  <2>3. PICK y \in Position : y = At(p)
    BY <1>0, <1>4, AtPosition DEF IInv, Live
  <2>4. Fits(fate, y, game[p]) /\ met[p] = MetBy(fate, y, game[p])
    BY <1>0, <1>4, <2>3, MetWhere DEF IInv, Live
  <2>5. x # y
    BY <1>0, <2>2, <2>4
  <2>6. x # Following(fate, y)
    <3>1. SUFFICES ASSUME x = Following(fate, y) PROVE FALSE
      OBVIOUS
    <3>2. met[q] = met[p] \/ met[q] = met[p] + 1
      BY <1>0, <2>2, <2>4, <3>1, NextMet
    <3> QED BY <1>0, <3>2
  <2>7. y = Following(fate, x) /\ o \in Confirmed \cup {Whole(fate, q, x)}
    BY <2>2, <2>3, <2>5, <2>6 DEF Flow
  <2>8. x.stage \in {"toEnd", "toEnd2"}
    <3>1. x.stage \in {"chosen", "fight", "over"} \cup Fighting
      BY <2>2 DEF StopAt
    <3>2. o \notin Confirmed
      BY <1>0, <3>1, NotConfirmed DEF Fighting
    <3> QED BY <1>0, <2>2, <2>7, <3>1, <3>2, StopShort DEF StopAt, Fighting
  <2>9. met[p] = met[q]
    BY <1>0, <2>2, <2>4, <2>7, <2>8, NextMet DEF Meeting
  <2> QED BY <1>0, <2>9
<1> QED BY <1>1, <1>2, <1>3, <1>4

LEMMA FlagsFit == IInv => FlagsAgree
<1> SUFFICES ASSUME IInv PROVE FlagsAgree
  OBVIOUS
<1>1. TypeOK /\ Prepared /\ NoAssertionFails
  BY DEF IInv, Faultless, Prepared, NoAssertionFails
<1>2. ASSUME NEW p \in Party, NEW q \in Party, q = Peer(p)
      PROVE  /\ remoteReset[p] => localReset[p]
             /\ localReset[p] /\ ~remoteReset[p] =>
                  \/ \E i \in DOMAIN chan[p] : chan[p][i] = "RESET"
                  \/ \E i \in DOMAIN chan[q] : chan[q][i] = "RESET"
  <2>0. Peer(q) = p
    BY <1>2, PeerFacts
  <2>1. Resets(p) /\ Resets(q) /\ Outgoing(p) /\ Outgoing(q) /\ Peer(q) = p
    BY <2>0 DEF IInv
  <2>2. ASSUME localReset[p], ~remoteReset[p]
        PROVE  \/ \E i \in DOMAIN chan[p] : chan[p][i] = "RESET"
               \/ \E i \in DOMAIN chan[q] : chan[q][i] = "RESET"
    <3>1. Asked(p) /\ ~Told(p)
      BY <2>1, <2>2 DEF Resets, Asked, Told
    <3>2. PICK r \in Party : \E before, after \in Seq(PacketType) :
            (r = p \/ r = q) /\ chan[r] = before \o <<"RESET">> \o after
      <4>1. CASE Told(q)
        <5>1. Asked(q)
          BY <2>1, <4>1 DEF Resets, Told, Asked
        <5>2. \E before, after \in Seq(PacketType) : chan[q] = before \o <<"RESET">> \o after
          BY <2>1, <3>1, <5>1 DEF Outgoing
        <5> QED BY <5>2
      <4>2. CASE ~Told(q)
        <5>1. \E before, after \in Seq(PacketType) : chan[p] = before \o <<"RESET">> \o after
          BY <1>2, <2>1, <3>1, <4>2 DEF Outgoing
        <5> QED BY <5>1
      <4> QED BY <4>1, <4>2
    <3>3. PICK before \in Seq(PacketType), after \in Seq(PacketType) :
            (r = p \/ r = q) /\ chan[r] = before \o <<"RESET">> \o after
      BY <3>2
    <3>4. before \o <<"RESET">> \in Seq(PacketType) /\ Len(before \o <<"RESET">>) = Len(before) + 1
          /\ (before \o <<"RESET">>)[Len(before) + 1] = "RESET"
      BY Packets
    <3>5. Len(before) + 1 \in DOMAIN chan[r] /\ chan[r][Len(before) + 1] = "RESET"
      BY <3>3, <3>4
    <3> QED BY <3>3, <3>5
  <2> QED BY <2>1, <2>2 DEF Resets
<1>3. ResetNotLost
  BY <1>2, PeerFacts DEF ResetNotLost
<1> QED BY <1>1, <1>3 DEF FlagsAgree

-----------------------------------------------------------------------------

(* The inductive invariant holds until a game is begun with something left *)
(* of one that was reset: every machine has a place, what one has said     *)
(* there is what the other has heard with what is on its way, and a reset  *)
(* leaves nothing but flags of the negotiations and packets.               *)
THEOREM PlacesInvariant == Spec => [](hasty \/ Clean)
<1>1. Init => hasty \/ Clean
  BY InitIInv, InitLeftovers DEF Clean
<1>2. (hasty \/ Clean) /\ [Next]_vars => (hasty \/ Clean)'
  BY Inductive
<1> QED BY <1>1, <1>2, PTL DEF Spec

(* In every phase of a game the flags of both machines fit together: they  *)
(* fight with the same random seed and know each other's input delay, a    *)
(* reset that one side waits for is on its way, and the assertions of      *)
(* Netplay_localReady hold. This is so in any number of games, any of      *)
(* which may be left, until one is begun with something left of one that   *)
(* was reset.                                                              *)
THEOREM FlagsInvariant == Spec => []FlagsAgree
<1>1. hasty \/ Clean => FlagsAgree
  BY FlagsFit DEF Clean, FlagsAgree
<1> QED BY <1>1, PlacesInvariant, PTL

(* Unless a game is being reset, or one is begun with something left of    *)
(* one that was reset, a side passes a meeting only when the other waits   *)
(* there with the READY it needs on its way (negotiateReady).              *)
THEOREM MeetTogetherInvariant == Spec => []MeetTogether
<1>1. hasty \/ Clean => MeetTogether
  <2> SUFFICES ASSUME IInv, NoReset, NEW p \in Party, NEW q \in Party,
                      game[p] = game[q], met[p] > met[q]
               PROVE  /\ met[p] = met[q] + 1 /\ waiting[q]
                      /\ \E i \in DOMAIN chan[p] : chan[p][i] = "READY"
    BY DEF MeetTogether, Clean
  <2>1. q = Peer(p)
    <3>1. met[p] \in Nat
      BY DEF IInv, TypeOK
    <3>2. p # q
      BY <3>1
    <3> QED BY <3>2, PeerFacts
  <2> QED BY <2>1, Apart
<1> QED BY <1>1, PlacesInvariant, PTL

(* Only what a side still sends after its RESET is refused, by a side that *)
(* has returned to the menu, until a game is begun with something left of  *)
(* one that was reset: every packet of a game that is not being reset      *)
(* comes where its handler expects it.                                     *)
THEOREM LatePacketInvariant == Spec => []OnlyLatePacketRefused
<1>1. hasty \/ Clean => OnlyLatePacketRefused
  BY DEF Clean, IInv, Faultless, OnlyLatePacketRefused
<1> QED BY <1>1, PlacesInvariant, PTL
=============================================================================
