--------------------------- MODULE NetUpdateProofs ---------------------------
(***************************************************************************)
(* Proofs about the Update negotiation, for any set of values: the turns   *)
(* of the two sides never get out of step, and the two machines end with   *)
(* the same ship in a slot.                                                *)
(***************************************************************************)
EXTENDS NetUpdate, TLAPS

LEMMA PeerFacts ==
  ASSUME NEW p \in Party
  PROVE  /\ Peer(p) \in Party /\ Peer(p) # p
         /\ Peer(Peer(p)) = p
         /\ \A q \in Party : q = p \/ q = Peer(p)
<1>1. PICK a \in Party, b \in Party : a # b /\ Party = {a, b}
  BY PartyAssumption
<1>2. \A r \in Party : Peer(r) \in Party /\ Peer(r) # r
  <2>1. ASSUME NEW r \in Party PROVE \E q \in Party : q # r
    BY <1>1
  <2> QED BY <2>1 DEF Peer
<1> QED BY <1>1, <1>2

LEMMA OwnerFacts == Owner \in Party /\ Guest \in Party /\ Guest # Owner
BY PeerFacts, UpdateAssumption DEF Guest

-----------------------------------------------------------------------------
(* How a step changes the two channels.                                    *)

LEMMA Packets ==
  /\ INIT \in Packet /\ INIT.type = "INIT"
  /\ \A v \in Value : /\ Change(v) \in Packet
                      /\ Change(v).type = "UPDATE" /\ Change(v).value = v
  /\ \A x \in Packet : x.type = "UPDATE" => x.value \in Value /\ x = Change(x.value)
  /\ \A x \in Packet : x.type = "INIT" => x = INIT
<1>1. INIT.type = "INIT" /\ \A v : Change(v).type = "UPDATE" /\ Change(v).value = v
  BY DEF INIT, Change
<1>2. \A x \in Packet : x = INIT \/ \E v \in Value : x = Change(v)
  BY DEF Packet
<1>3. INIT \in Packet /\ \A v \in Value : Change(v) \in Packet
  BY DEF Packet
<1> QED BY <1>1, <1>2, <1>3

LEMMA ArrivesFacts ==
  ASSUME TypeOK, NEW p \in Party, NEW t, Arrives(p, t)
  PROVE  /\ chan[Peer(p)] \in Seq(Packet) /\ chan[Peer(p)] # <<>>
         /\ Head(chan[Peer(p)]) \in Packet /\ Head(chan[Peer(p)]).type = t
         /\ Tail(chan[Peer(p)]) \in Seq(Packet)
         /\ Len(chan[Peer(p)]) \in Nat /\ Len(chan[p]) \in Nat
         /\ Len(Tail(chan[Peer(p)])) = Len(chan[Peer(p)]) - 1
<1>1. chan[Peer(p)] \in Seq(Packet) /\ chan[p] \in Seq(Packet)
  BY PeerFacts DEF TypeOK
<1> QED BY <1>1 DEF Arrives

LEMMA TakeEffect ==
  ASSUME TypeOK, NEW p \in Party, NEW t, Arrives(p, t), Take(p)
  PROVE  /\ chan' \in [Party -> Seq(Packet)]
         /\ chan'[p] = chan[p] /\ chan'[Peer(p)] = Tail(chan[Peer(p)])
BY ArrivesFacts, PeerFacts DEF TypeOK, Take

LEMMA TakeAndSendEffect ==
  ASSUME TypeOK, NEW p \in Party, NEW t, Arrives(p, t),
         NEW v \in Value, TakeAndSend(p, v)
  PROVE  /\ chan' \in [Party -> Seq(Packet)]
         /\ chan'[p] = Append(chan[p], Change(v))
         /\ Len(chan'[p]) = Len(chan[p]) + 1
         /\ chan'[Peer(p)] = Tail(chan[Peer(p)])
         /\ lastSent' = [lastSent EXCEPT ![p] = v]
<1>1. chan[p] \in Seq(Packet) /\ Change(v) \in Packet
  BY Packets DEF TypeOK
<1>2. Append(chan[p], Change(v)) \in Seq(Packet)
      /\ Len(Append(chan[p], Change(v))) = Len(chan[p]) + 1
  BY <1>1
<1> QED BY <1>2, ArrivesFacts, PeerFacts DEF TypeOK, TakeAndSend

LEMMA NotifyEffect ==
  ASSUME TypeOK, NEW p \in Party, NEW v \in Value, Notify(p, v)
  PROVE  /\ chan' \in [Party -> Seq(Packet)]
         /\ chan'[Peer(p)] = chan[Peer(p)]
         /\ state[p] = "inSetup" =>
              /\ chan'[p] = Append(chan[p], Change(v))
              /\ Len(chan'[p]) = Len(chan[p]) + 1
              /\ lastSent' = [lastSent EXCEPT ![p] = v]
         /\ state[p] # "inSetup" => chan'[p] = chan[p] /\ lastSent' = lastSent
<1>1. chan[p] \in Seq(Packet) /\ Change(v) \in Packet
  BY Packets DEF TypeOK
<1>2. Append(chan[p], Change(v)) \in Seq(Packet)
      /\ Len(Append(chan[p], Change(v))) = Len(chan[p]) + 1
  BY <1>1
<1> QED BY <1>1, <1>2, PeerFacts DEF TypeOK, Notify

-----------------------------------------------------------------------------
(* As long as nobody edits before the peer's INIT, each side owes a packet *)
(* for its INIT and for its open turn, and what is noted as sent is what   *)
(* the packet said, as long as nobody edits within a turn.                 *)

Waits(p) == (IF state[p] = "init" THEN 1 ELSE 0) + (IF sent[p] # Unset THEN 1 ELSE 0)

SameSum(a, b, c, d) == a + b = c + d

Balance(p) ==
  SameSum(Len(chan[p]), Len(chan[Peer(p)]), Waits(p), Waits(Peer(p)))

NoteRight(p) == sent[p] # Unset => sent[p] = lastSent[p] /\ sent[p] = own[p]

(* The INIT is the first packet on its way to a side that waits for it.    *)
InitFirst(p) ==
  \A i \in 1 .. Len(chan[Peer(p)]) :
    chan[Peer(p)][i].type = "INIT" => i = 1 /\ state[p] = "init"

Inv ==
  /\ TypeOK
  /\ \A p \in Party : InitFirst(p)
  /\ ~early =>
       /\ \A p \in Party : state[p] = "init" => sent[p] = Unset
       /\ \A p \in Party : Balance(p)
       /\ ~again => \A p \in Party : NoteRight(p)

(* The arithmetic of the balance, apart from the channels and the turns.   *)
LEMMA SumFacts ==
  \A a, b, c, d \in Int : SameSum(a, b, c, d) =>
    /\ SameSum(a + 1, b, c + 1, d) /\ SameSum(b, a + 1, d, c + 1)
    /\ SameSum(a, b - 1, c - 1, d) /\ SameSum(b - 1, a, d, c - 1)
    /\ SameSum(a + 1, b - 1, c, d) /\ SameSum(b - 1, a + 1, d, c)
BY DEF SameSum

(* A packet is owed for each side when the connection is there.            *)
LEMMA FirstSum == SameSum(1, 1, 1, 1)
BY DEF SameSum

LEMMA WaitsFacts ==
  ASSUME NEW p
  PROVE  /\ Waits(p) \in Int
         /\ state[p] # "init" /\ sent[p] = Unset => Waits(p) = 0
         /\ state[p] # "init" /\ sent[p] # Unset => Waits(p) = 1
         /\ state[p] = "init" /\ sent[p] = Unset => Waits(p) = 1
BY DEF Waits

LEMMA WaitsFactsPrime ==
  ASSUME NEW p
  PROVE  /\ state'[p] # "init" /\ sent'[p] = Unset => Waits(p)' = 0
         /\ state'[p] # "init" /\ sent'[p] # Unset => Waits(p)' = 1
         /\ state'[p] = state[p] /\ sent'[p] = sent[p] => Waits(p)' = Waits(p)
BY DEF Waits

LEMMA ChannelFacts ==
  ASSUME TypeOK, NEW p \in Party
  PROVE  Len(chan[p]) \in Int /\ Len(chan[Peer(p)]) \in Int
<1>1. chan[p] \in Seq(Packet) /\ chan[Peer(p)] \in Seq(Packet)
  BY PeerFacts DEF TypeOK
<1> QED BY <1>1

(* The steps that keep the balance: a packet sent that opens a turn, a     *)
(* packet taken that ends one, and a packet answered.                      *)
LEMMA BalanceKept ==
  ASSUME TypeOK, NEW p \in Party, Balance(p), Waits(Peer(p))' = Waits(Peer(p)),
         \/ /\ Len(chan'[p]) = Len(chan[p]) + 1
            /\ Len(chan'[Peer(p)]) = Len(chan[Peer(p)])
            /\ Waits(p)' = Waits(p) + 1
         \/ /\ Len(chan'[p]) = Len(chan[p])
            /\ Len(chan'[Peer(p)]) = Len(chan[Peer(p)]) - 1
            /\ Waits(p)' = Waits(p) - 1
         \/ /\ Len(chan'[p]) = Len(chan[p]) + 1
            /\ Len(chan'[Peer(p)]) = Len(chan[Peer(p)]) - 1
            /\ Waits(p)' = Waits(p)
  PROVE  \A r \in Party : Balance(r)'
<1> DEFINE q == Peer(p)
<1>1. /\ Len(chan[p]) \in Int /\ Len(chan[q]) \in Int
      /\ Waits(p) \in Int /\ Waits(q) \in Int
  BY ChannelFacts, WaitsFacts
<1>2. SameSum(Len(chan[p]), Len(chan[q]), Waits(p), Waits(q))
  BY DEF Balance
<1>3. /\ SameSum(Len(chan[p]) + 1, Len(chan[q]), Waits(p) + 1, Waits(q))
      /\ SameSum(Len(chan[p]), Len(chan[q]) - 1, Waits(p) - 1, Waits(q))
      /\ SameSum(Len(chan[p]) + 1, Len(chan[q]) - 1, Waits(p), Waits(q))
      /\ SameSum(Len(chan[q]), Len(chan[p]) + 1, Waits(q), Waits(p) + 1)
      /\ SameSum(Len(chan[q]) - 1, Len(chan[p]), Waits(q), Waits(p) - 1)
      /\ SameSum(Len(chan[q]) - 1, Len(chan[p]) + 1, Waits(q), Waits(p))
  BY <1>1, <1>2, SumFacts, Zenon
<1>4. /\ SameSum(Len(chan'[p]), Len(chan'[q]), Waits(p)', Waits(q)')
      /\ SameSum(Len(chan'[q]), Len(chan'[p]), Waits(q)', Waits(p)')
  BY <1>3, Zenon
<1>5. Balance(p)' /\ Balance(q)'
  BY <1>4, PeerFacts, Zenon DEF Balance
<1> QED BY <1>5, PeerFacts

LEMMA InitFirstKept ==
  ASSUME TypeOK, \A r \in Party : InitFirst(r), NEW p \in Party,
         \/ chan'[Peer(p)] = chan[Peer(p)] /\ state' = state
         \/ /\ chan[Peer(p)] # <<>> /\ chan'[Peer(p)] = Tail(chan[Peer(p)])
            /\ state' = state \/ state' = [state EXCEPT ![p] = "inSetup"],
         \/ chan'[p] = chan[p]
         \/ \E v \in Value : chan'[p] = Append(chan[p], Change(v))
  PROVE  \A r \in Party : InitFirst(r)'
<1> DEFINE q == Peer(p)
<1>1. chan[p] \in Seq(Packet) /\ chan[q] \in Seq(Packet) /\ q \in Party /\ q # p /\ Peer(q) = p
  BY PeerFacts DEF TypeOK
<1>2. InitFirst(q)'
  <2>1. state'[q] = state[q]
    BY <1>1 DEF TypeOK
  <2>2. CASE chan'[p] = chan[p]
    BY <1>1, <2>1, <2>2 DEF InitFirst
  <2>3. ASSUME NEW v \in Value, chan'[p] = Append(chan[p], Change(v))
        PROVE  InitFirst(q)'
    <3>1. Change(v).type # "INIT"
      BY Packets
    <3>2. \A i \in 1 .. Len(chan'[p]) :
            IF i <= Len(chan[p]) THEN i \in 1 .. Len(chan[p]) /\ chan'[p][i] = chan[p][i]
                                 ELSE chan'[p][i] = Change(v)
      BY <1>1, <2>3
    <3> QED BY <1>1, <2>1, <3>1, <3>2 DEF InitFirst
  <2> QED BY <2>2, <2>3
<1>3. InitFirst(p)'
  <2>1. CASE chan'[q] = chan[q] /\ state' = state
    BY <2>1 DEF InitFirst
  <2>2. CASE chan[q] # <<>> /\ chan'[q] = Tail(chan[q])
    <3>1. \A i \in 1 .. Len(chan'[q]) :
            i + 1 \in 1 .. Len(chan[q]) /\ i + 1 # 1 /\ chan'[q][i] = chan[q][i + 1]
      BY <1>1, <2>2
    <3> QED BY <3>1 DEF InitFirst
  <2> QED BY <2>1, <2>2
<1> QED BY <1>2, <1>3, PeerFacts

LEMMA InvInit == Init => Inv
<1> SUFFICES ASSUME Init PROVE Inv
  OBVIOUS
<1>1. TypeOK
  <2>1. <<INIT>> \in Seq(Packet)
    BY Packets
  <2>2. chan \in [Party -> Seq(Packet)]
    BY <2>1 DEF Init
  <2> QED BY <2>2 DEF Init, TypeOK
<1>2. ASSUME NEW p \in Party PROVE Balance(p)
  <2>1. Len(chan[p]) = 1 /\ Len(chan[Peer(p)]) = 1
    BY PeerFacts DEF Init
  <2>2. Waits(p) = 1 /\ Waits(Peer(p)) = 1
    BY PeerFacts DEF Init, Waits
  <2> QED BY <2>1, <2>2, FirstSum, Zenon DEF Balance
<1>3. ASSUME NEW p \in Party PROVE InitFirst(p)
  BY PeerFacts DEF Init, InitFirst
<1>4. \A p \in Party : sent[p] = Unset
  BY DEF Init
<1> QED BY <1>1, <1>2, <1>3, <1>4 DEF Inv, NoteRight

LEMMA InvLocalChange ==
  ASSUME Inv, NEW p \in Party, LocalChange(p)
  PROVE  Inv'
<1> DEFINE q == Peer(p)
<1>1. PICK v \in Value :
        /\ own' = [own EXCEPT ![p] = v]
        /\ IF sent[p] = Unset
           THEN Notify(p, v) /\ sent' = [sent EXCEPT ![p] = v]
           ELSE UNCHANGED <<chan, lastSent, sent>>
  BY DEF LocalChange
<1>2. /\ early' = (early \/ state[p] = "init") /\ again' = (again \/ sent[p] # Unset)
      /\ UNCHANGED <<state, aborted, handler>>
  BY DEF LocalChange
<1>3. TypeOK
  BY DEF Inv
<1>4. TypeOK'
  <2>1. chan' \in [Party -> Seq(Packet)] /\ lastSent' \in [Party -> Value \cup {Unset}]
    <3>1. CASE sent[p] # Unset
      BY <1>1, <1>3, <3>1 DEF TypeOK
    <3>2. CASE sent[p] = Unset
      <4>1. Notify(p, v)
        BY <1>1, <3>2
      <4>2. CASE state[p] = "inSetup"
        BY <1>3, <4>1, <4>2, NotifyEffect, ZenonT(30) DEF TypeOK
      <4>3. CASE state[p] # "inSetup"
        BY <1>3, <4>1, <4>3, NotifyEffect DEF TypeOK
      <4> QED BY <4>2, <4>3
    <3> QED BY <3>1, <3>2
  <2> QED BY <1>1, <1>2, <1>3, <2>1 DEF TypeOK
<1>5. ASSUME ~early'
      PROVE  /\ \A r \in Party : state'[r] = "init" => sent'[r] = Unset
             /\ \A r \in Party : Balance(r)'
             /\ ~again' => \A r \in Party : NoteRight(r)'
  <2>1. ~early /\ state[p] = "inSetup"
    BY <1>2, <1>3, <1>5 DEF TypeOK
  <2>2. CASE sent[p] # Unset
    <3>1. /\ UNCHANGED <<state, chan, sent, lastSent>> /\ again'
          /\ \A r \in Party : Balance(r)
      BY <1>1, <1>2, <2>1, <2>2 DEF Inv
    <3>2. \A r \in Party : Balance(r)'
      BY <3>1 DEF Balance, Waits
    <3> QED BY <2>1, <3>1, <3>2 DEF Inv
  <2>3. CASE sent[p] = Unset
    <3>1. /\ Len(chan'[p]) = Len(chan[p]) + 1 /\ chan'[q] = chan[q]
          /\ lastSent' = [lastSent EXCEPT ![p] = v]
      BY <1>1, <1>3, <2>1, <2>3, NotifyEffect
    <3>2. sent'[p] = v /\ v # Unset /\ own'[p] = v /\ lastSent'[p] = v
      BY <1>1, <1>3, <2>3, <3>1, UpdateAssumption DEF TypeOK
    <3>3. \A r \in Party \ {p} :
            sent'[r] = sent[r] /\ own'[r] = own[r] /\ lastSent'[r] = lastSent[r]
      BY <1>1, <1>3, <2>3, <3>1 DEF TypeOK
    <3>4. \A r \in Party : Balance(r)'
      <4>1. Balance(p) /\ q \in Party \ {p}
        BY <2>1, PeerFacts DEF Inv
      <4>2. Waits(p) = 0 /\ Waits(p)' = 1 /\ Waits(q)' = Waits(q)
        BY <1>2, <2>1, <2>3, <3>2, <3>3, <4>1, WaitsFacts, WaitsFactsPrime
      <4>3. Waits(p)' = Waits(p) + 1 /\ Len(chan'[q]) = Len(chan[q])
        BY <3>1, <4>2
      <4> QED BY <1>3, <3>1, <4>1, <4>2, <4>3, BalanceKept
    <3> QED BY <1>2, <2>1, <3>2, <3>3, <3>4 DEF Inv, NoteRight
  <2> QED BY <2>2, <2>3
<1>6. \A r \in Party : InitFirst(r)'
  <2>1. CASE sent[p] = Unset /\ state[p] = "inSetup"
    <3>1. chan'[p] = Append(chan[p], Change(v)) /\ chan'[q] = chan[q]
      BY <1>1, <1>3, <2>1, NotifyEffect
    <3> QED BY <1>2, <1>3, <3>1, InitFirstKept DEF Inv
  <2>2. CASE ~(sent[p] = Unset /\ state[p] = "inSetup")
    <3>1. chan'[p] = chan[p] /\ chan'[q] = chan[q]
      BY <1>1, <1>3, <2>2, NotifyEffect
    <3> QED BY <1>2, <1>3, <3>1, InitFirstKept DEF Inv
  <2> QED BY <2>1, <2>2
<1> QED BY <1>4, <1>5, <1>6 DEF Inv

LEMMA InvHandleInit ==
  ASSUME Inv, NEW p \in Party, HandleInit(p)
  PROVE  Inv'
<1> DEFINE q == Peer(p)
<1>1. /\ TypeOK /\ Arrives(p, "INIT") /\ state' = [state EXCEPT ![p] = "inSetup"]
      /\ UNCHANGED <<own, early, again, handler>>
  BY DEF HandleInit, Inv
<1>2. /\ chan[q] # <<>> /\ Len(chan[q]) \in Nat /\ Len(chan[p]) \in Nat
      /\ Len(Tail(chan[q])) = Len(chan[q]) - 1 /\ q \in Party /\ q # p
  BY <1>1, ArrivesFacts, PeerFacts
<1>3. state[p] = "init"
  <2>1. chan[q] \in Seq(Packet) /\ Head(chan[q]).type = "INIT"
    BY <1>1, ArrivesFacts
  <2>2. 1 \in 1 .. Len(chan[q]) /\ Head(chan[q]) = chan[q][1]
    BY <1>2, <2>1
  <2> QED BY <2>1, <2>2 DEF Inv, InitFirst
<1>4. state'[p] = "inSetup" /\ state'[q] = state[q]
  BY <1>1, <1>2 DEF TypeOK
<1>5. CASE p = Owner
  <2>1. Take(p) /\ UNCHANGED <<sent, lastSent, aborted>>
    BY <1>5 DEF HandleInit
  <2>2. chan' \in [Party -> Seq(Packet)] /\ chan'[p] = chan[p] /\ chan'[q] = Tail(chan[q])
    BY <1>1, <2>1, TakeEffect
  <2>3. TypeOK'
    BY <1>1, <2>1, <2>2 DEF TypeOK
  <2>4. \A r \in Party : InitFirst(r)'
    BY <1>1, <1>2, <2>2, InitFirstKept DEF Inv
  <2>5. ASSUME ~early PROVE \A r \in Party : Balance(r)'
    <3>1. Balance(p)
      BY <2>5 DEF Inv
    <3>2. sent[p] = Unset
      BY <1>3, <2>5 DEF Inv
    <3>3. Waits(p) = 1 /\ Waits(p)' = 0 /\ Waits(q)' = Waits(q)
      BY <1>3, <1>4, <2>1, <3>2, WaitsFacts, WaitsFactsPrime
    <3>4. Waits(p)' = Waits(p) - 1 /\ Len(chan'[q]) = Len(chan[q]) - 1
      BY <1>2, <2>2, <3>3
    <3> QED BY <1>1, <2>2, <3>1, <3>3, <3>4, BalanceKept
  <2>6. \A r \in Party : state'[r] = "init" => state[r] = "init"
    BY <1>1 DEF TypeOK
  <2> QED BY <1>1, <2>1, <2>3, <2>4, <2>5, <2>6 DEF Inv, NoteRight
<1>6. CASE p # Owner
  <2>1. /\ TakeAndSend(p, own[p]) /\ sent' = [sent EXCEPT ![p] = own[p]]
        /\ aborted' = [aborted EXCEPT ![p] = handler = "ship" /\ sent[p] # Unset]
    BY <1>6 DEF HandleInit
  <2>2. own[p] \in Value /\ own[p] # Unset
    BY <1>1, UpdateAssumption DEF TypeOK
  <2>3. /\ chan' \in [Party -> Seq(Packet)] /\ chan'[p] = Append(chan[p], Change(own[p]))
        /\ Len(chan'[p]) = Len(chan[p]) + 1 /\ chan'[q] = Tail(chan[q])
        /\ lastSent' = [lastSent EXCEPT ![p] = own[p]]
    BY <1>1, <2>1, <2>2, TakeAndSendEffect
  <2>4. aborted' \in [Party -> BOOLEAN]
    BY <1>1, <2>1, Zenon DEF TypeOK
  <2>5. TypeOK'
    BY <1>1, <2>1, <2>2, <2>3, <2>4 DEF TypeOK
  <2>6. \A r \in Party : InitFirst(r)'
    BY <1>1, <1>2, <2>2, <2>3, InitFirstKept DEF Inv
  <2>7. /\ sent'[p] = own[p] /\ lastSent'[p] = own[p]
        /\ \A r \in Party \ {p} : sent'[r] = sent[r] /\ lastSent'[r] = lastSent[r]
    BY <1>1, <2>1, <2>3 DEF TypeOK
  <2>8. ASSUME ~early PROVE \A r \in Party : Balance(r)'
    <3>1. Balance(p) /\ sent[p] = Unset
      BY <1>3, <2>8 DEF Inv
    <3>2. Waits(p) = 1 /\ Waits(p)' = 1 /\ Waits(q)' = Waits(q)
      BY <1>2, <1>3, <1>4, <2>2, <2>7, <3>1, WaitsFacts, WaitsFactsPrime
    <3>3. Waits(p)' = Waits(p) /\ Len(chan'[q]) = Len(chan[q]) - 1
      BY <1>2, <2>3, <3>2
    <3> QED BY <1>1, <2>3, <3>1, <3>2, <3>3, BalanceKept
  <2>9. ASSUME NEW r \in Party PROVE state'[r] = "init" => state[r] = "init" /\ r # p
    BY <1>1 DEF TypeOK
  <2> QED BY <1>1, <2>5, <2>6, <2>7, <2>8, <2>9 DEF Inv, NoteRight
<1> QED BY <1>5, <1>6

(* The packet of a turn: it ends the turn of p, or p answers it.           *)
LEMMA InvHandleUpdate ==
  ASSUME Inv, NEW p \in Party, HandleUpdate(p)
  PROVE  Inv'
<1> DEFINE q == Peer(p)
           v == Head(chan[q]).value
<1>1. /\ TypeOK /\ Arrives(p, "UPDATE") /\ state[p] = "inSetup"
      /\ UNCHANGED <<state, aborted, early, again, handler>>
  BY DEF HandleUpdate, Inv
<1>2. /\ chan[q] # <<>> /\ Len(chan[q]) \in Nat /\ Len(chan[p]) \in Nat
      /\ Len(Tail(chan[q])) = Len(chan[q]) - 1 /\ q \in Party /\ q # p
  BY <1>1, ArrivesFacts, PeerFacts
<1>3. v \in Value /\ v # Unset
  BY <1>1, ArrivesFacts, Packets, UpdateAssumption
<1>4. \/ AdoptAndConfirm(p, v)
      \/ sent[p] # Unset /\ AdoptAndEndTurn(p, v)
      \/ sent[p] # Unset /\ own[p] = sent[p] /\ Take(p) /\ UNCHANGED <<own, lastSent>>
         /\ sent' = [sent EXCEPT ![p] = Unset]
      \/ sent[p] # Unset /\ own[p] # sent[p] /\ TakeAndSend(p, own[p])
         /\ sent' = [sent EXCEPT ![p] = v] /\ UNCHANGED own
  BY DEF HandleUpdate, RemoteChangeShip, RemoteChangeTeamName, KeepAndEndTurn
<1>5. ASSUME Take(p), UNCHANGED lastSent, sent[p] # Unset,
             sent' = [sent EXCEPT ![p] = Unset],
             own' = own \/ own' = [own EXCEPT ![p] = v]
      PROVE  Inv'
  <2>1. chan' \in [Party -> Seq(Packet)] /\ chan'[p] = chan[p] /\ chan'[q] = Tail(chan[q])
    BY <1>1, <1>5, TakeEffect
  <2>2. sent'[p] = Unset /\ \A r \in Party \ {p} : sent'[r] = sent[r] /\ own'[r] = own[r]
    BY <1>1, <1>5 DEF TypeOK
  <2>3. TypeOK'
    BY <1>1, <1>3, <1>5, <2>1 DEF TypeOK
  <2>4. \A r \in Party : InitFirst(r)'
    BY <1>1, <1>2, <2>1, InitFirstKept DEF Inv
  <2>5. ASSUME ~early PROVE \A r \in Party : Balance(r)'
    <3>1. Waits(p) = 1 /\ Waits(p)' = 0 /\ Waits(q)' = Waits(q)
      BY <1>1, <1>2, <1>5, <2>2, WaitsFacts, WaitsFactsPrime
    <3>2. Waits(p)' = Waits(p) - 1 /\ Len(chan'[q]) = Len(chan[q]) - 1
      BY <1>2, <2>1, <3>1
    <3> QED BY <1>1, <2>1, <2>5, <3>1, <3>2, BalanceKept DEF Inv
  <2> QED BY <1>1, <1>5, <2>2, <2>3, <2>4, <2>5 DEF Inv, NoteRight
<1>6. ASSUME NEW w \in Value, TakeAndSend(p, w),
             \/ sent[p] = Unset /\ sent' = sent /\ own' = [own EXCEPT ![p] = v]
             \/ /\ sent[p] # Unset /\ own[p] # sent[p]
                /\ sent' = [sent EXCEPT ![p] = v] /\ own' = own
      PROVE  Inv'
  <2>1. /\ chan' \in [Party -> Seq(Packet)] /\ chan'[p] = Append(chan[p], Change(w))
        /\ Len(chan'[p]) = Len(chan[p]) + 1 /\ chan'[q] = Tail(chan[q])
        /\ lastSent' = [lastSent EXCEPT ![p] = w]
    BY <1>1, <1>6, TakeAndSendEffect
  <2>2. /\ sent'[p] = Unset <=> sent[p] = Unset
        /\ \A r \in Party \ {p} :
              sent'[r] = sent[r] /\ own'[r] = own[r] /\ lastSent'[r] = lastSent[r]
    BY <1>1, <1>3, <1>6, <2>1 DEF TypeOK
  <2>3. TypeOK'
    BY <1>1, <1>3, <1>6, <2>1 DEF TypeOK
  <2>4. \A r \in Party : InitFirst(r)'
    BY <1>1, <1>2, <1>6, <2>1, InitFirstKept DEF Inv
  <2>5. ASSUME ~early PROVE \A r \in Party : Balance(r)'
    <3>1. Waits(p)' = Waits(p) /\ Waits(q)' = Waits(q)
      BY <1>1, <1>2, <2>2, WaitsFacts, WaitsFactsPrime
    <3>2. Len(chan'[q]) = Len(chan[q]) - 1
      BY <1>2, <2>1
    <3> QED BY <1>1, <2>1, <2>5, <3>1, <3>2, BalanceKept DEF Inv
  <2>6. ASSUME ~early, ~again PROVE sent[p] = Unset
    BY <1>6, <2>6 DEF Inv, NoteRight
  <2>7. ASSUME ~early PROVE \A r \in Party : state'[r] = "init" => sent'[r] = Unset
    BY <1>1, <2>2, <2>7 DEF Inv
  <2>8. ASSUME ~early, ~again, NEW r \in Party PROVE NoteRight(r)'
    <3>1. NoteRight(r)
      BY <2>8 DEF Inv
    <3> QED BY <2>2, <2>6, <2>8, <3>1 DEF NoteRight
  <2> QED BY <1>1, <2>3, <2>4, <2>5, <2>7, <2>8 DEF Inv
<1>7. own[p] \in Value
  BY <1>1 DEF TypeOK
<1>8. CASE AdoptAndConfirm(p, v)
  BY <1>3, <1>6, <1>8 DEF AdoptAndConfirm
<1>9. CASE sent[p] # Unset /\ AdoptAndEndTurn(p, v)
  BY <1>5, <1>9 DEF AdoptAndEndTurn
<1> QED BY <1>4, <1>5, <1>6, <1>7, <1>8, <1>9

LEMMA InvStep ==
  ASSUME Inv, [Next]_vars
  PROVE  Inv'
<1>1. ASSUME NEW p \in Party, LocalChange(p) PROVE Inv'
  BY <1>1, InvLocalChange
<1>2. ASSUME NEW p \in Party, Receive(p) PROVE Inv'
  BY <1>2, InvHandleInit, InvHandleUpdate DEF Receive
<1>3. ASSUME UNCHANGED vars PROVE Inv'
  <2>1. /\ UNCHANGED <<state, own, sent, chan, lastSent, early, again>>
        /\ TypeOK' = TypeOK
    BY <1>3 DEF vars, TypeOK
  <2>2. \A p \in Party : /\ InitFirst(p) => InitFirst(p)'
                         /\ Balance(p) => Balance(p)'
                         /\ NoteRight(p) => NoteRight(p)'
    BY <2>1, Zenon DEF InitFirst, Balance, Waits, NoteRight
  <2> QED BY <2>1, <2>2 DEF Inv
<1> QED BY <1>1, <1>2, <1>3 DEF Next, Edit

(* The balance is the account of the turns once both sides are in setup.   *)
LEMMA InvImplies == Inv => TurnsInStep
<1> SUFFICES ASSUME Inv PROVE TurnsInStep
  OBVIOUS
<1>1. TypeOK
  BY DEF Inv
<1>2. ASSUME InSetup, ~early PROVE TurnAccounting
  <2>1. Balance(Owner) /\ Guest = Peer(Owner)
    BY <1>2, OwnerFacts DEF Inv, Guest
  <2>2. \A p \in Party : Waits(p) = IF sent[p] # Unset THEN 1 ELSE 0
    BY <1>2, WaitsFacts DEF InSetup
  <2>3. Len(chan[Owner]) + Len(chan[Guest]) = Waits(Owner) + Waits(Guest)
    BY <2>1 DEF Balance, SameSum
  <2> QED BY <2>2, <2>3, OwnerFacts DEF TurnAccounting
<1>3. SentIsWhatWasSent
  BY DEF Inv, NoteRight, SentIsWhatWasSent
<1> QED BY <1>1, <1>2, <1>3 DEF TurnsInStep, TurnAccounting

-----------------------------------------------------------------------------
(* Whatever the values are and whatever the players change, the packets on *)
(* their way and the open turns of Melee_LocalChange_* and                 *)
(* Melee_RemoteChange_* (melee.c) balance, so neither side takes a packet  *)
(* for the end of a turn which it did not open, and sentTeams holds what   *)
(* was sent unless a player edited within a turn.                          *)
THEOREM TurnsCorrect == Spec => []TurnsInStep
<1>1. Init => Inv
  BY InvInit
<1>2. Inv /\ [Next]_vars => Inv'
  BY InvStep
<1>3. Inv => TurnsInStep
  BY InvImplies
<1> QED BY <1>1, <1>2, <1>3, PTL DEF Spec

-----------------------------------------------------------------------------
(* Agreement on a ship. The last packet of the owner tells its value; so   *)
(* does that of the guest as long as the guest waits; and a guest that     *)
(* does not wait, with nothing more to hear from the owner, has its value. *)

Latest(p) == chan[p][Len(chan[p])]

OwnerTells ==
  chan[Owner] # <<>> /\ Latest(Owner).type = "UPDATE" => Latest(Owner).value = own[Owner]

Told == sent[Guest] = Unset /\ chan[Owner] = <<>> => own[Guest] = own[Owner]

ShipInv ==
  /\ Inv
  /\ handler = "ship" /\ ~again /\ ~early => OwnerTells /\ Told

LEMMA LatestOfTail ==
  ASSUME NEW S, NEW s \in Seq(S), s # <<>>
  PROVE  /\ Tail(s) # <<>> => Tail(s)[Len(Tail(s))] = s[Len(s)]
         /\ Tail(s) = <<>> => Head(s) = s[Len(s)]
<1>1. /\ Tail(s) \in Seq(S) /\ Len(s) \in Nat /\ Len(s) >= 1
      /\ Len(Tail(s)) = Len(s) - 1 /\ Head(s) = s[1]
      /\ \A i \in 1 .. Len(Tail(s)) : Tail(s)[i] = s[i + 1]
  OBVIOUS
<1>2. ASSUME Tail(s) # <<>> PROVE Tail(s)[Len(Tail(s))] = s[Len(s)]
  <2>1. Len(Tail(s)) \in 1 .. Len(Tail(s))
    BY <1>1, <1>2
  <2>2. Len(Tail(s)) + 1 = Len(s)
    BY <1>1
  <2> QED BY <1>1, <2>1, <2>2
<1>3. ASSUME Tail(s) = <<>> PROVE Head(s) = s[Len(s)]
  <2>1. Len(Tail(s)) = 0
    <3>1. Len(<<>>) = 0
      OBVIOUS
    <3> QED BY <1>3, <3>1, Zenon
  <2>2. Len(s) = 1
    <3>1. \A n \in Nat : n - 1 = 0 => n = 1
      OBVIOUS
    <3> QED BY <1>1, <2>1, <3>1, Zenon
  <2> QED BY <1>1, <2>2
<1> QED BY <1>2, <1>3

LEMMA LatestOfAppend ==
  ASSUME NEW S, NEW s \in Seq(S), NEW x \in S
  PROVE  Append(s, x) # <<>> /\ Append(s, x)[Len(Append(s, x))] = x
OBVIOUS

LEMMA OwnerFactsShip ==
  /\ Owner \in Party /\ Guest \in Party /\ Guest # Owner
  /\ Peer(Owner) = Guest /\ Peer(Guest) = Owner
  /\ \A p \in Party : p = Owner \/ p = Guest
BY PeerFacts, OwnerFacts DEF Guest

(* A step after which the owner has just sent its value.                   *)
LEMMA OwnerJustTold ==
  ASSUME TypeOK, chan'[Owner] = Append(chan[Owner], Change(own'[Owner])),
         own'[Owner] \in Value
  PROVE  OwnerTells' /\ Told'
<1>1. chan[Owner] \in Seq(Packet) /\ Change(own'[Owner]) \in Packet
  BY OwnerFactsShip, Packets DEF TypeOK
<1>2. chan'[Owner] # <<>> /\ chan'[Owner][Len(chan'[Owner])] = Change(own'[Owner])
  BY <1>1, LatestOfAppend
<1> QED BY <1>2, Packets DEF OwnerTells, Told, Latest

LEMMA ShipLocalChange ==
  ASSUME ShipInv, NEW p \in Party, LocalChange(p),
         handler = "ship", ~again', ~early'
  PROVE  OwnerTells' /\ Told'
<1>1. PICK v \in Value :
        /\ own' = [own EXCEPT ![p] = v]
        /\ IF sent[p] = Unset
           THEN Notify(p, v) /\ sent' = [sent EXCEPT ![p] = v]
           ELSE UNCHANGED <<chan, lastSent, sent>>
  BY DEF LocalChange
<1>2. /\ TypeOK /\ ~again /\ ~early /\ sent[p] = Unset /\ state[p] = "inSetup"
      /\ OwnerTells /\ Told
  BY DEF LocalChange, ShipInv, Inv, TypeOK
<1>3. /\ chan'[p] = Append(chan[p], Change(v)) /\ chan'[Peer(p)] = chan[Peer(p)]
  BY <1>1, <1>2, NotifyEffect
<1>4. own'[p] = v /\ sent'[p] = v /\ v # Unset
  BY <1>1, <1>2, UpdateAssumption DEF TypeOK
<1>5. CASE p = Owner
  BY <1>2, <1>3, <1>4, <1>5, OwnerJustTold
<1>6. CASE p = Guest
  <2>1. own'[Owner] = own[Owner] /\ chan'[Owner] = chan[Owner]
    BY <1>1, <1>2, <1>3, <1>6, OwnerFactsShip DEF TypeOK
  <2> QED BY <1>2, <1>4, <1>6, <2>1 DEF OwnerTells, Told, Latest
<1> QED BY <1>5, <1>6, OwnerFactsShip

LEMMA ShipHandleInit ==
  ASSUME ShipInv, NEW p \in Party, HandleInit(p),
         handler = "ship", ~again, ~early
  PROVE  OwnerTells' /\ Told'
<1>1. TypeOK /\ OwnerTells /\ Told /\ Arrives(p, "INIT") /\ UNCHANGED own
  BY DEF ShipInv, Inv, HandleInit
<1>2. CASE p = Owner
  <2>1. chan'[Owner] = chan[Owner] /\ UNCHANGED sent
    BY <1>1, <1>2, TakeEffect DEF HandleInit
  <2> QED BY <1>1, <2>1 DEF OwnerTells, Told, Latest
<1>3. CASE p = Guest
  <2>1. TakeAndSend(p, own[p]) /\ sent' = [sent EXCEPT ![p] = own[p]]
    BY <1>3, OwnerFactsShip DEF HandleInit
  <2>2. own[p] \in Value /\ own[p] # Unset
    BY <1>1, UpdateAssumption DEF TypeOK
  <2>3. chan'[Owner] = Tail(chan[Owner]) /\ sent'[Guest] # Unset
    BY <1>1, <1>3, <2>1, <2>2, TakeAndSendEffect, OwnerFactsShip DEF TypeOK
  <2>4. chan[Owner] \in Seq(Packet) /\ chan[Owner] # <<>>
    BY <1>1, <1>3, ArrivesFacts, OwnerFactsShip
  <2>5. Tail(chan[Owner]) # <<>> =>
          Tail(chan[Owner])[Len(Tail(chan[Owner]))] = chan[Owner][Len(chan[Owner])]
    BY <2>4, LatestOfTail
  <2> QED BY <1>1, <2>3, <2>4, <2>5 DEF OwnerTells, Told, Latest
<1> QED BY <1>2, <1>3, OwnerFactsShip

(* The owner wins: it never gives up a value which it sent.                *)
LEMMA ShipOwnerUpdate ==
  ASSUME ShipInv, HandleUpdate(Owner), handler = "ship", ~again, ~early
  PROVE  OwnerTells' /\ Told'
<1> DEFINE v == Head(chan[Guest]).value
<1>1. /\ TypeOK /\ OwnerTells /\ Told /\ Arrives(Owner, "UPDATE")
      /\ sent[Owner] # Unset => sent[Owner] = own[Owner]
  BY OwnerFactsShip DEF ShipInv, Inv, NoteRight, HandleUpdate
<1>2. v \in Value
  BY <1>1, ArrivesFacts, Packets, OwnerFactsShip
<1>3. AdoptAndConfirm(Owner, v) \/ (sent[Owner] # Unset /\ KeepAndEndTurn(Owner, v))
  <2>1. RemoteChangeShip(Owner, v)
    BY OwnerFactsShip DEF HandleUpdate
  <2> QED BY <2>1, Zenon DEF RemoteChangeShip, Wins
<1>4. CASE AdoptAndConfirm(Owner, v)
  <2>1. own'[Owner] = v /\ chan'[Owner] = Append(chan[Owner], Change(v))
    BY <1>1, <1>2, <1>4, TakeAndSendEffect, OwnerFactsShip DEF AdoptAndConfirm, TypeOK
  <2> QED BY <1>1, <1>2, <2>1, OwnerJustTold
<1>5. CASE sent[Owner] # Unset /\ KeepAndEndTurn(Owner, v)
  <2>1. Take(Owner) /\ sent' = [sent EXCEPT ![Owner] = Unset] /\ UNCHANGED own
    BY <1>1, <1>5 DEF KeepAndEndTurn
  <2>2. chan'[Owner] = chan[Owner]
    BY <1>1, <2>1, TakeEffect, OwnerFactsShip
  <2>3. sent'[Guest] = sent[Guest]
    BY <1>1, <2>1, OwnerFactsShip DEF TypeOK
  <2> QED BY <1>1, <2>1, <2>2, <2>3 DEF OwnerTells, Told, Latest
<1> QED BY <1>3, <1>4, <1>5

(* The guest holds the value it took from the channel when its turn ends.  *)
LEMMA ShipGuestUpdate ==
  ASSUME ShipInv, HandleUpdate(Guest), handler = "ship", ~again, ~early
  PROVE  OwnerTells' /\ Told'
<1> DEFINE v == Head(chan[Owner]).value
<1>1. /\ TypeOK /\ OwnerTells /\ Arrives(Guest, "UPDATE")
      /\ sent[Guest] # Unset => sent[Guest] = own[Guest]
  BY OwnerFactsShip DEF ShipInv, Inv, NoteRight, HandleUpdate
<1>2. /\ v \in Value /\ Head(chan[Owner]).type = "UPDATE"
      /\ chan[Owner] \in Seq(Packet) /\ chan[Owner] # <<>>
  BY <1>1, ArrivesFacts, Packets, OwnerFactsShip
<1>3. \/ AdoptAndConfirm(Guest, v)
      \/ AdoptAndEndTurn(Guest, v)
      \/ sent[Guest] # Unset /\ v = sent[Guest] /\ KeepAndEndTurn(Guest, v)
  BY OwnerFactsShip DEF HandleUpdate, RemoteChangeShip, Wins
<1>4. own'[Guest] = v /\ own'[Owner] = own[Owner] /\ chan'[Owner] = Tail(chan[Owner])
  <2>1. CASE AdoptAndConfirm(Guest, v)
    BY <1>1, <1>2, <2>1, TakeAndSendEffect, OwnerFactsShip DEF AdoptAndConfirm, TypeOK
  <2>2. CASE AdoptAndEndTurn(Guest, v)
    BY <1>1, <2>2, TakeEffect, OwnerFactsShip DEF AdoptAndEndTurn, TypeOK
  <2>3. CASE sent[Guest] # Unset /\ v = sent[Guest] /\ KeepAndEndTurn(Guest, v)
    BY <1>1, <2>3, TakeEffect, OwnerFactsShip DEF KeepAndEndTurn, TypeOK
  <2> QED BY <1>3, <2>1, <2>2, <2>3
<1>5. /\ Tail(chan[Owner]) # <<>> =>
            Tail(chan[Owner])[Len(Tail(chan[Owner]))] = chan[Owner][Len(chan[Owner])]
      /\ Tail(chan[Owner]) = <<>> => Head(chan[Owner]) = chan[Owner][Len(chan[Owner])]
  BY <1>2, LatestOfTail
<1>6. OwnerTells'
  BY <1>1, <1>2, <1>4, <1>5 DEF OwnerTells, Latest
<1>7. Told'
  BY <1>1, <1>2, <1>4, <1>5 DEF OwnerTells, Told, Latest
<1> QED BY <1>6, <1>7

LEMMA ShipInit == Init => ShipInv
<1> SUFFICES ASSUME Init PROVE ShipInv
  OBVIOUS
<1>1. chan[Owner] = <<INIT>> /\ INIT.type # "UPDATE"
  BY OwnerFacts, Packets DEF Init
<1>2. chan[Owner] # <<>> /\ Latest(Owner) = INIT
  BY <1>1 DEF Latest
<1> QED BY <1>1, <1>2, InvInit DEF ShipInv, OwnerTells, Told

LEMMA ShipStep ==
  ASSUME ShipInv, [Next]_vars
  PROVE  ShipInv'
<1>1. Inv'
  BY InvStep DEF ShipInv
<1>2. ASSUME handler' = "ship", ~again', ~early' PROVE OwnerTells' /\ Told'
  <2>1. ASSUME NEW p \in Party, LocalChange(p) PROVE OwnerTells' /\ Told'
    BY <1>2, <2>1, ShipLocalChange DEF LocalChange
  <2>2. ASSUME NEW p \in Party, HandleInit(p) PROVE OwnerTells' /\ Told'
    BY <1>2, <2>2, ShipHandleInit DEF HandleInit
  <2>3. ASSUME NEW p \in Party, HandleUpdate(p) PROVE OwnerTells' /\ Told'
    <3>1. handler = "ship" /\ ~again /\ ~early
      BY <1>2, <2>3 DEF HandleUpdate
    <3> QED BY <2>3, <3>1, ShipOwnerUpdate, ShipGuestUpdate, OwnerFactsShip
  <2>4. ASSUME UNCHANGED vars PROVE OwnerTells' /\ Told'
    BY <1>2, <2>4 DEF vars, ShipInv, OwnerTells, Told, Latest
  <2> QED BY <2>1, <2>2, <2>3, <2>4 DEF Next, Edit, Receive
<1> QED BY <1>1, <1>2 DEF ShipInv

LEMMA ShipInvImplies == ShipInv => ShipsAgree
<1> SUFFICES ASSUME ShipInv, handler = "ship", ~again, ~early, InSetup, Quiet
             PROVE  own[Owner] = own[Guest]
  BY DEF ShipsAgree, QuietAgreement
<1>1. chan[Owner] = <<>> /\ chan[Guest] = <<>>
  BY OwnerFacts DEF Quiet
<1>2. TurnAccounting
  BY InvImplies DEF ShipInv, TurnsInStep
<1>3. (IF sent[Owner] # Unset THEN 1 ELSE 0) + (IF sent[Guest] # Unset THEN 1 ELSE 0) = 0
  BY <1>1, <1>2 DEF TurnAccounting
<1>4. sent[Guest] = Unset
  BY <1>3
<1> QED BY <1>1, <1>4 DEF ShipInv, Told

(* Melee_LocalChange_ship and Melee_RemoteChange_ship bring the two        *)
(* machines to the same ship, for any set of ships and any number of       *)
(* changes, whoever makes them and however they cross on the way, as long  *)
(* as nobody edits the slot within an open turn or before the peer's INIT. *)
THEOREM ShipAgreement == Spec => []ShipsAgree
<1>1. Init => ShipInv
  BY ShipInit
<1>2. ShipInv /\ [Next]_vars => ShipInv'
  BY ShipStep
<1>3. ShipInv => ShipsAgree
  BY ShipInvImplies
<1> QED BY <1>1, <1>2, <1>3, PTL DEF Spec
=============================================================================
