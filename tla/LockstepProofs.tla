---------------------------- MODULE LockstepProofs ----------------------------
(***************************************************************************)
(* Proofs about the lockstep battle, for every input delay: both machines  *)
(* use the same inputs in every frame, no machine runs further ahead than  *)
(* the delay allows, and an input buffer never overflows.                  *)
(*                                                                         *)
(* The argument follows an input on its way: it is sent in the frame for   *)
(* which it was read, it waits in the channel among packets of other       *)
(* types, in order and with no gap, and it waits in the buffer of the      *)
(* receiver, of which the front belongs to the frame that comes next.      *)
(***************************************************************************)
EXTENDS Lockstep, FiniteSetTheorems, TLAPS

LEMMA PeerFacts ==
  ASSUME NEW p \in Party
  PROVE  /\ Peer(p) \in Party /\ Peer(p) # p
         /\ Peer(Peer(p)) = p
         /\ \A q \in Party : q = p \/ q = Peer(p)
<1>1. PICK a \in Party, b \in Party : a # b /\ Party = {a, b}
  BY PartyAssumption
<1>2. \A r \in Party : Peer(r) \in Party /\ Peer(r) # r
  <2>1. ASSUME NEW r \in Party PROVE \E q \in Party : q # r
    BY <1>1
  <2> QED BY <2>1 DEF Peer
<1> QED BY <1>1, <1>2

LEMMA MaxOfTwo ==
  ASSUME NEW a \in Int, NEW b \in Int
  PROVE  Max({a, b}) = IF a >= b THEN a ELSE b
<1>1. \E x \in {a, b} : \A y \in {a, b} : x >= y
  <2>1. CASE a >= b
    BY <2>1
  <2>2. CASE ~(a >= b)
    BY <2>2
  <2> QED BY <2>1, <2>2
<1>2. Max({a, b}) \in {a, b} /\ \A y \in {a, b} : Max({a, b}) >= y
  BY <1>1, Zenon DEF Max
<1> QED BY <1>2

-----------------------------------------------------------------------------
(* A buffer whose front belongs to frame u.                                *)

(* The input used in frame m when the delay is d.                          *)
Due(d, m) == IF m < d THEN 0 ELSE m - d + 1

Right(b, d, u) == \A k \in 1 .. Len(b) : b[k] = Due(d, u + k - 1)

LEMMA RightTail ==
  ASSUME NEW b \in Seq(Nat), b # <<>>, NEW d \in Nat, NEW u \in Nat, Right(b, d, u)
  PROVE  /\ Head(b) = Due(d, u) /\ Right(Tail(b), d, u + 1)
         /\ Tail(b) \in Seq(Nat) /\ Len(Tail(b)) = Len(b) - 1
<1>1. /\ Tail(b) \in Seq(Nat) /\ Len(b) \in Nat /\ 1 \in 1 .. Len(b)
      /\ Len(Tail(b)) = Len(b) - 1 /\ Head(b) = b[1]
      /\ \A i \in 1 .. Len(Tail(b)) : Tail(b)[i] = b[i + 1] /\ i + 1 \in 1 .. Len(b)
  OBVIOUS
<1>2. Head(b) = Due(d, u)
  <2>1. b[1] = Due(d, u + 1 - 1) /\ u + 1 - 1 = u
    BY <1>1 DEF Right
  <2> QED BY <1>1, <2>1
<1>3. ASSUME NEW i \in 1 .. Len(Tail(b)) PROVE Tail(b)[i] = Due(d, (u + 1) + i - 1)
  <2>1. Tail(b)[i] = Due(d, u + (i + 1) - 1)
    BY <1>1 DEF Right
  <2>2. u + (i + 1) - 1 = (u + 1) + i - 1
    OBVIOUS
  <2> QED BY <2>1, <2>2
<1> QED BY <1>1, <1>2, <1>3 DEF Right

LEMMA RightAppend ==
  ASSUME NEW b \in Seq(Nat), NEW d \in Nat, NEW u \in Nat, Right(b, d, u),
         NEW x \in Nat, x = Due(d, u + Len(b))
  PROVE  /\ Right(Append(b, x), d, u)
         /\ Append(b, x) \in Seq(Nat) /\ Len(Append(b, x)) = Len(b) + 1
<1>1. /\ Append(b, x) \in Seq(Nat) /\ Len(b) \in Nat
      /\ Len(Append(b, x)) = Len(b) + 1
      /\ \A i \in 1 .. Len(b) : Append(b, x)[i] = b[i]
      /\ Append(b, x)[Len(b) + 1] = x
  OBVIOUS
<1>2. PICK n \in Nat : n = Len(b)
  BY <1>1
<1>3. ASSUME NEW i \in 1 .. n + 1 PROVE Append(b, x)[i] = Due(d, u + i - 1)
  <2>1. CASE i \in 1 .. n
    BY <1>1, <1>2, <2>1 DEF Right
  <2>2. CASE i = n + 1
    <3>1. u + i - 1 = u + n
      BY <2>2
    <3>2. x = Due(d, u + i - 1)
      BY <1>2, <3>1, Zenon
    <3>3. Append(b, x)[i] = x
      BY <1>1, <1>2, <2>2, Zenon
    <3> QED BY <3>2, <3>3
  <2>3. i \in 1 .. n \/ i = n + 1
    OBVIOUS
  <2> QED BY <2>1, <2>2, <2>3, Zenon
<1> QED BY <1>1, <1>2, <1>3 DEF Right

LEMMA RightFiller ==
  ASSUME NEW d \in Nat
  PROVE  /\ [i \in 1 .. d |-> 0] \in Seq(Nat) /\ Len([i \in 1 .. d |-> 0]) = d
         /\ Right([i \in 1 .. d |-> 0], d, 0)
<1>1. [i \in 1 .. d |-> 0] \in Seq(Nat) /\ Len([i \in 1 .. d |-> 0]) = d
  OBVIOUS
<1>2. \A k \in 1 .. d : Due(d, 0 + k - 1) = 0
  BY DEF Due
<1> QED BY <1>1, <1>2 DEF Right

-----------------------------------------------------------------------------
(* A channel that holds the inputs of the frames from lo to hi - 1, in     *)
(* order, among other packets.                                             *)

Input(x) == x.type = "BATTLEINPUT"

NoInput(s) == \A i \in 1 .. Len(s) : ~Input(s[i])

Holds(ch, lo, hi) ==
  /\ lo <= hi
  /\ \A i \in 1 .. Len(ch) : Input(ch[i]) => lo <= ch[i].frame /\ ch[i].frame < hi
  /\ \A n \in Nat : lo <= n /\ n < hi =>
       \E i \in 1 .. Len(ch) : Input(ch[i]) /\ ch[i].frame = n
  /\ \A i, j \in 1 .. Len(ch) :
       i < j /\ Input(ch[i]) /\ Input(ch[j]) => ch[i].frame < ch[j].frame

LEMMA PacketFacts ==
  /\ \A t \in PacketType, n \in Nat :
       Pkt(t, n) \in Packet /\ Pkt(t, n).type = t /\ Pkt(t, n).frame = n
  /\ \A x \in Packet : x.type \in PacketType /\ x.frame \in Nat
BY DEF Packet, Pkt

LEMMA HoldsNothing == Holds(<<>>, 0, 0)
BY DEF Holds

LEMMA HoldsMore ==
  ASSUME NEW ch \in Seq(Packet), NEW s \in Seq(Packet), NoInput(s),
         NEW lo \in Nat, NEW hi \in Nat, Holds(ch, lo, hi)
  PROVE  Holds(ch \o s, lo, hi) /\ ch \o s \in Seq(Packet)
<1>1. /\ ch \o s \in Seq(Packet) /\ Len(ch) \in Nat /\ Len(s) \in Nat
      /\ Len(ch \o s) = Len(ch) + Len(s)
      /\ \A i \in 1 .. Len(ch) : (ch \o s)[i] = ch[i]
      /\ \A i \in 1 .. Len(ch) + Len(s) :
           i > Len(ch) => i - Len(ch) \in 1 .. Len(s) /\ (ch \o s)[i] = s[i - Len(ch)]
  OBVIOUS
<1>2. \A i \in 1 .. Len(ch \o s) :
        Input((ch \o s)[i]) => i \in 1 .. Len(ch) /\ (ch \o s)[i] = ch[i]
  BY <1>1 DEF NoInput
<1>3. \A i \in 1 .. Len(ch) : i \in 1 .. Len(ch \o s)
  BY <1>1
<1> QED BY <1>1, <1>2, <1>3 DEF Holds

LEMMA HoldsOneMore ==
  ASSUME NEW ch \in Seq(Packet), NEW x \in Packet, Input(x),
         NEW lo \in Nat, NEW hi \in Nat, Holds(ch, lo, hi), x.frame = hi
  PROVE  Holds(Append(ch, x), lo, hi + 1) /\ Append(ch, x) \in Seq(Packet)
<1>1. /\ Append(ch, x) \in Seq(Packet) /\ Len(ch) \in Nat
      /\ Len(Append(ch, x)) = Len(ch) + 1
      /\ \A i \in 1 .. Len(ch) : Append(ch, x)[i] = ch[i]
      /\ Append(ch, x)[Len(ch) + 1] = x
  OBVIOUS
<1>2. PICK m \in Nat : m = Len(ch)
  BY <1>1
<1>3. \A i \in 1 .. m : ch[i] \in Packet /\ ch[i].frame \in Nat
  BY <1>2, PacketFacts
<1>4. \A i \in 1 .. m + 1 : i \in 1 .. m \/ i = m + 1
  OBVIOUS
<1>5. ASSUME NEW n \in Nat, lo <= n, n < hi + 1
      PROVE  \E i \in 1 .. m + 1 : Input(Append(ch, x)[i]) /\ Append(ch, x)[i].frame = n
  <2>1. CASE n = hi
    BY <1>1, <1>2, <2>1
  <2>2. CASE n < hi
    <3>1. PICK i \in 1 .. m : Input(ch[i]) /\ ch[i].frame = n
      BY <1>2, <1>5, <2>2 DEF Holds
    <3>2. i \in 1 .. m + 1 /\ Append(ch, x)[i] = ch[i]
      BY <1>1, <1>2
    <3> QED BY <3>1, <3>2
  <2>3. n = hi \/ n < hi
    BY <1>5
  <2> QED BY <2>1, <2>2, <2>3, Zenon
<1>6. \A i \in 1 .. m + 1 :
        Input(Append(ch, x)[i]) => lo <= Append(ch, x)[i].frame /\ Append(ch, x)[i].frame < hi + 1
  BY <1>1, <1>2, <1>3, <1>4 DEF Holds
<1>7. \A i, j \in 1 .. m + 1 :
        i < j /\ Input(Append(ch, x)[i]) /\ Input(Append(ch, x)[j])
          => Append(ch, x)[i].frame < Append(ch, x)[j].frame
  BY <1>1, <1>2, <1>3, <1>4 DEF Holds
<1> QED BY <1>1, <1>2, <1>5, <1>6, <1>7, SMTT(30) DEF Holds

LEMMA HoldsTail ==
  ASSUME NEW ch \in Seq(Packet), ch # <<>>,
         NEW lo \in Nat, NEW hi \in Nat, Holds(ch, lo, hi)
  PROVE  /\ Tail(ch) \in Seq(Packet) /\ Head(ch) \in Packet
         /\ ~Input(Head(ch)) => Holds(Tail(ch), lo, hi)
         /\ Input(Head(ch)) => /\ Head(ch).frame = lo /\ lo < hi
                               /\ Holds(Tail(ch), lo + 1, hi)
<1>1. /\ Tail(ch) \in Seq(Packet) /\ Head(ch) \in Packet /\ Head(ch) = ch[1]
      /\ Len(ch) \in Nat /\ 1 \in 1 .. Len(ch) /\ Len(Tail(ch)) = Len(ch) - 1
      /\ \A i \in 1 .. Len(Tail(ch)) : Tail(ch)[i] = ch[i + 1] /\ i + 1 \in 1 .. Len(ch)
      /\ \A i \in 1 .. Len(ch) : i # 1 => i - 1 \in 1 .. Len(Tail(ch)) /\ Tail(ch)[i - 1] = ch[i]
  OBVIOUS
<1>2. \A i \in 1 .. Len(ch) : ch[i] \in Packet /\ ch[i].frame \in Nat
  BY PacketFacts
<1>3. \A i, j \in 1 .. Len(Tail(ch)) :
        i < j /\ Input(Tail(ch)[i]) /\ Input(Tail(ch)[j]) => Tail(ch)[i].frame < Tail(ch)[j].frame
  BY <1>1 DEF Holds
<1>4. ASSUME ~Input(Head(ch)) PROVE Holds(Tail(ch), lo, hi)
  <2>1. ASSUME NEW n \in Nat, lo <= n, n < hi
        PROVE  \E i \in 1 .. Len(Tail(ch)) : Input(Tail(ch)[i]) /\ Tail(ch)[i].frame = n
    <3>1. PICK i \in 1 .. Len(ch) : Input(ch[i]) /\ ch[i].frame = n
      BY <2>1 DEF Holds
    <3>2. i # 1
      BY <1>1, <1>4, <3>1
    <3> QED BY <1>1, <3>1, <3>2
  <2>2. \A i \in 1 .. Len(Tail(ch)) :
          Input(Tail(ch)[i]) => lo <= Tail(ch)[i].frame /\ Tail(ch)[i].frame < hi
    BY <1>1 DEF Holds
  <2>3. lo <= hi
    BY DEF Holds
  <2> QED BY <1>3, <2>1, <2>2, <2>3 DEF Holds
<1>5. ASSUME Input(Head(ch))
      PROVE  Head(ch).frame = lo /\ lo < hi /\ Holds(Tail(ch), lo + 1, hi)
  <2>1. lo <= ch[1].frame /\ ch[1].frame < hi /\ ch[1].frame \in Nat
    BY <1>1, <1>2, <1>5 DEF Holds
  <2>2. PICK i \in 1 .. Len(ch) : Input(ch[i]) /\ ch[i].frame = lo
    BY <2>1 DEF Holds
  <2>3. i = 1
    <3>1. i > 1 => ch[1].frame < ch[i].frame
      BY <1>1, <1>5, <2>2 DEF Holds
    <3> QED BY <2>1, <2>2, <3>1
  <2>4. Head(ch).frame = lo /\ lo < hi
    BY <1>1, <2>1, <2>2, <2>3
  <2>5. ASSUME NEW n \in Nat, lo + 1 <= n, n < hi
        PROVE  \E k \in 1 .. Len(Tail(ch)) : Input(Tail(ch)[k]) /\ Tail(ch)[k].frame = n
    <3>1. PICK k \in 1 .. Len(ch) : Input(ch[k]) /\ ch[k].frame = n
      BY <2>5 DEF Holds
    <3>2. k # 1
      BY <2>2, <2>3, <2>5, <3>1
    <3> QED BY <1>1, <3>1, <3>2
  <2>6. ASSUME NEW k \in 1 .. Len(Tail(ch)), Input(Tail(ch)[k])
        PROVE  lo + 1 <= Tail(ch)[k].frame /\ Tail(ch)[k].frame < hi
    <3>1. /\ k + 1 \in 1 .. Len(ch) /\ 1 < k + 1 /\ Input(ch[k + 1])
          /\ Tail(ch)[k] = ch[k + 1] /\ ch[k + 1].frame \in Nat
      BY <1>1, <1>2, <2>6
    <3>2. ch[1].frame < ch[k + 1].frame /\ ch[k + 1].frame < hi
      BY <1>1, <1>5, <3>1 DEF Holds
    <3> QED BY <2>2, <2>3, <3>1, <3>2
  <2>7. lo + 1 <= hi
    BY <2>4
  <2> QED BY <1>3, <2>4, <2>5, <2>6, <2>7 DEF Holds
<1> QED BY <1>1, <1>4, <1>5

-----------------------------------------------------------------------------
(* The invariant.                                                          *)

Point == {"frame", "input", "remote", "stalled", "simulate", "waitReady",
          "ended", "checkpoint", "fight", "over", "left"}

(* What the argument needs of TypeOK.                                      *)
CoreType ==
  /\ delay \in Nat
  /\ pc \in [Party -> Point]
  /\ frame \in [Party -> Nat]
  /\ buffer \in [Party -> [own : Seq(Nat), other : Seq(Nat)]]
  /\ chan \in [Party -> Seq(Packet)]
  /\ ready \in [Party -> R!Ready]

(* The inputs p has sent, and those it has used of either player.          *)
Sent(p) == IF pc[p] \in {"frame", "input"} THEN frame[p] ELSE frame[p] + 1

Used(p) ==
  IF pc[p] \in {"frame", "input", "remote", "stalled"} THEN frame[p] ELSE frame[p] + 1

(* A machine that has left may have done so before it sent its input.      *)
MaySent(p, n) == n = Sent(p) \/ (pc[p] = "left" /\ n = frame[p])

OwnInv(p) ==
  /\ Len(buffer[p].own) = IF pc[p] \in {"remote", "stalled"} THEN delay + 1 ELSE delay
  /\ Right(buffer[p].own, delay, Used(p))

(* The inputs from lo on are on their way; delay of those before, or of    *)
(* the filler, wait in the buffer when the peer is in the same frame.      *)
OtherInv(p) ==
  /\ Right(buffer[p].other, delay, Used(p))
  /\ \E lo, hi \in Nat :
       /\ Used(p) + Len(buffer[p].other) = lo + delay
       /\ MaySent(Peer(p), hi)
       /\ Holds(chan[Peer(p)], lo, hi)

(* The flags of a negotiation, and where negotiateReady waits.             *)
ReadyInv(p) ==
  /\ ready[p].local <=> ready[p].callback # "none"
  /\ ready[p].callback = "negotiate" => pc[p] \in Meeting \cup {"left"}

NotFar == \A p, q \in Party : frame[p] <= frame[q] + delay + 1

Inv ==
  /\ CoreType
  /\ \A p \in Party : ReadyInv(p)
  /\ \A p \in Party : pc[p] # "left" => OwnInv(p) /\ OtherInv(p)
  /\ NotFar

(* What is on its way was sent, so a machine that plays has used no input  *)
(* of the peer later than the peer's frame and the delay allow.            *)
LEMMA UsedBound ==
  ASSUME Inv, NEW p \in Party, pc[p] # "left"
  PROVE  /\ Used(p) <= frame[Peer(p)] + delay + 1
         /\ Used(p) \in Nat /\ Len(buffer[p].other) \in Nat
         /\ Used(p) + Len(buffer[p].other) <= frame[Peer(p)] + delay + 1
<1>1. /\ Used(p) \in Nat /\ frame[Peer(p)] \in Nat /\ delay \in Nat
      /\ buffer[p].other \in Seq(Nat)
  BY PeerFacts DEF Inv, CoreType, Used
<1>2. PICK n \in Nat : n = Len(buffer[p].other)
  BY <1>1
<1>3. PICK lo \in Nat, hi \in Nat :
        /\ Used(p) + Len(buffer[p].other) = lo + delay
        /\ MaySent(Peer(p), hi)
        /\ Holds(chan[Peer(p)], lo, hi)
  BY DEF Inv, OtherInv
<1>4. lo <= frame[Peer(p)] + 1
  <2>1. lo <= hi /\ (hi = frame[Peer(p)] \/ hi = frame[Peer(p)] + 1)
    BY <1>3 DEF Holds, MaySent, Sent
  <2> QED BY <1>1, <2>1
<1>5. Used(p) + n = lo + delay
  BY <1>2, <1>3
<1>6. Used(p) + n <= frame[Peer(p)] + delay + 1 /\ Used(p) <= frame[Peer(p)] + delay + 1
  BY <1>1, <1>4, <1>5
<1> QED BY <1>1, <1>2, <1>6

(* A step of p which neither sends nor uses an input, unless p leaves.     *)
Quiet(p) ==
  /\ delay' = delay /\ buffer' = buffer
  /\ pc'[Peer(p)] = pc[Peer(p)] /\ frame'[Peer(p)] = frame[Peer(p)]
  /\ \/ pc'[p] = "left" /\ frame'[p] = frame[p]
     \/ /\ pc'[p] # "left" /\ Sent(p)' = Sent(p) /\ Used(p)' = Used(p)
        /\ pc'[p] \in {"remote", "stalled"} <=> pc[p] \in {"remote", "stalled"}
        /\ frame'[p] = frame[p] \/ frame'[p] = Used(p)
  /\ \E s \in Seq(Packet) : NoInput(s) /\ chan'[p] = chan[p] \o s
  /\ \/ chan'[Peer(p)] = chan[Peer(p)]
     \/ /\ chan[Peer(p)] # <<>> /\ ~Input(Head(chan[Peer(p)]))
        /\ chan'[Peer(p)] = Tail(chan[Peer(p)])

LEMMA QuietStep ==
  ASSUME Inv, NEW p \in Party, pc[p] # "left", Quiet(p), CoreType',
         \A r \in Party : ReadyInv(r)'
  PROVE  Inv'
<1> DEFINE q == Peer(p)
<1>1. /\ q \in Party /\ q # p /\ Peer(q) = p /\ \A r \in Party : r = p \/ r = q
  BY PeerFacts
<1>2. /\ chan[p] \in Seq(Packet) /\ chan[q] \in Seq(Packet) /\ delay \in Nat
      /\ frame[p] \in Nat /\ frame[q] \in Nat
  BY <1>1 DEF Inv, CoreType
<1>3. ASSUME pc'[p] # "left" PROVE OwnInv(p)' /\ OtherInv(p)'
  <2>1. /\ Used(p)' = Used(p) /\ delay' = delay /\ buffer' = buffer
        /\ pc'[p] \in {"remote", "stalled"} <=> pc[p] \in {"remote", "stalled"}
    BY <1>3 DEF Quiet
  <2>2. OwnInv(p) /\ OtherInv(p)
    BY DEF Inv
  <2>3. OwnInv(p)'
    BY <2>1, <2>2 DEF OwnInv
  <2>4. PICK lo \in Nat, hi \in Nat :
          /\ Used(p) + Len(buffer[p].other) = lo + delay
          /\ MaySent(q, hi)
          /\ Holds(chan[q], lo, hi)
    BY <2>2 DEF OtherInv
  <2>5. MaySent(q, hi)'
    BY <2>4 DEF Quiet, MaySent, Sent
  <2>6. Holds(chan'[q], lo, hi)
    <3>1. CASE chan'[q] = chan[q]
      BY <2>4, <3>1
    <3>2. CASE /\ chan[q] # <<>> /\ ~Input(Head(chan[q]))
               /\ chan'[q] = Tail(chan[q])
      BY <1>2, <2>4, <3>2, HoldsTail
    <3> QED BY <3>1, <3>2 DEF Quiet
  <2>7. Used(p)' + Len(buffer'[p].other) = lo + delay'
    BY <2>1, <2>4
  <2>8. Right(buffer'[p].other, delay', Used(p)')
    BY <2>1, <2>2 DEF OtherInv
  <2> QED BY <2>3, <2>5, <2>6, <2>7, <2>8 DEF OtherInv
<1>4. ASSUME pc'[q] # "left" PROVE OwnInv(q)' /\ OtherInv(q)'
  <2>1. /\ Used(q)' = Used(q) /\ delay' = delay /\ buffer' = buffer
        /\ pc'[q] = pc[q] /\ pc[q] # "left"
    BY <1>4 DEF Quiet, Used
  <2>2. OwnInv(q) /\ OtherInv(q)
    BY <1>1, <2>1 DEF Inv
  <2>3. OwnInv(q)'
    BY <2>1, <2>2 DEF OwnInv
  <2>4. PICK lo \in Nat, hi \in Nat :
          /\ Used(q) + Len(buffer[q].other) = lo + delay
          /\ MaySent(p, hi)
          /\ Holds(chan[p], lo, hi)
    BY <1>1, <2>2 DEF OtherInv
  <2>5. MaySent(p, hi)'
    <3>1. hi = Sent(p)
      BY <2>4 DEF MaySent
    <3>2. CASE pc'[p] = "left" /\ frame'[p] = frame[p]
      BY <3>1, <3>2 DEF MaySent, Sent
    <3>3. CASE Sent(p)' = Sent(p)
      BY <3>1, <3>3 DEF MaySent
    <3> QED BY <3>2, <3>3 DEF Quiet
  <2>6. Holds(chan'[p], lo, hi)
    <3>1. PICK s \in Seq(Packet) : NoInput(s) /\ chan'[p] = chan[p] \o s
      BY DEF Quiet
    <3>2. Holds(chan[p] \o s, lo, hi)
      BY <1>2, <2>4, <3>1, HoldsMore
    <3> QED BY <3>1, <3>2
  <2>7. Used(q)' + Len(buffer'[q].other) = lo + delay'
    BY <2>1, <2>4
  <2>8. Right(buffer'[q].other, delay', Used(q)')
    BY <2>1, <2>2 DEF OtherInv
  <2> QED BY <1>1, <2>3, <2>5, <2>6, <2>7, <2>8 DEF OtherInv
<1>5. NotFar'
  <2>1. frame[p] <= frame[q] + delay + 1 /\ frame[q] <= frame[p] + delay + 1
    BY <1>1 DEF Inv, NotFar
  <2>2. Used(p) <= frame[q] + delay + 1 /\ Used(p) >= frame[p] /\ Used(p) \in Nat
    BY <1>2, UsedBound DEF Used
  <2>3. /\ frame'[q] = frame[q] /\ delay' = delay
        /\ frame'[p] = frame[p] \/ frame'[p] = Used(p)
    BY DEF Quiet
  <2>4. frame'[p] <= frame'[q] + delay' + 1 /\ frame'[q] <= frame'[p] + delay' + 1
    BY <1>2, <2>1, <2>2, <2>3
  <2>5. frame'[p] <= frame'[p] + delay' + 1 /\ frame'[q] <= frame'[q] + delay' + 1
    BY <1>1 DEF CoreType
  <2> QED BY <1>1, <2>4, <2>5 DEF NotFar
<1> QED BY <1>1, <1>3, <1>4, <1>5 DEF Inv

-----------------------------------------------------------------------------
(* The three steps that move an input.                                     *)

LEMMA DueFacts ==
  \A d, n \in Nat : Due(d, n + d) = n + 1
BY DEF Due

LEMMA Types ==
  ASSUME CoreType, NEW p \in Party
  PROVE  /\ buffer[p].own \in Seq(Nat) /\ buffer[p].other \in Seq(Nat)
         /\ Len(buffer[p].own) \in Nat /\ Len(buffer[p].other) \in Nat
         /\ chan[p] \in Seq(Packet) /\ delay \in Nat /\ frame[p] \in Nat
         /\ Used(p) \in Nat
<1>1. /\ buffer[p].own \in Seq(Nat) /\ buffer[p].other \in Seq(Nat)
      /\ chan[p] \in Seq(Packet) /\ delay \in Nat /\ frame[p] \in Nat
  BY DEF CoreType
<1> QED BY <1>1 DEF Used

(* The steps that leave the frames alone.                                  *)
LEMMA NotFarKept ==
  ASSUME NotFar, frame' = frame, delay' = delay
  PROVE  NotFar'
BY DEF NotFar

LEMMA LocalInputStep ==
  ASSUME Inv, NEW p \in Party, LocalInput(p)
  PROVE  Inv'
<1> DEFINE q == Peer(p)
           x == Pkt("BATTLEINPUT", frame[p])
<1>1. /\ q \in Party /\ q # p /\ Peer(q) = p /\ \A r \in Party : r = p \/ r = q
  BY PeerFacts
<1>2. CoreType
  BY DEF Inv
<1>3. /\ pc[p] = "input" /\ pc' = [pc EXCEPT ![p] = "remote"]
      /\ chan' = [chan EXCEPT ![p] = Append(@, x)]
      /\ UNCHANGED <<delay, ready, frame>>
  BY DEF LocalInput
<1>4. OwnInv(p) /\ OtherInv(p)
  BY <1>3 DEF Inv
<1>5. Used(p) = frame[p] /\ Sent(p) = frame[p] /\ Used(p)' = frame[p] /\ Sent(p)' = frame[p] + 1
  BY <1>2, <1>3 DEF Used, Sent, CoreType
<1>6. Len(buffer[p].own) = delay
  BY <1>3, <1>4 DEF OwnInv
<1>7. Len(buffer[p].own) < BufferSize
  <2>1. delay < 2 * delay + 2
    BY <1>2 DEF CoreType
  <2> QED BY <1>6, <2>1, Zenon DEF BufferSize
<1>8. buffer' = [buffer EXCEPT ![p].own = Append(@, frame[p] + 1)]
  BY <1>7 DEF LocalInput
<1>9. /\ x \in Packet /\ Input(x) /\ x.frame = frame[p] /\ frame[p] + 1 \in Nat
  BY <1>2, PacketFacts, Types DEF Input, PacketType
<1>10. /\ Right(Append(buffer[p].own, frame[p] + 1), delay, frame[p])
       /\ Append(buffer[p].own, frame[p] + 1) \in Seq(Nat)
       /\ Len(Append(buffer[p].own, frame[p] + 1)) = Len(buffer[p].own) + 1
  <2>1. frame[p] + 1 = Due(delay, frame[p] + Len(buffer[p].own))
    BY <1>2, <1>6, Types, DueFacts, Zenon
  <2>2. Right(buffer[p].own, delay, frame[p])
    BY <1>4, <1>5 DEF OwnInv
  <2> QED BY <1>2, <1>9, <2>1, <2>2, Types, RightAppend, ZenonT(30)
<1>11. /\ buffer'[p].own = Append(buffer[p].own, frame[p] + 1)
       /\ buffer'[p].other = buffer[p].other /\ buffer'[q] = buffer[q]
       /\ buffer' \in [Party -> [own : Seq(Nat), other : Seq(Nat)]]
  BY <1>1, <1>2, <1>8, <1>10 DEF CoreType
<1>12. /\ chan'[p] = Append(chan[p], x) /\ chan'[q] = chan[q]
       /\ chan' \in [Party -> Seq(Packet)]
  <2>1. Append(chan[p], x) \in Seq(Packet)
    BY <1>2, <1>9, Types
  <2> QED BY <1>1, <1>2, <1>3, <2>1 DEF CoreType
<1>13. CoreType'
  BY <1>2, <1>3, <1>11, <1>12 DEF CoreType, Point
<1>14. pc'[p] = "remote" /\ pc'[q] = pc[q]
  BY <1>1, <1>2, <1>3 DEF CoreType
<1>15. OwnInv(p)'
  <2>1. Len(buffer'[p].own) = delay' + 1
    BY <1>3, <1>6, <1>10, <1>11
  <2>2. Right(buffer'[p].own, delay', Used(p)')
    BY <1>3, <1>5, <1>10, <1>11
  <2> QED BY <1>14, <2>1, <2>2 DEF OwnInv
<1>16. OtherInv(p)'
  BY <1>3, <1>4, <1>5, <1>11, <1>12, <1>14 DEF OtherInv, MaySent, Sent
<1>17. ASSUME pc'[q] # "left" PROVE OwnInv(q)' /\ OtherInv(q)'
  <2>1. /\ Used(q)' = Used(q) /\ OwnInv(q) /\ OtherInv(q)
    BY <1>1, <1>3, <1>14, <1>17 DEF Inv, Used
  <2>2. OwnInv(q)'
    BY <1>3, <1>11, <1>14, <2>1 DEF OwnInv
  <2>3. PICK lo \in Nat, hi \in Nat :
          /\ Used(q) + Len(buffer[q].other) = lo + delay
          /\ MaySent(p, hi) /\ Holds(chan[p], lo, hi)
    BY <1>1, <2>1 DEF OtherInv
  <2>4. hi = frame[p]
    BY <1>3, <1>5, <2>3 DEF MaySent
  <2>5. Holds(Append(chan[p], x), lo, hi + 1)
    BY <1>2, <1>9, <2>3, <2>4, Types, HoldsOneMore
  <2>6. MaySent(p, hi + 1)'
    BY <1>5, <2>4 DEF MaySent
  <2>7. Used(q)' + Len(buffer'[q].other) = lo + delay'
    BY <1>3, <1>11, <2>1, <2>3
  <2>8. Right(buffer'[q].other, delay', Used(q)')
    BY <1>3, <1>11, <2>1 DEF OtherInv
  <2>9. hi + 1 \in Nat
    OBVIOUS
  <2> QED BY <1>1, <1>12, <2>2, <2>3, <2>5, <2>6, <2>7, <2>8, <2>9 DEF OtherInv
<1>18. NotFar'
  BY <1>3, NotFarKept DEF Inv
<1>19. \A r \in Party : ReadyInv(r)'
  BY <1>1, <1>3, <1>14 DEF Inv, ReadyInv, Meeting
<1> QED BY <1>1, <1>13, <1>15, <1>16, <1>17, <1>18, <1>19 DEF Inv

LEMMA UseInputsStep ==
  ASSUME Inv, NEW p \in Party, UseInputs(p)
  PROVE  Inv'
<1> DEFINE q == Peer(p)
<1>1. /\ q \in Party /\ q # p /\ Peer(q) = p /\ \A r \in Party : r = p \/ r = q
  BY PeerFacts
<1>2. CoreType
  BY DEF Inv
<1>3. /\ pc[p] \in {"remote", "stalled"} /\ buffer[p].other # <<>>
      /\ buffer' = [buffer EXCEPT ![p].own = Tail(@), ![p].other = Tail(@)]
      /\ pc' = [pc EXCEPT ![p] = "simulate"] \/ pc' = [pc EXCEPT ![p] = "left"]
      /\ UNCHANGED <<delay, ready, frame, chan>>
  BY DEF UseInputs
<1>4. OwnInv(p) /\ OtherInv(p)
  BY <1>3 DEF Inv
<1>5. Used(p) = frame[p] /\ Sent(p) = frame[p] + 1 /\ Sent(p)' = frame[p] + 1 /\ Used(p)' = frame[p] + 1
  BY <1>2, <1>3 DEF Used, Sent, CoreType
<1>6. Len(buffer[p].own) = delay + 1 /\ buffer[p].own # <<>>
  <2>1. Len(buffer[p].own) = delay + 1
    BY <1>3, <1>4 DEF OwnInv
  <2>2. delay + 1 # 0 /\ Len(<<>>) = 0
    BY <1>2 DEF CoreType
  <2> QED BY <2>1, <2>2, Zenon
<1>7. /\ Right(Tail(buffer[p].own), delay, frame[p] + 1)
      /\ Tail(buffer[p].own) \in Seq(Nat)
      /\ Len(Tail(buffer[p].own)) = Len(buffer[p].own) - 1
  BY <1>2, <1>4, <1>5, <1>6, Types, RightTail DEF OwnInv
<1>8. /\ Right(Tail(buffer[p].other), delay, frame[p] + 1)
      /\ Tail(buffer[p].other) \in Seq(Nat)
      /\ Len(Tail(buffer[p].other)) = Len(buffer[p].other) - 1
  BY <1>2, <1>3, <1>4, <1>5, Types, RightTail DEF OtherInv
<1>9. /\ buffer'[p].own = Tail(buffer[p].own)
      /\ buffer'[p].other = Tail(buffer[p].other) /\ buffer'[q] = buffer[q]
      /\ buffer' \in [Party -> [own : Seq(Nat), other : Seq(Nat)]]
  BY <1>1, <1>2, <1>3, <1>7, <1>8, ZenonT(30) DEF CoreType
<1>10. CoreType'
  BY <1>2, <1>3, <1>9 DEF CoreType, Point
<1>11. pc'[p] \in {"simulate", "left"} /\ pc'[q] = pc[q]
  BY <1>1, <1>2, <1>3 DEF CoreType
<1>12. OwnInv(p)'
  <2>1. (delay + 1) - 1 = delay
    BY <1>2 DEF CoreType
  <2>2. Len(buffer'[p].own) = delay'
    <3>1. Len(buffer'[p].own) = Len(buffer[p].own) - 1 /\ delay' = delay
      BY <1>3, <1>7, <1>9
    <3>2. Len(buffer[p].own) = delay + 1
      BY <1>6
    <3>3. Len(buffer[p].own) - 1 = delay
      BY <2>1, <3>2
    <3> QED BY <3>1, <3>3
  <2>3. Right(buffer'[p].own, delay', Used(p)')
    BY <1>3, <1>5, <1>7, <1>9
  <2> QED BY <1>11, <2>2, <2>3 DEF OwnInv
<1>13. OtherInv(p)'
  <2>1. PICK lo \in Nat, hi \in Nat :
          /\ frame[p] + Len(buffer[p].other) = lo + delay
          /\ MaySent(q, hi) /\ Holds(chan[q], lo, hi)
    BY <1>4, <1>5 DEF OtherInv
  <2>2. \A n \in Nat : (frame[p] + 1) + (n - 1) = frame[p] + n
    <3>1. \A m, n \in Nat : (m + 1) + (n - 1) = m + n
      OBVIOUS
    <3> QED BY <1>2, <3>1, Types, Zenon
  <2>3. Used(p)' + Len(buffer'[p].other) = lo + delay'
    BY <1>2, <1>3, <1>5, <1>8, <1>9, <2>1, <2>2, Types, Zenon
  <2>4. MaySent(q, hi)'
    BY <1>3, <1>11, <2>1 DEF MaySent, Sent
  <2>5. Right(buffer'[p].other, delay', Used(p)')
    BY <1>3, <1>5, <1>8, <1>9
  <2> QED BY <1>3, <2>1, <2>3, <2>4, <2>5 DEF OtherInv
<1>14. ASSUME pc'[q] # "left" PROVE OwnInv(q)' /\ OtherInv(q)'
  <2>1. /\ Used(q)' = Used(q) /\ OwnInv(q) /\ OtherInv(q)
    BY <1>1, <1>3, <1>11, <1>14 DEF Inv, Used
  <2>2. OwnInv(q)'
    BY <1>3, <1>9, <1>11, <2>1 DEF OwnInv
  <2>3. PICK lo \in Nat, hi \in Nat :
          /\ Used(q) + Len(buffer[q].other) = lo + delay
          /\ MaySent(p, hi) /\ Holds(chan[p], lo, hi)
    BY <1>1, <2>1 DEF OtherInv
  <2>4. MaySent(p, hi)'
    BY <1>3, <1>5, <2>3 DEF MaySent
  <2>5. Used(q)' + Len(buffer'[q].other) = lo + delay'
    BY <1>3, <1>9, <2>1, <2>3
  <2>6. Right(buffer'[q].other, delay', Used(q)')
    BY <1>3, <1>9, <2>1 DEF OtherInv
  <2> QED BY <1>1, <1>3, <2>2, <2>3, <2>4, <2>5, <2>6 DEF OtherInv
<1>15. NotFar'
  BY <1>3, NotFarKept DEF Inv
<1>16. \A r \in Party : ReadyInv(r)'
  BY <1>1, <1>3, <1>11 DEF Inv, ReadyInv, Meeting
<1> QED BY <1>1, <1>10, <1>12, <1>13, <1>14, <1>15, <1>16 DEF Inv

LEMMA HandleBattleInputStep ==
  ASSUME Inv, NEW p \in Party, Arrives(p, "BATTLEINPUT"), pc[p] # "left",
         buffer' = [buffer EXCEPT ![p].other = Append(@, Incoming(p).frame + 1)],
         chan' = Taken(p), UNCHANGED <<delay, pc, ready, frame>>
  PROVE  Inv'
<1> DEFINE q == Peer(p)
           x == Incoming(p).frame + 1
<1>1. /\ q \in Party /\ q # p /\ Peer(q) = p /\ \A r \in Party : r = p \/ r = q
  BY PeerFacts
<1>2. CoreType
  BY DEF Inv
<1>3. OwnInv(p) /\ OtherInv(p)
  BY DEF Inv
<1>4. chan[q] \in Seq(Packet) /\ chan[q] # <<>> /\ Input(Head(chan[q]))
  BY <1>1, <1>2, Types DEF Arrives, Incoming, Input
<1>5. PICK lo \in Nat, hi \in Nat :
        /\ Used(p) + Len(buffer[p].other) = lo + delay
        /\ MaySent(q, hi) /\ Holds(chan[q], lo, hi)
  BY <1>3 DEF OtherInv
<1>6. /\ Incoming(p).frame = lo /\ Holds(Tail(chan[q]), lo + 1, hi)
      /\ Tail(chan[q]) \in Seq(Packet) /\ x \in Nat
  BY <1>4, <1>5, HoldsTail DEF Incoming
<1>7. /\ Right(Append(buffer[p].other, x), delay, Used(p))
      /\ Append(buffer[p].other, x) \in Seq(Nat)
      /\ Len(Append(buffer[p].other, x)) = Len(buffer[p].other) + 1
  <2>1. Due(delay, Used(p) + Len(buffer[p].other)) = Due(delay, lo + delay)
    BY <1>5, Zenon
  <2>2. x = Due(delay, Used(p) + Len(buffer[p].other))
    BY <1>2, <1>6, <2>1, Types, DueFacts, Zenon
  <2>3. Right(buffer[p].other, delay, Used(p))
    BY <1>3 DEF OtherInv
  <2> QED BY <1>2, <1>6, <2>2, <2>3, Types, RightAppend
<1>8. /\ buffer'[p].own = buffer[p].own
      /\ buffer'[p].other = Append(buffer[p].other, x) /\ buffer'[q] = buffer[q]
      /\ buffer' \in [Party -> [own : Seq(Nat), other : Seq(Nat)]]
  BY <1>1, <1>2, <1>7 DEF CoreType
<1>9. /\ chan'[q] = Tail(chan[q]) /\ chan'[p] = chan[p]
      /\ chan' \in [Party -> Seq(Packet)]
  BY <1>1, <1>2, <1>6 DEF CoreType, Taken
<1>10. CoreType'
  BY <1>2, <1>8, <1>9 DEF CoreType
<1>11. \A r \in Party : Used(r)' = Used(r)
  BY DEF Used
<1>12. OwnInv(p)'
  BY <1>3, <1>8, <1>11 DEF OwnInv
<1>13. OtherInv(p)'
  <2>1. \A k, n, m, d \in Nat : k + n = m + d => k + (n + 1) = (m + 1) + d
    OBVIOUS
  <2>2. Used(p) + (Len(buffer[p].other) + 1) = (lo + 1) + delay
    <3>1. /\ Used(p) \in Nat /\ Len(buffer[p].other) \in Nat
          /\ delay \in Nat /\ lo \in Nat
      BY <1>2, Types
    <3>2. Used(p) + Len(buffer[p].other) = lo + delay
      BY <1>5
    <3>3. PICK k \in Nat, n \in Nat : k = Used(p) /\ n = Len(buffer[p].other)
      BY <3>1
    <3>4. k + n = lo + delay
      BY <3>2, <3>3
    <3>5. k + (n + 1) = (lo + 1) + delay
      BY <2>1, <3>1, <3>4
    <3> QED BY <3>3, <3>5
  <2>3. Used(p)' + Len(buffer'[p].other) = (lo + 1) + delay'
    <3>1. Used(p)' = Used(p) /\ Len(buffer'[p].other) = Len(buffer[p].other) + 1
      BY <1>7, <1>8, <1>11
    <3> QED BY <2>2, <3>1, Zenon
  <2>4. MaySent(q, hi)'
    BY <1>5 DEF MaySent, Sent
  <2>5. Right(buffer'[p].other, delay', Used(p)')
    BY <1>7, <1>8, <1>11
  <2>6. lo + 1 \in Nat /\ Holds(chan'[q], lo + 1, hi)
    BY <1>6, <1>9
  <2> QED BY <2>3, <2>4, <2>5, <2>6 DEF OtherInv
<1>14. ASSUME pc'[q] # "left" PROVE OwnInv(q)' /\ OtherInv(q)'
  <2>1. OwnInv(q) /\ OtherInv(q)
    BY <1>1, <1>14 DEF Inv
  <2> QED BY <1>1, <1>8, <1>9, <1>11, <2>1 DEF OwnInv, OtherInv, MaySent, Sent
<1>15. NotFar'
  BY NotFarKept DEF Inv
<1>16. \A r \in Party : ReadyInv(r)'
  BY DEF Inv, ReadyInv
<1> QED BY <1>1, <1>10, <1>12, <1>13, <1>14, <1>15, <1>16 DEF Inv

-----------------------------------------------------------------------------
(* Every other step is quiet: a move of p within its frame or to the next, *)
(* and what p hears and says.                                              *)

Playing == {"simulate", "waitReady", "ended", "checkpoint", "fight", "over"}

Move(p) ==
  \/ /\ frame' = frame
     /\ \/ pc' = pc
        \/ pc' = [pc EXCEPT ![p] = "left"]
        \/ pc[p] = "frame" /\ pc' = [pc EXCEPT ![p] = "input"]
        \/ pc[p] = "remote" /\ pc' = [pc EXCEPT ![p] = "stalled"]
        \/ pc[p] \in Playing /\ \E t \in Playing : pc' = [pc EXCEPT ![p] = t]
  \/ pc[p] \in Playing /\ NextFrame(p)

(* p hears at most one packet, which is no input, and says s.              *)
Talk(p) ==
  /\ chan' \in [Party -> Seq(Packet)]
  /\ \E s \in Seq(Packet) : NoInput(s) /\ chan'[p] = chan[p] \o s
  /\ \/ chan'[Peer(p)] = chan[Peer(p)]
     \/ /\ chan[Peer(p)] # <<>> /\ ~Input(Head(chan[Peer(p)]))
        /\ chan'[Peer(p)] = Tail(chan[Peer(p)])

Negotiates(p, r) ==
  /\ r \in R!Ready /\ ready' = [ready EXCEPT ![p] = r]
  /\ r.local <=> r.callback # "none"
  /\ r.callback = "negotiate" => pc'[p] \in Meeting \cup {"left"}

LEMMA QuietTurn ==
  ASSUME Inv, NEW p \in Party, pc[p] # "left", Move(p), Talk(p),
         NEW r, Negotiates(p, r), UNCHANGED <<delay, buffer>>
  PROVE  Inv'
<1> DEFINE q == Peer(p)
<1>1. /\ q \in Party /\ q # p /\ Peer(q) = p /\ \A u \in Party : u = p \/ u = q
  BY PeerFacts
<1>2. CoreType
  BY DEF Inv
<1>3. /\ pc' \in [Party -> Point] /\ frame' \in [Party -> Nat]
      /\ pc'[q] = pc[q] /\ frame'[q] = frame[q]
  <2>1. CASE frame' = frame
    <3>1. \E t \in Point : pc' = [pc EXCEPT ![p] = t]
      <4>1. pc = [pc EXCEPT ![p] = pc[p]] /\ pc[p] \in Point
        BY <1>2 DEF CoreType
      <4> QED BY <2>1, <4>1 DEF Move, Point, Playing, NextFrame
    <3> QED BY <1>1, <1>2, <2>1, <3>1 DEF CoreType
  <2>2. CASE NextFrame(p)
    BY <1>1, <1>2, <2>2 DEF CoreType, Point, NextFrame
  <2> QED BY <2>1, <2>2 DEF Move
<1>4. \/ pc'[p] = "left" /\ frame'[p] = frame[p]
      \/ /\ pc'[p] # "left" /\ Sent(p)' = Sent(p) /\ Used(p)' = Used(p)
         /\ pc'[p] \in {"remote", "stalled"} <=> pc[p] \in {"remote", "stalled"}
         /\ frame'[p] = frame[p] \/ frame'[p] = Used(p)
  <2>1. CASE frame' = frame
    BY <1>2, <2>1 DEF Move, CoreType, Playing, Sent, Used, NextFrame
  <2>2. CASE pc[p] \in Playing /\ NextFrame(p)
    BY <1>2, <2>2 DEF CoreType, Playing, Sent, Used, NextFrame
  <2> QED BY <2>1, <2>2 DEF Move
<1>5. CoreType'
  <2>1. ready' \in [Party -> R!Ready]
    BY <1>2 DEF CoreType, Negotiates
  <2> QED BY <1>2, <1>3, <2>1 DEF CoreType, Talk
<1>6. \A u \in Party : ReadyInv(u)'
  <2>1. ReadyInv(p)'
    BY <1>2 DEF CoreType, Negotiates, ReadyInv
  <2>2. ReadyInv(q) /\ ready'[q] = ready[q]
    BY <1>1, <1>2 DEF Inv, CoreType, Negotiates
  <2>3. ReadyInv(q)'
    BY <1>3, <2>2 DEF ReadyInv
  <2> QED BY <1>1, <2>1, <2>3
<1>7. Quiet(p)
  BY <1>3, <1>4 DEF Quiet, Talk
<1> QED BY <1>5, <1>6, <1>7, QuietStep

-----------------------------------------------------------------------------
(* The ways to talk, and what the Ready negotiation does to the flags.     *)

LEMMA TalkSilent ==
  ASSUME CoreType, NEW p \in Party, chan' = chan
  PROVE  Talk(p)
<1>1. chan[p] \in Seq(Packet) /\ <<>> \in Seq(Packet) /\ NoInput(<<>>)
  BY Types DEF NoInput
<1>2. chan[p] \o <<>> = chan[p]
  BY <1>1
<1> QED BY <1>1, <1>2 DEF Talk, CoreType

LEMMA TalkEnd ==
  ASSUME CoreType, NEW p \in Party,
         NEW s \in Seq(Packet), NoInput(s), NEW x \in Packet, ~Input(x),
         chan' = [chan EXCEPT ![p] = @ \o s \o <<x>>]
  PROVE  Talk(p)
<1>1. chan[p] \in Seq(Packet) /\ <<x>> \in Seq(Packet) /\ s \o <<x>> \in Seq(Packet)
  BY Types
<1>2. (chan[p] \o s) \o <<x>> = chan[p] \o (s \o <<x>>)
  <2>1. PICK w \in Seq(Packet) : w = <<x>>
    BY <1>1
  <2>2. \A a, b, c \in Seq(Packet) : (a \o b) \o c = a \o (b \o c)
    OBVIOUS
  <2> QED BY <1>1, <2>1, <2>2, ZenonT(60)
<1>3. NoInput(s \o <<x>>)
  <2>1. \A i \in 1 .. Len(s \o <<x>>) :
          (s \o <<x>>)[i] = x \/ \E j \in 1 .. Len(s) : (s \o <<x>>)[i] = s[j]
    OBVIOUS
  <2> QED BY <2>1 DEF NoInput
<1>4. chan[p] \o (s \o <<x>>) \in Seq(Packet)
  BY <1>1
<1> QED BY <1>1, <1>2, <1>3, <1>4, PeerFacts DEF Talk, CoreType

LEMMA TalkSend ==
  ASSUME CoreType, NEW p \in Party, NEW x \in Packet, ~Input(x),
         chan' = [chan EXCEPT ![p] = Append(@, x)]
  PROVE  Talk(p)
<1>1. chan[p] \in Seq(Packet) /\ <<x>> \in Seq(Packet) /\ NoInput(<<x>>)
  BY Types DEF NoInput
<1>2. Append(chan[p], x) = chan[p] \o <<x>> /\ chan[p] \o <<x>> \in Seq(Packet)
  BY <1>1
<1> QED BY <1>1, <1>2, PeerFacts DEF Talk, CoreType

LEMMA Heard ==
  ASSUME CoreType, NEW p \in Party, NEW t \in PacketType, t # "BATTLEINPUT", Arrives(p, t)
  PROVE  /\ chan[Peer(p)] # <<>> /\ ~Input(Head(chan[Peer(p)]))
         /\ Tail(chan[Peer(p)]) \in Seq(Packet) /\ Incoming(p) \in Packet
<1>1. chan[Peer(p)] \in Seq(Packet)
  BY PeerFacts, Types
<1> QED BY <1>1 DEF Arrives, Incoming, Input

LEMMA TalkTake ==
  ASSUME CoreType, NEW p \in Party, NEW t \in PacketType, t # "BATTLEINPUT", Arrives(p, t),
         chan' = Taken(p)
  PROVE  Talk(p)
<1>1. chan[p] \in Seq(Packet) /\ <<>> \in Seq(Packet) /\ NoInput(<<>>)
  BY Types DEF NoInput
<1>2. chan[p] \o <<>> = chan[p]
  BY <1>1
<1> QED BY <1>1, <1>2, Heard, PeerFacts DEF Talk, CoreType, Taken

LEMMA TalkTakeEnd ==
  ASSUME CoreType, NEW p \in Party, NEW t \in PacketType, t # "BATTLEINPUT", Arrives(p, t),
         NEW x \in Packet, ~Input(x),
         chan' = [Taken(p) EXCEPT ![p] = @ \o <<>> \o <<x>>]
  PROVE  Talk(p)
<1>1. chan[p] \in Seq(Packet) /\ <<x>> \in Seq(Packet) /\ NoInput(<<x>>)
  BY Types DEF NoInput
<1>2. chan[p] \o <<>> \o <<x>> = chan[p] \o <<x>> /\ chan[p] \o <<x>> \in Seq(Packet)
  BY <1>1
<1> QED BY <1>1, <1>2, Heard, PeerFacts DEF Talk, CoreType, Taken

LEMMA ReadyFacts ==
  ASSUME NEW r \in R!Ready, r.local <=> r.callback # "none"
  PROVE  /\ r.local \in BOOLEAN /\ r.remote \in BOOLEAN
         /\ \A c \in {"toEnd", "toEnd2", "negotiate"} : ~r.local =>
              LET s == R!AfterLocal(r, c)
              IN  /\ s \in R!Ready /\ (s.local <=> s.callback # "none")
                  /\ R!MetByLocal(r) => ~s.local /\ ~s.remote /\ s.callback = "none"
                  /\ s.callback \in {"none", c}
         /\ LET s == R!AfterRemote(r)
            IN  /\ s \in R!Ready /\ (s.local <=> s.callback # "none")
                /\ R!MetByRemote(r) => ~s.local /\ s.callback = "none" /\ s.remote = r.remote
                /\ ~R!MetByRemote(r) => ~s.local /\ s.callback = r.callback
         /\ R!MetByRemote(r) <=> r.callback \in {"toEnd", "toEnd2", "negotiate"}
BY DEF R!Ready, R!AfterLocal, R!AfterRemote, R!MetByLocal, R!MetByRemote

LEMMA SameReady ==
  ASSUME Inv, NEW p \in Party, pc[p] # "left", ready' = ready,
         pc[p] \notin Meeting \/ pc'[p] \in Meeting \cup {"left"}
  PROVE  Negotiates(p, ready[p])
BY DEF Inv, CoreType, ReadyInv, Negotiates

LEMMA MetMoves ==
  ASSUME CoreType, NEW p \in Party, pc[p] \in Meeting, Met(p)
  PROVE  Move(p)
BY DEF Met, Meeting, Move, Playing, NextFrame

-----------------------------------------------------------------------------
(* The actions one by one.                                                 *)

LEMMA QuietPlay ==
  ASSUME Inv, NEW p \in Party,
         \/ SendChecksum(p) \/ Stall(p) \/ PlayOn(p) \/ ReachEndFrame(p)
         \/ AwaitFrameCount(p) \/ Awaited(p) \/ EndBattle(p) \/ Lose(p)
  PROVE  Inv'
<1>1. CoreType
  BY DEF Inv
<1>2. UNCHANGED <<delay, buffer, ready>> /\ pc[p] # "left"
  BY DEF SendChecksum, Stall, PlayOn, ReachEndFrame, AwaitFrameCount, Awaited,
         EndBattle, Lose, WantsEnd
<1>3. Move(p)
  BY DEF Move, Playing, SendChecksum, Stall, PlayOn, ReachEndFrame, AwaitFrameCount,
         Awaited, EndBattle, Lose, WantsEnd
<1>4. Talk(p)
  <2>1. CASE chan' = chan
    BY <1>1, <2>1, TalkSilent
  <2>2. CASE chan' = [chan EXCEPT ![p] = Append(@, Pkt("CHECKSUM", frame[p]))]
    <3>1. LET x == Pkt("CHECKSUM", frame[p]) IN x \in Packet /\ ~Input(x)
      BY <1>1, Types, PacketFacts DEF Input, PacketType
    <3> QED BY <1>1, <2>2, <3>1, TalkSend
  <2>3. chan = [chan EXCEPT ![p] = chan[p]]
    BY <1>1 DEF CoreType
  <2> QED BY <2>1, <2>2, <2>3 DEF SendChecksum, Stall, PlayOn, ReachEndFrame, AwaitFrameCount,
         Awaited, EndBattle, Lose
<1>5. pc[p] \notin Meeting \/ pc'[p] = "left"
  BY <1>1 DEF CoreType, Meeting, SendChecksum, Stall, PlayOn, ReachEndFrame, AwaitFrameCount,
         Awaited, EndBattle, Lose, WantsEnd
<1>6. Negotiates(p, ready[p])
  BY <1>2, <1>5, SameReady
<1> QED BY <1>2, <1>3, <1>4, <1>6, QuietTurn

LEMMA SignalEndStep ==
  ASSUME Inv, NEW p \in Party, SignalEnd(p)
  PROVE  Inv'
<1> DEFINE r == R!AfterLocal(ready[p], "toEnd")
           x == Pkt("READY", 0)
           y == Pkt("FRAMECOUNT", EndFrame(p))
<1>1. /\ CoreType /\ ready[p] \in R!Ready /\ pc[p] # "left"
      /\ ready[p].local <=> ready[p].callback # "none"
      /\ ~ready[p].local
  BY DEF Inv, CoreType, ReadyInv, SignalEnd, WantsEnd
<1>2. Move(p) /\ UNCHANGED <<delay, buffer>>
  BY DEF SignalEnd, WantsEnd, Move, Playing
<1>3. /\ r \in R!Ready /\ (r.local <=> r.callback # "none") /\ r.callback \in {"none", "toEnd"}
      /\ R!MetByLocal(ready[p]) => ~r.local /\ ~r.remote
  BY <1>1, ReadyFacts
<1>4. x \in Packet /\ ~Input(x) /\ y \in Packet /\ ~Input(y)
  <2>1. EndFrame(p) \in Nat
    BY <1>1 DEF CoreType, EndFrame
  <2> QED BY <2>1, PacketFacts DEF Input, PacketType
<1>5. CASE R!MetByLocal(ready[p])
  <2>1. /\ chan' = [chan EXCEPT ![p] = @ \o <<x>> \o <<y>>]
        /\ ready' = [ready EXCEPT ![p] = R!AfterLocal(r, "toEnd2")]
    BY <1>5 DEF SignalEnd, ReadyToEnd
  <2>2. <<x>> \in Seq(Packet) /\ NoInput(<<x>>)
    BY <1>4 DEF NoInput
  <2>3. Talk(p)
    BY <1>1, <1>4, <2>1, <2>2, TalkEnd
  <2>4. Negotiates(p, R!AfterLocal(r, "toEnd2"))
    BY <1>3, <1>5, <2>1, ReadyFacts DEF Negotiates
  <2> QED BY <1>1, <1>2, <2>3, <2>4, QuietTurn
<1>6. CASE ~R!MetByLocal(ready[p])
  <2>1. /\ chan' = [chan EXCEPT ![p] = Append(@, x)] /\ ready' = [ready EXCEPT ![p] = r]
    BY <1>6 DEF SignalEnd
  <2>2. Talk(p)
    BY <1>1, <1>4, <2>1, TalkSend
  <2>3. Negotiates(p, r)
    BY <1>3, <2>1 DEF Negotiates
  <2> QED BY <1>1, <1>2, <2>2, <2>3, QuietTurn
<1> QED BY <1>5, <1>6

LEMMA NegotiateStep ==
  ASSUME Inv, NEW p \in Party, Negotiate(p)
  PROVE  Inv'
<1> DEFINE r == R!AfterLocal(ready[p], "negotiate")
           x == Pkt("READY", 0)
<1>1. /\ CoreType /\ ready[p] \in R!Ready /\ pc[p] # "left" /\ pc[p] \in Meeting
      /\ ready[p].local <=> ready[p].callback # "none"
      /\ ~ready[p].local
  BY DEF Inv, CoreType, ReadyInv, Negotiate, Meeting
<1>2. /\ r \in R!Ready /\ (r.local <=> r.callback # "none")
      /\ R!MetByLocal(ready[p]) => r.callback = "none"
  BY <1>1, ReadyFacts
<1>3. x \in Packet /\ ~Input(x)
  BY PacketFacts DEF Input, PacketType
<1>4. Talk(p)
  BY <1>1, <1>3, TalkSend DEF Negotiate
<1>5. /\ UNCHANGED <<delay, buffer>> /\ ready' = [ready EXCEPT ![p] = r]
      /\ IF R!MetByLocal(ready[p]) THEN Met(p) ELSE UNCHANGED <<pc, frame>>
  BY DEF Negotiate
<1>6. Move(p)
  BY <1>1, <1>5, MetMoves DEF Move
<1>7. Negotiates(p, r)
  BY <1>1, <1>2, <1>5 DEF Negotiates
<1> QED BY <1>1, <1>4, <1>5, <1>6, <1>7, QuietTurn

LEMMA RefuseStep ==
  ASSUME Inv, NEW p \in Party, pc[p] # "left", RefusePacket(p)
  PROVE  Inv'
<1>1. /\ CoreType /\ UNCHANGED <<delay, buffer, ready, chan, frame>>
      /\ pc' = [pc EXCEPT ![p] = "left"]
  BY DEF Inv, RefusePacket
<1>2. Move(p) /\ Talk(p)
  BY <1>1, TalkSilent DEF Move
<1>3. Negotiates(p, ready[p])
  BY <1>1, SameReady DEF CoreType
<1> QED BY <1>1, <1>2, <1>3, QuietTurn

LEMMA HandleChecksumStep ==
  ASSUME Inv, NEW p \in Party, HandleChecksum(p)
  PROVE  Inv'
<1>1. CoreType /\ pc[p] # "left" /\ Arrives(p, "CHECKSUM")
  BY DEF Inv, HandleChecksum, Arrives, Polls, Meeting
<1>2. CASE BattleActive(p)
  <2>1. chan' = Taken(p) /\ UNCHANGED <<delay, buffer, ready, pc, frame>>
    BY <1>2 DEF HandleChecksum
  <2>2. Talk(p)
    BY <1>1, <2>1, TalkTake DEF PacketType
  <2>3. Move(p)
    BY <2>1 DEF Move
  <2>4. Negotiates(p, ready[p])
    BY <2>1 DEF Inv, CoreType, ReadyInv, Negotiates
  <2> QED BY <1>1, <2>1, <2>2, <2>3, <2>4, QuietTurn
<1>3. CASE ~BattleActive(p)
  BY <1>1, <1>3, RefuseStep DEF HandleChecksum
<1> QED BY <1>2, <1>3

LEMMA HandleFrameCountStep ==
  ASSUME Inv, NEW p \in Party, HandleFrameCount(p)
  PROVE  Inv'
<1> DEFINE r == R!AfterRemote(ready[p])
<1>1. CoreType /\ pc[p] # "left" /\ Arrives(p, "FRAMECOUNT")
  BY DEF Inv, HandleFrameCount, Arrives, Polls, Meeting
<1>2. CASE state[p] = "endingBattle"
  <2>1. /\ chan' = Taken(p) /\ UNCHANGED <<delay, buffer, pc, frame>>
        /\ ready' = [ready EXCEPT ![p] = r]
    BY <1>2 DEF HandleFrameCount
  <2>2. Talk(p)
    BY <1>1, <2>1, TalkTake DEF PacketType
  <2>3. Move(p)
    BY <2>1 DEF Move
  <2>4. /\ ready[p] \in R!Ready /\ (ready[p].local <=> ready[p].callback # "none")
        /\ ready[p].callback = "negotiate" => pc[p] \in Meeting
    BY <1>1 DEF Inv, CoreType, ReadyInv
  <2>5. /\ r \in R!Ready /\ (r.local <=> r.callback # "none")
        /\ r.callback = "negotiate" => ready[p].callback = "negotiate"
    BY <2>4, ReadyFacts
  <2>6. Negotiates(p, r)
    BY <2>1, <2>4, <2>5 DEF Negotiates
  <2> QED BY <1>1, <2>1, <2>2, <2>3, <2>6, QuietTurn
<1>3. CASE state[p] # "endingBattle"
  BY <1>1, <1>3, RefuseStep DEF HandleFrameCount
<1> QED BY <1>2, <1>3

LEMMA HandleReadyStep ==
  ASSUME Inv, NEW p \in Party, HandleReady(p)
  PROVE  Inv'
<1> DEFINE r == R!AfterRemote(ready[p])
           y == Pkt("FRAMECOUNT", EndFrame(p))
<1>1. CoreType /\ pc[p] # "left" /\ Arrives(p, "READY")
  BY DEF Inv, HandleReady, Arrives, Polls, Meeting
<1>2. CASE ready[p].remote
  BY <1>1, <1>2, RefuseStep DEF HandleReady
<1>3. ASSUME ~ready[p].remote, TakeReady(p) PROVE Inv'
  <2>1. /\ ready[p] \in R!Ready /\ (ready[p].local <=> ready[p].callback # "none")
        /\ ready[p].callback = "negotiate" => pc[p] \in Meeting
    BY <1>1 DEF Inv, CoreType, ReadyInv
  <2>2. /\ r \in R!Ready /\ (r.local <=> r.callback # "none")
        /\ R!MetByRemote(ready[p]) => ~r.local /\ ~r.remote /\ r.callback = "none"
        /\ ~R!MetByRemote(ready[p]) => r.callback = ready[p].callback
        /\ R!MetByRemote(ready[p]) <=> ready[p].callback \in {"toEnd", "toEnd2", "negotiate"}
    BY <1>3, <2>1, ReadyFacts
  <2>3. UNCHANGED <<delay, buffer>>
    BY <1>3 DEF TakeReady
  <2>4. ASSUME chan' = Taken(p), ready' = [ready EXCEPT ![p] = r], Move(p),
               r.callback = "negotiate" => pc' = pc
        PROVE  Inv'
    <3>1. Talk(p)
      BY <1>1, <2>4, TalkTake DEF PacketType
    <3>2. Negotiates(p, r)
      BY <2>1, <2>2, <2>4 DEF Negotiates
    <3> QED BY <1>1, <2>3, <2>4, <3>1, <3>2, QuietTurn
  <2>5. CASE ~R!MetByRemote(ready[p])
    <3>1. chan' = Taken(p) /\ ready' = [ready EXCEPT ![p] = r] /\ UNCHANGED <<pc, frame>>
      BY <1>3, <2>5 DEF TakeReady
    <3> QED BY <2>4, <3>1 DEF Move
  <2>6. CASE R!MetByRemote(ready[p]) /\ ready[p].callback = "toEnd"
    <3>1. /\ ReadyToEnd(p, r, <<>>, Taken(p)) /\ UNCHANGED <<pc, frame>>
      BY <1>3, <2>6 DEF TakeReady
    <3>2. /\ chan' = [Taken(p) EXCEPT ![p] = @ \o <<>> \o <<y>>]
          /\ ready' = [ready EXCEPT ![p] = R!AfterLocal(r, "toEnd2")]
      BY <3>1 DEF ReadyToEnd
    <3>3. y \in Packet /\ ~Input(y)
      <4>1. EndFrame(p) \in Nat
        BY <1>1 DEF CoreType, EndFrame
      <4> QED BY <4>1, PacketFacts DEF Input, PacketType
    <3>4. Talk(p)
      BY <1>1, <3>2, <3>3, TalkTakeEnd DEF PacketType
    <3>5. Negotiates(p, R!AfterLocal(r, "toEnd2"))
      BY <2>2, <2>6, <3>2, ReadyFacts DEF Negotiates
    <3> QED BY <1>1, <2>3, <3>1, <3>4, <3>5, QuietTurn DEF Move
  <2>7. CASE R!MetByRemote(ready[p]) /\ ready[p].callback = "toEnd2"
    <3>1. chan' = Taken(p) /\ ready' = [ready EXCEPT ![p] = r] /\ UNCHANGED <<pc, frame>>
      BY <1>3, <2>7 DEF TakeReady
    <3> QED BY <2>4, <3>1 DEF Move
  <2>8. CASE R!MetByRemote(ready[p]) /\ ready[p].callback = "negotiate"
    <3>1. chan' = Taken(p) /\ ready' = [ready EXCEPT ![p] = r] /\ Met(p)
      BY <1>3, <2>8 DEF TakeReady
    <3>2. Move(p)
      BY <1>1, <2>1, <2>8, <3>1, MetMoves
    <3> QED BY <2>2, <2>4, <2>8, <3>1, <3>2
  <2> QED BY <2>2, <2>5, <2>6, <2>7, <2>8
<1> QED BY <1>2, <1>3 DEF HandleReady

-----------------------------------------------------------------------------

LEMMA InvInit == Init => Inv
<1> SUFFICES ASSUME Init PROVE Inv
  OBVIOUS
<1>1. delay \in Nat /\ \A p \in Party : frame[p] = 0 /\ pc[p] = "frame"
  BY DelayAssumption DEF Init
<1>2. ASSUME NEW p \in Party
      PROVE  /\ buffer[p].own = [i \in 1 .. delay |-> 0] /\ chan[p] = <<>>
             /\ buffer[p].other = [i \in 1 .. delay |-> 0]
  BY DEF Init
<1>3. CoreType
  <2>1. [i \in 1 .. delay |-> 0] \in Seq(Nat) /\ <<>> \in Seq(Packet)
    BY <1>1
  <2>2. buffer \in [Party -> [own : Seq(Nat), other : Seq(Nat)]]
    BY <2>1 DEF Init
  <2>3. chan \in [Party -> Seq(Packet)]
    BY <2>1 DEF Init
  <2>4. ready \in [Party -> R!Ready]
    BY DEF Init, R!Ready, R!NotReady
  <2> QED BY <1>1, <2>2, <2>3, <2>4 DEF Init, CoreType, Point
<1>4. ASSUME NEW p \in Party PROVE ReadyInv(p)
  BY DEF Init, ReadyInv, R!NotReady
<1>5. ASSUME NEW p \in Party PROVE OwnInv(p) /\ OtherInv(p)
  <2>1. Used(p) = 0 /\ Sent(p) = 0 /\ Sent(Peer(p)) = 0
    BY <1>1, PeerFacts DEF Used, Sent
  <2>2. OwnInv(p) /\ Right(buffer[p].other, delay, 0) /\ Len(buffer[p].other) = delay
    BY <1>1, <1>2, <2>1, RightFiller DEF OwnInv
  <2>3. MaySent(Peer(p), 0) /\ Holds(chan[Peer(p)], 0, 0)
    BY <1>2, <2>1, PeerFacts, HoldsNothing DEF MaySent
  <2>4. Used(p) + Len(buffer[p].other) = 0 + delay
    BY <2>1, <2>2
  <2> QED BY <2>1, <2>2, <2>3, <2>4 DEF OtherInv
<1>6. NotFar
  BY <1>1 DEF NotFar
<1> QED BY <1>3, <1>4, <1>5, <1>6 DEF Inv

LEMMA InvStep ==
  ASSUME Inv, [Next]_vars
  PROVE  Inv'
<1>1. ASSUME NEW p \in Party, Play(p) PROVE Inv'
  BY <1>1, QuietPlay, LocalInputStep, UseInputsStep, SignalEndStep, NegotiateStep DEF Play
<1>2. ASSUME NEW p \in Party, HandleBattleInput(p) PROVE Inv'
  <2>1. Arrives(p, "BATTLEINPUT") /\ pc[p] # "left"
    BY <1>2 DEF HandleBattleInput, Arrives, Polls, Meeting
  <2> QED BY <1>2, <2>1, HandleBattleInputStep, RefuseStep DEF HandleBattleInput
<1>3. ASSUME NEW p \in Party, Receive(p) PROVE Inv'
  BY <1>2, <1>3, HandleChecksumStep, HandleReadyStep, HandleFrameCountStep DEF Receive
<1>4. ASSUME NEW p \in Party, PeerLost(p) \/ Lose(p) PROVE Inv'
  BY <1>4, QuietPlay DEF PeerLost
<1>5. ASSUME UNCHANGED vars PROVE Inv'
  <2>1. UNCHANGED <<delay, pc, frame, buffer, chan, ready>>
    BY <1>5 DEF vars
  <2>2. \A p \in Party :
          /\ Used(p)' = Used(p) /\ Sent(p)' = Sent(p)
          /\ OwnInv(p) => OwnInv(p)'
          /\ ReadyInv(p) => ReadyInv(p)'
    BY <2>1 DEF Used, Sent, OwnInv, ReadyInv
  <2>3. \A p \in Party : OtherInv(p) => OtherInv(p)'
    BY <2>1, <2>2, PeerFacts DEF OtherInv, MaySent
  <2>4. CoreType' /\ NotFar'
    BY <2>1 DEF Inv, CoreType, NotFar
  <2> QED BY <2>1, <2>2, <2>3, <2>4 DEF Inv
<1> QED BY <1>1, <1>3, <1>4, <1>5 DEF Next, Done

(* The front of each buffer belongs to the frame.                          *)
LEMMA InvSameInputs == Inv => SameInputs
<1> SUFFICES ASSUME Inv, NEW p \in Party, pc[p] \in {"remote", "stalled"}
             PROVE  LET due == Max({0, frame[p] - delay + 1})
                    IN  /\ Head(buffer[p].own) = due
                        /\ buffer[p].other # <<>> => Head(buffer[p].other) = due
  BY DEF SameInputs
<1>1. CoreType /\ OwnInv(p) /\ OtherInv(p) /\ Used(p) = frame[p]
  BY DEF Inv, Used
<1>2. Max({0, frame[p] - delay + 1}) = Due(delay, frame[p])
  <2>1. frame[p] \in Nat /\ delay \in Nat
    BY <1>1, Types
  <2>2. PICK m \in Int : m = frame[p] - delay + 1
    BY <2>1
  <2>3. Max({0, m}) = IF 0 >= m THEN 0 ELSE m
    BY MaxOfTwo
  <2>4. (IF 0 >= m THEN 0 ELSE m) = Due(delay, frame[p])
    BY <2>1, <2>2 DEF Due
  <2> QED BY <2>2, <2>3, <2>4, Zenon
<1>3. buffer[p].own # <<>>
  <2>1. Len(buffer[p].own) = delay + 1 /\ delay + 1 # 0
    BY <1>1, Types DEF OwnInv
  <2>2. Len(<<>>) = 0
    OBVIOUS
  <2> QED BY <2>1, <2>2, Zenon
<1>4. Head(buffer[p].own) = Due(delay, frame[p])
  BY <1>1, <1>3, Types, RightTail DEF OwnInv
<1>5. buffer[p].other # <<>> => Head(buffer[p].other) = Due(delay, frame[p])
  BY <1>1, Types, RightTail DEF OtherInv
<1> QED BY <1>2, <1>4, <1>5

(* In every frame both machines use the inputs which the two players gave  *)
(* delay frames earlier, the own one as well as the one received, for any  *)
(* input delay and however far the packets lag (networkBattleInput,        *)
(* BattleInputBuffer_push and _pop).                                       *)
THEOREM InputsAgree == Spec => []SameInputs
<1>1. Init => Inv
  BY InvInit
<1>2. Inv /\ [Next]_vars => Inv'
  BY InvStep
<1>3. Inv => SameInputs
  BY InvSameInputs
<1> QED BY <1>1, <1>2, <1>3, PTL DEF Spec

(* No machine is ever more than the delay and the current frame ahead of   *)
(* the other, for any input delay, throughout the interruptions of the     *)
(* battle (networkBattleInput waits for the input it lacks).               *)
THEOREM NeverAhead == Spec => []NeverFarAhead
<1>1. Init => Inv
  BY InvInit
<1>2. Inv /\ [Next]_vars => Inv'
  BY InvStep
<1>3. Inv => NeverFarAhead
  <2>1. \A m, n, d \in Nat : m <= n + d + 1 => m - n <= d + 1
    OBVIOUS
  <2> QED BY <2>1 DEF Inv, CoreType, NotFar, NeverFarAhead
<1> QED BY <1>1, <1>2, <1>3, PTL DEF Spec

(* There is room for an input that arrives.                                *)
InputsFit ==
  \A p \in Party : Arrives(p, "BATTLEINPUT") => Len(buffer[p].other) < BufferSize

LEMMA InputFits ==
  ASSUME Inv, NEW p \in Party, Arrives(p, "BATTLEINPUT")
  PROVE  Len(buffer[p].other) < BufferSize
<1> DEFINE q == Peer(p)
<1>1. CoreType /\ pc[p] # "left" /\ q \in Party
  BY PeerFacts DEF Inv, Arrives, Polls, Meeting
<1>2. chan[q] \in Seq(Packet) /\ chan[q] # <<>> /\ Input(Head(chan[q]))
  BY <1>1, Types DEF Arrives, Incoming, Input
<1>3. PICK lo \in Nat, hi \in Nat :
        /\ Used(p) + Len(buffer[p].other) = lo + delay
        /\ MaySent(q, hi) /\ Holds(chan[q], lo, hi)
  BY <1>1 DEF Inv, OtherInv
<1>4. lo < hi
  BY <1>2, <1>3, HoldsTail
<1>5. frame[q] <= frame[p] + delay + 1 /\ frame[p] \in Nat /\ frame[q] \in Nat /\ delay \in Nat
  BY <1>1, Types DEF Inv, NotFar
<1>6. hi <= frame[q] + 1 /\ Used(p) >= frame[p] /\ Used(p) \in Nat
  BY <1>3, <1>5 DEF MaySent, Sent, Used
<1>7. PICK n \in Nat : n = Len(buffer[p].other)
  BY <1>1, Types
<1>8. Used(p) + n = lo + delay
  BY <1>3, <1>7
<1>9. n < 2 * delay + 2
  BY <1>4, <1>5, <1>6, <1>8
<1> QED BY <1>7, <1>9, Zenon DEF BufferSize

(* A buffer of 2 * delay + 2 has room for every input that arrives, so     *)
(* PacketHandler_BattleInput never refuses one for want of room.           *)
THEOREM NoOverflow == Spec => []InputsFit
<1>1. Init => Inv
  BY InvInit
<1>2. Inv /\ [Next]_vars => Inv'
  BY InvStep
<1>3. Inv => InputsFit
  BY InputFits DEF InputsFit
<1> QED BY <1>1, <1>2, <1>3, PTL DEF Spec

-----------------------------------------------------------------------------
(***************************************************************************)
(* Proofs about the interruptions of a lockstep battle, for every input    *)
(* delay, every set of frames in which ships die and any length of the     *)
(* music: both machines interrupt the battle in the same frames, and no    *)
(* packet of a battle arrives where it is not expected.                    *)
(*                                                                         *)
(* The argument numbers the meetings. A machine that has passed n of them  *)
(* has told the other n or n + 1 times that it is ready, and an            *)
(* interruption takes five: to end the battle, to agree on the frame, at   *)
(* the end of that frame, at the checkpoint, and to fight on. So a number  *)
(* says what a signal is, and where a machine is that has passed it.       *)
(***************************************************************************)
-----------------------------------------------------------------------------
(* The numbers of the signals in a channel.                                *)

Signal(x) == x.type \in {"READY", "FRAMECOUNT"}

(* The second signal of an interruption is the FRAMECOUNT.                 *)
FrameTurn(n) == \E k \in Nat : n = 5 * k + 2

(* A machine that has given n signals and passed m meetings fights: its    *)
(* last interruption is over, or the present one has not come to its frame.*)
FightTurn(n, m) == \E k \in Nat : (n = 5 * k /\ n <= m) \/ n = 5 * k + 1 \/ n = 5 * k + 2

(* The packet x, after which n signals were given, m before it.            *)
Counts(x, m, n, most) ==
  IF Signal(x) THEN n = m + 1 /\ (x.type = "FRAMECOUNT" <=> FrameTurn(n))
  ELSE n = m /\ FightTurn(n, most)

(* A channel with the signals after the first lo, up to the one number hi, *)
(* of a sender that has passed at most so many meetings.                   *)
Numbered(ch, lo, hi, most) ==
  \E num \in [0 .. Len(ch) -> Nat] :
    /\ num[0] = lo /\ num[Len(ch)] = hi
    /\ \A i, j \in 0 .. Len(ch) : i <= j => num[i] <= num[j]
    /\ \A i \in 1 .. Len(ch) : Counts(ch[i], num[i - 1], num[i], most)

LEMMA NumberedNothing ==
  ASSUME NEW lo \in Nat, NEW most \in Nat
  PROVE  Numbered(<<>>, lo, lo, most)
<1> DEFINE num == [i \in 0 .. 0 |-> lo]
<1>1. num \in [0 .. Len(<<>>) -> Nat] /\ num[0] = lo /\ num[Len(<<>>)] = lo
  OBVIOUS
<1>2. /\ \A i, j \in 0 .. Len(<<>>) : i <= j => num[i] <= num[j]
      /\ \A i \in 1 .. Len(<<>>) : FALSE
  OBVIOUS
<1> QED BY <1>1, <1>2 DEF Numbered

LEMMA NumberedOrder ==
  ASSUME NEW ch \in Seq(Packet), NEW lo \in Nat, NEW hi \in Nat, NEW most \in Nat,
         Numbered(ch, lo, hi, most)
  PROVE  lo <= hi
<1>1. 0 \in 0 .. Len(ch) /\ Len(ch) \in 0 .. Len(ch) /\ 0 <= Len(ch)
  OBVIOUS
<1> QED BY <1>1 DEF Numbered

LEMMA NumberedMost ==
  ASSUME NEW ch \in Seq(Packet), NEW lo \in Nat, NEW hi \in Nat,
         NEW most \in Nat, Numbered(ch, lo, hi, most), NEW more \in Nat, most <= more
  PROVE  Numbered(ch, lo, hi, more)
<1>1. PICK num \in [0 .. Len(ch) -> Nat] :
        /\ num[0] = lo /\ num[Len(ch)] = hi
        /\ \A i, j \in 0 .. Len(ch) : i <= j => num[i] <= num[j]
        /\ \A i \in 1 .. Len(ch) : Counts(ch[i], num[i - 1], num[i], most)
  BY DEF Numbered
<1>2. ASSUME NEW n \in Nat, FightTurn(n, most) PROVE FightTurn(n, more)
  <2>1. PICK k \in Nat : (n = 5 * k /\ n <= most) \/ n = 5 * k + 1 \/ n = 5 * k + 2
    BY <1>2 DEF FightTurn
  <2>2. (n = 5 * k /\ n <= more) \/ n = 5 * k + 1 \/ n = 5 * k + 2
    BY <2>1
  <2> QED BY <2>2 DEF FightTurn
<1>3. ASSUME NEW i \in 1 .. Len(ch) PROVE Counts(ch[i], num[i - 1], num[i], more)
  <2>1. num[i] \in Nat /\ Counts(ch[i], num[i - 1], num[i], most)
    BY <1>1
  <2> QED BY <1>2, <2>1 DEF Counts
<1> QED BY <1>1, <1>3 DEF Numbered

LEMMA NumberedAppend ==
  ASSUME NEW ch \in Seq(Packet), NEW lo \in Nat, NEW hi \in Nat, NEW most \in Nat,
         Numbered(ch, lo, hi, most),
         NEW x \in Packet, NEW n \in Nat, Counts(x, hi, n, most)
  PROVE  Numbered(Append(ch, x), lo, n, most) /\ Append(ch, x) \in Seq(Packet)
<1>1. PICK num \in [0 .. Len(ch) -> Nat] :
        /\ num[0] = lo /\ num[Len(ch)] = hi
        /\ \A i, j \in 0 .. Len(ch) : i <= j => num[i] <= num[j]
        /\ \A i \in 1 .. Len(ch) : Counts(ch[i], num[i - 1], num[i], most)
  BY DEF Numbered
<1>2. /\ Append(ch, x) \in Seq(Packet) /\ Len(ch) \in Nat
      /\ Len(Append(ch, x)) = Len(ch) + 1
      /\ \A i \in 1 .. Len(ch) : Append(ch, x)[i] = ch[i]
      /\ Append(ch, x)[Len(ch) + 1] = x
  OBVIOUS
<1>3. PICK m \in Nat : m = Len(ch)
  BY <1>2
<1> DEFINE nxt == [i \in 0 .. m + 1 |-> IF i = m + 1 THEN n ELSE num[i]]
<1>4. \A i \in 0 .. m + 1 : i = m + 1 \/ i \in 0 .. m
  OBVIOUS
<1>5. nxt \in [0 .. m + 1 -> Nat] /\ nxt[0] = lo /\ nxt[m + 1] = n
  BY <1>1, <1>3, <1>4
<1>6. hi <= n
  BY DEF Counts
<1>7. \A i, j \in 0 .. m + 1 : i <= j => nxt[i] <= nxt[j]
  <2>1. \A i \in 0 .. m : nxt[i] = num[i] /\ num[i] \in Nat /\ num[i] <= hi
    BY <1>1, <1>3
  <2>2. ASSUME NEW i \in 0 .. m + 1 PROVE nxt[i] <= n
    <3>1. CASE i = m + 1
      BY <1>5, <3>1
    <3>2. CASE i \in 0 .. m
      <4>1. nxt[i] \in Nat /\ nxt[i] <= hi
        BY <2>1, <3>2
      <4> HIDE DEF nxt
      <4> QED BY <1>6, <4>1
    <3> QED BY <1>4, <3>1, <3>2
  <2>3. \A i, j \in 0 .. m : i <= j => nxt[i] <= nxt[j]
    BY <1>1, <1>3, <2>1
  <2>4. \A i, j \in 0 .. m + 1 : i <= j /\ i = m + 1 => j = m + 1
    OBVIOUS
  <2> QED BY <1>4, <1>5, <2>2, <2>3, <2>4
<1>8. ASSUME NEW i \in 1 .. m + 1 PROVE Counts(Append(ch, x)[i], nxt[i - 1], nxt[i], most)
  <2>1. CASE i = m + 1
    <3>1. nxt[i - 1] = hi /\ nxt[i] = n /\ Append(ch, x)[i] = x
      BY <1>1, <1>2, <1>3, <2>1
    <3> QED BY <3>1
  <2>2. CASE i \in 1 .. m
    <3>1. nxt[i - 1] = num[i - 1] /\ nxt[i] = num[i] /\ Append(ch, x)[i] = ch[i]
      BY <1>2, <1>3, <2>2
    <3> QED BY <1>1, <1>3, <2>2, <3>1
  <2>3. i = m + 1 \/ i \in 1 .. m
    OBVIOUS
  <2> QED BY <2>1, <2>2, <2>3, Zenon
<1>9. Len(Append(ch, x)) = m + 1
  BY <1>2, <1>3
<1> QED BY <1>2, <1>5, <1>7, <1>8, <1>9 DEF Numbered

LEMMA NumberedTail ==
  ASSUME NEW ch \in Seq(Packet), ch # <<>>,
         NEW lo \in Nat, NEW hi \in Nat, NEW most \in Nat, Numbered(ch, lo, hi, most)
  PROVE  /\ Tail(ch) \in Seq(Packet) /\ Head(ch) \in Packet
         /\ \E n \in Nat : /\ Counts(Head(ch), lo, n, most) /\ n <= hi
                           /\ Numbered(Tail(ch), n, hi, most)
<1>1. PICK num \in [0 .. Len(ch) -> Nat] :
        /\ num[0] = lo /\ num[Len(ch)] = hi
        /\ \A i, j \in 0 .. Len(ch) : i <= j => num[i] <= num[j]
        /\ \A i \in 1 .. Len(ch) : Counts(ch[i], num[i - 1], num[i], most)
  BY DEF Numbered
<1>2. /\ Tail(ch) \in Seq(Packet) /\ Head(ch) \in Packet /\ Head(ch) = ch[1]
      /\ Len(ch) \in Nat /\ Len(ch) > 0 /\ Len(Tail(ch)) = Len(ch) - 1
      /\ \A i \in 1 .. Len(ch) - 1 : Tail(ch)[i] = ch[i + 1]
  OBVIOUS
<1>3. PICK m \in Nat : m + 1 = Len(ch) /\ Len(Tail(ch)) = m
  <2>1. Len(ch) - 1 \in Nat /\ (Len(ch) - 1) + 1 = Len(ch)
    BY <1>2
  <2> QED BY <1>2, <2>1
<1> DEFINE nxt == [i \in 0 .. m |-> num[i + 1]]
<1>4. \A i \in 0 .. m : i + 1 \in 0 .. m + 1
  OBVIOUS
<1>5. nxt \in [0 .. m -> Nat] /\ nxt[0] = num[1] /\ nxt[m] = hi /\ num[1] \in Nat
  <2>1. num \in [0 .. m + 1 -> Nat] /\ num[m + 1] = hi
    BY <1>1, <1>3
  <2>2. 0 \in 0 .. m /\ m \in 0 .. m /\ 0 + 1 = 1 /\ 1 \in 0 .. m + 1
    OBVIOUS
  <2> QED BY <1>4, <2>1, <2>2
<1>6. \A i, j \in 0 .. m : i <= j => nxt[i] <= nxt[j]
  <2>1. \A i, j \in 0 .. m : i <= j => i + 1 <= j + 1
    OBVIOUS
  <2> QED BY <1>1, <1>3, <1>4, <2>1
<1>7. ASSUME NEW i \in 1 .. m PROVE Counts(Tail(ch)[i], nxt[i - 1], nxt[i], most)
  <2>1. i + 1 \in 1 .. m + 1 /\ i - 1 \in 0 .. m /\ i \in 0 .. m /\ (i + 1) - 1 = (i - 1) + 1
    OBVIOUS
  <2>2. Tail(ch)[i] = ch[i + 1]
    BY <1>2, <1>3
  <2>3. Counts(ch[i + 1], num[(i + 1) - 1], num[i + 1], most)
    BY <1>1, <1>3, <2>1
  <2> QED BY <2>1, <2>2, <2>3
<1>8. Counts(Head(ch), lo, num[1], most) /\ num[1] <= hi
  <2>1. 1 \in 1 .. m + 1 /\ 1 \in 0 .. m + 1 /\ m + 1 \in 0 .. m + 1 /\ 1 <= m + 1 /\ 1 - 1 = 0
    OBVIOUS
  <2> QED BY <1>1, <1>2, <1>3, <2>1
<1>9. Numbered(Tail(ch), num[1], hi, most)
  BY <1>3, <1>5, <1>6, <1>7 DEF Numbered
<1> QED BY <1>2, <1>5, <1>8, <1>9

(* A FRAMECOUNT on its way has a number of its own.                        *)
LEMMA NumberedFrame ==
  ASSUME NEW ch \in Seq(Packet), NEW lo \in Nat, NEW hi \in Nat, NEW most \in Nat,
         Numbered(ch, lo, hi, most), NEW i \in 1 .. Len(ch), ch[i].type = "FRAMECOUNT"
  PROVE  \E n \in Nat : lo < n /\ n <= hi /\ FrameTurn(n)
<1>1. PICK num \in [0 .. Len(ch) -> Nat] :
        /\ num[0] = lo /\ num[Len(ch)] = hi
        /\ \A k, j \in 0 .. Len(ch) : k <= j => num[k] <= num[j]
        /\ \A j \in 1 .. Len(ch) : Counts(ch[j], num[j - 1], num[j], most)
  BY DEF Numbered
<1>2. /\ Len(ch) \in Nat /\ i \in 0 .. Len(ch) /\ i - 1 \in 0 .. Len(ch) /\ 0 \in 0 .. Len(ch)
      /\ Len(ch) \in 0 .. Len(ch) /\ 0 <= i - 1 /\ i <= Len(ch)
  OBVIOUS
<1>3. num[i] = num[i - 1] + 1 /\ FrameTurn(num[i])
  <2>1. Counts(ch[i], num[i - 1], num[i], most)
    BY <1>1
  <2> QED BY <2>1 DEF Counts, Signal
<1>4. lo <= num[i - 1] /\ num[i] <= hi /\ num[i] \in Nat /\ num[i - 1] \in Nat
  BY <1>1, <1>2
<1> QED BY <1>3, <1>4

-----------------------------------------------------------------------------
(* The types of what the proofs of the inputs have no need of.             *)

MoreType ==
  /\ delay \in Delays
  /\ state \in [Party -> {"inBattle", "endingBattle", "endingBattle2", "interBattle"}]
  /\ endFrameCount \in [Party -> Nat]
  /\ ditty \in [Party -> 0..MaxDitty]
  /\ ended \in [Party -> Seq(Nat)]
  /\ fault \in [Party -> PacketType \cup {"none", "sync"}]

Ring == [0..(ChecksumRoom - 1) -> Nat \cup {NoSum}]

SumsOK == sums \in [Party -> [own : Ring, other : Ring]]

LEMMA TypeParts == TypeOK <=> CoreType /\ MoreType /\ SumsOK
BY DelayAssumption DEF TypeOK, CoreType, MoreType, Point, SumsOK, Ring

LEMMA TypeInit == Init => MoreType /\ SumsOK
<1> SUFFICES ASSUME Init PROVE MoreType /\ SumsOK
  OBVIOUS
<1>1. ended \in [Party -> Seq(Nat)]
  BY DEF Init
<1> DEFINE blank == [i \in 0..(ChecksumRoom - 1) |-> NoSum]
<1>2. blank \in Ring
  BY DEF Ring
<1>3. sums = [p \in Party |-> [own |-> blank, other |-> blank]]
  BY DEF Init
<1> HIDE DEF blank
<1>4. SumsOK
  BY <1>2, <1>3 DEF SumsOK
<1> QED BY <1>1, <1>4 DEF Init, MoreType

LEMMA MaxNat ==
  ASSUME NEW a \in Nat, NEW b \in Nat
  PROVE  /\ Max({a, b}) = (IF a >= b THEN a ELSE b) /\ Max({a, b}) \in Nat
         /\ Max({a, b}) >= a /\ Max({a, b}) >= b
<1>1. Max({a, b}) = IF a >= b THEN a ELSE b
  BY MaxOfTwo
<1> QED BY <1>1

LEMMA EntryType ==
  ASSUME delay \in Nat
  PROVE  /\ ChecksumRoom \in Nat \ {0} /\ Interval * ChecksumRoom >= 2 * delay + 2
         /\ \A n \in Nat : Entry(n) \in 0..(ChecksumRoom - 1)
<1>1. Interval \in Nat \ {0}
  BY DelayAssumption
<1>2. PICK x \in Nat : x = 2 * delay + 2 + (Interval - 1)
  BY <1>1
<1>3. x \div Interval \in Int /\ x = Interval * (x \div Interval) + (x % Interval)
      /\ x % Interval \in 0..(Interval - 1)
  BY <1>1
<1>4. ChecksumRoom = x \div Interval
  BY <1>2 DEF ChecksumRoom
<1>5. ChecksumRoom \in Nat \ {0} /\ Interval * ChecksumRoom >= 2 * delay + 2
  <2>1. PICK q \in Int, r \in Int : q = x \div Interval /\ r = x % Interval
    BY <1>3
  <2>2. 2 * delay + 2 + (Interval - 1) = Interval * q + r /\ 0 <= r /\ r < Interval
    BY <1>1, <1>2, <1>3, <2>1
  <2>3. q >= 1 /\ Interval * q >= 2 * delay + 2
    BY <1>1, <2>2
  <2> QED BY <1>4, <2>1, <2>3
<1>6. ASSUME NEW n \in Nat PROVE Entry(n) \in 0..(ChecksumRoom - 1)
  <2>1. n \div Interval \in Nat
    BY <1>1
  <2> QED BY <1>5, <2>1 DEF Entry
<1> QED BY <1>5, <1>6

(* A checksum kept leaves the buffers of checksums well formed.            *)
LEMMA SumsKept ==
  ASSUME SumsOK, delay \in Nat, delay' = delay, NEW p \in Party, NEW n \in Nat,
         \/ sums' = sums
         \/ sums' = [sums EXCEPT ![p].own[Entry(n)] = n]
         \/ sums' = [sums EXCEPT ![p].other[Entry(n)] = n]
  PROVE  SumsOK'
<1>1. PICK e \in 0..(ChecksumRoom - 1) : e = Entry(n)
  BY EntryType
<1>2. Ring' = Ring
  BY DEF Ring, ChecksumRoom
<1>3. \A f \in Ring : [f EXCEPT ![e] = n] \in Ring
  BY DEF Ring
<1>4. /\ sums \in [Party -> [own : Ring, other : Ring]]
      /\ [sums[p].own EXCEPT ![e] = n] \in Ring /\ [sums[p].other EXCEPT ![e] = n] \in Ring
  BY <1>3 DEF SumsOK
<1>5. \/ sums' = sums
      \/ sums' = [sums EXCEPT ![p].own = [sums[p].own EXCEPT ![e] = n]]
      \/ sums' = [sums EXCEPT ![p].other = [sums[p].other EXCEPT ![e] = n]]
  BY <1>1, <1>4
<1>6. sums' \in [Party -> [own : Ring, other : Ring]]
  BY <1>4, <1>5
<1> QED BY <1>2, <1>6 DEF SumsOK

LEMMA IncomingType ==
  ASSUME CoreType, NEW p \in Party, NEW t, Arrives(p, t)
  PROVE  /\ Incoming(p) \in Packet /\ Incoming(p).frame \in Nat
         /\ Incoming(p).type \in PacketType
         /\ chan[Peer(p)] \in Seq(Packet) /\ chan[Peer(p)] # <<>>
<1>1. chan[Peer(p)] \in Seq(Packet) /\ chan[Peer(p)] # <<>>
  BY PeerFacts, Types DEF Arrives
<1>2. Incoming(p) \in Packet
  BY <1>1 DEF Incoming
<1> QED BY <1>1, <1>2, PacketFacts

LEMMA SumsStep ==
  ASSUME Inv, SumsOK, [Next]_vars
  PROVE  SumsOK'
<1>1. CoreType /\ delay \in Nat
  BY DEF Inv, CoreType
<1>2. ASSUME NEW p \in Party, SendChecksum(p) PROVE SumsOK'
  <2>1. delay' = delay /\ frame[p] \in Nat
    BY <1>1, <1>2 DEF SendChecksum, CoreType
  <2>2. sums' = sums \/ sums' = [sums EXCEPT ![p].own[Entry(frame[p])] = frame[p]]
    BY <1>2 DEF SendChecksum
  <2> QED BY <1>1, <2>1, <2>2, SumsKept
<1>3. ASSUME UNCHANGED <<delay, sums>> PROVE SumsOK'
  <2>1. Ring' = Ring
    BY <1>3 DEF Ring, ChecksumRoom
  <2> QED BY <1>3, <2>1 DEF SumsOK
<1>4. ASSUME NEW p \in Party, HandleChecksum(p) PROVE SumsOK'
  <2>1. Incoming(p).frame \in Nat
    BY <1>1, <1>4, IncomingType DEF HandleChecksum
  <2>2. CASE RefusePacket(p)
    BY <1>3, <2>2 DEF RefusePacket
  <2>3. CASE BattleActive(p)
    <3>1. /\ delay' = delay
          /\ \/ sums' = sums
             \/ sums' = [sums EXCEPT ![p].other[Entry(Incoming(p).frame)] = Incoming(p).frame]
      BY <1>4, <2>3 DEF HandleChecksum
    <3> QED BY <1>1, <2>1, <3>1, SumsKept
  <2> QED BY <1>4, <2>2, <2>3 DEF HandleChecksum
<1>5. ASSUME NEW p \in Party,
             \/ LocalInput(p) \/ Stall(p) \/ UseInputs(p) \/ PlayOn(p) \/ SignalEnd(p)
             \/ ReachEndFrame(p) \/ AwaitFrameCount(p) \/ Awaited(p) \/ EndBattle(p)
             \/ Negotiate(p) \/ HandleBattleInput(p) \/ HandleReady(p) \/ HandleFrameCount(p)
             \/ PeerLost(p) \/ Lose(p)
      PROVE  UNCHANGED <<delay, sums>>
  <2>1. CASE LocalInput(p) \/ Stall(p) \/ UseInputs(p) \/ PlayOn(p) \/ SignalEnd(p)
    BY <2>1 DEF LocalInput, Stall, UseInputs, PlayOn, SignalEnd
  <2>2. CASE ReachEndFrame(p) \/ AwaitFrameCount(p) \/ Awaited(p) \/ EndBattle(p) \/ Negotiate(p)
    BY <2>2 DEF ReachEndFrame, AwaitFrameCount, Awaited, EndBattle, Negotiate
  <2>3. CASE HandleBattleInput(p) \/ HandleReady(p) \/ HandleFrameCount(p)
    <3>1. TakeReady(p) => UNCHANGED <<delay, sums>>
      BY DEF TakeReady
    <3>2. RefusePacket(p) => UNCHANGED <<delay, sums>>
      BY DEF RefusePacket
    <3> QED BY <2>3, <3>1, <3>2 DEF HandleBattleInput, HandleReady, HandleFrameCount
  <2>4. CASE PeerLost(p) \/ Lose(p)
    BY <2>4 DEF PeerLost, Lose
  <2> QED BY <1>5, <2>1, <2>2, <2>3, <2>4
<1>6. CASE UNCHANGED vars
  BY <1>3, <1>6 DEF vars
<1> QED BY <1>2, <1>3, <1>4, <1>5, <1>6 DEF Next, Done, Play, Receive

(* What a meeting changes, place by place.                                 *)
LEMMA MetParts ==
  ASSUME MoreType, NEW p \in Party, pc[p] \in Meeting, Met(p)
  PROVE  /\ pc[p] = "ended" =>
              /\ state' = [state EXCEPT ![p] = "interBattle"]
              /\ pc' = [pc EXCEPT ![p] = "checkpoint"]
              /\ endFrameCount' = [endFrameCount EXCEPT ![p] = 0]
              /\ \E n \in 0..MaxDitty : ditty' = [ditty EXCEPT ![p] = n]
              /\ frame' = frame
         /\ pc[p] = "checkpoint" =>
              /\ state' = [state EXCEPT ![p] = "interBattle"]
              /\ \E t \in {"over", "fight"} : pc' = [pc EXCEPT ![p] = t]
              /\ UNCHANGED <<frame, endFrameCount, ditty>>
         /\ pc[p] = "fight" =>
              /\ state' = [state EXCEPT ![p] = "inBattle"]
              /\ pc' = [pc EXCEPT ![p] = "frame"]
              /\ frame' = [frame EXCEPT ![p] = @ + 1]
              /\ UNCHANGED <<endFrameCount, ditty>>
<1>1. CASE pc[p] = "ended"
  BY <1>1 DEF Met
<1>2. CASE pc[p] = "checkpoint"
  BY <1>2 DEF Met
<1>3. CASE pc[p] = "fight"
  BY <1>3 DEF Met, NextFrame
<1> QED BY <1>1, <1>2, <1>3 DEF Meeting

LEMMA MetType ==
  ASSUME MoreType, NEW p \in Party, pc[p] \in Meeting, Met(p)
  PROVE  /\ state' \in [Party -> {"inBattle", "endingBattle", "endingBattle2", "interBattle"}]
         /\ endFrameCount' \in [Party -> Nat] /\ ditty' \in [Party -> 0..MaxDitty]
<1>1. CASE pc[p] = "ended"
  <2>1. /\ state' = [state EXCEPT ![p] = "interBattle"]
        /\ endFrameCount' = [endFrameCount EXCEPT ![p] = 0]
        /\ \E n \in 0..MaxDitty : ditty' = [ditty EXCEPT ![p] = n]
    BY <1>1, MetParts
  <2>2. PICK n \in 0..MaxDitty : ditty' = [ditty EXCEPT ![p] = n]
    BY <2>1
  <2>3. ditty' \in [Party -> 0..MaxDitty]
    BY <2>2 DEF MoreType
  <2> QED BY <2>1, <2>3 DEF MoreType
<1>2. CASE pc[p] = "checkpoint"
  BY <1>2, MetParts DEF MoreType
<1>3. CASE pc[p] = "fight"
  BY <1>3, MetParts DEF MoreType
<1> QED BY <1>1, <1>2, <1>3 DEF Meeting

LEMMA TypePlay ==
  ASSUME Inv, MoreType, NEW p \in Party, Play(p)
  PROVE  MoreType'
<1>1. CoreType /\ delay \in Nat /\ frame[p] \in Nat /\ endFrameCount[p] \in Nat /\ EndFrame(p) \in Nat
  BY DEF Inv, CoreType, MoreType, EndFrame
<1>2. CASE SendChecksum(p)
  BY <1>2 DEF SendChecksum, MoreType
<1>3. CASE LocalInput(p) \/ Stall(p) \/ ReachEndFrame(p) \/ AwaitFrameCount(p) \/ Awaited(p)
  BY <1>3 DEF MoreType, LocalInput, Stall, ReachEndFrame, AwaitFrameCount, Awaited
<1>4. CASE UseInputs(p)
  <2>1. UNCHANGED <<delay, state, endFrameCount, ditty, ended>>
    BY <1>4 DEF UseInputs
  <2>2. fault' = fault \/ fault' = [fault EXCEPT ![p] = "sync"]
    BY <1>4 DEF UseInputs
  <2> QED BY <2>1, <2>2 DEF MoreType
<1>5. CASE PlayOn(p)
  <2>1. UNCHANGED <<delay, state, endFrameCount, ended, fault>>
    BY <1>5 DEF PlayOn
  <2>2. ditty' = ditty \/ (ditty[p] > 0 /\ ditty' = [ditty EXCEPT ![p] = @ - 1])
    BY <1>5 DEF PlayOn
  <2>3. ditty' \in [Party -> 0..MaxDitty]
    <3>1. ditty \in [Party -> 0..MaxDitty] /\ MaxDitty \in Nat
      BY DeathAssumption DEF MoreType
    <3>2. ditty[p] > 0 => ditty[p] - 1 \in 0..MaxDitty
      BY <3>1
    <3> QED BY <2>2, <3>1, <3>2
  <2> QED BY <2>1, <2>3 DEF MoreType
<1>6. CASE SignalEnd(p)
  <2>1. UNCHANGED <<delay, ditty, ended, fault>>
    BY <1>6 DEF SignalEnd
  <2>2. \/ UNCHANGED <<state, endFrameCount>>
        \/ /\ state' = [state EXCEPT ![p] = "endingBattle"]
           /\ endFrameCount' = [endFrameCount EXCEPT ![p] = Max({@, EndFrame(p)})]
    BY <1>6 DEF SignalEnd, ReadyToEnd
  <2>3. Max({endFrameCount[p], EndFrame(p)}) \in Nat
    BY <1>1, MaxNat
  <2> QED BY <2>1, <2>2, <2>3 DEF MoreType
<1>7. CASE EndBattle(p)
  <2>1. UNCHANGED <<delay, state, endFrameCount, ditty, fault>>
    BY <1>7 DEF EndBattle
  <2>2. ended' = [ended EXCEPT ![p] = Append(@, frame[p])]
    BY <1>7 DEF EndBattle
  <2>3. ended' \in [Party -> Seq(Nat)]
    BY <1>1, <2>2 DEF MoreType
  <2> QED BY <2>1, <2>3 DEF MoreType
<1>8. CASE Negotiate(p)
  <2>1. UNCHANGED <<delay, ended, fault>>
    BY <1>8 DEF Negotiate
  <2>2. (Met(p) /\ pc[p] \in Meeting) \/ UNCHANGED <<state, endFrameCount, ditty>>
    BY <1>8 DEF Negotiate
  <2> QED BY <2>1, <2>2, MetType DEF MoreType
<1> QED BY <1>2, <1>3, <1>4, <1>5, <1>6, <1>7, <1>8 DEF Play

LEMMA TypeReceive ==
  ASSUME Inv, MoreType, NEW p \in Party, Receive(p)
  PROVE  MoreType'
<1>1. CoreType /\ delay \in Nat /\ frame[p] \in Nat /\ endFrameCount[p] \in Nat /\ EndFrame(p) \in Nat
  BY DEF Inv, CoreType, MoreType, EndFrame
<1>2. \A t \in PacketType : Arrives(p, t) => Incoming(p).frame \in Nat /\ Incoming(p).type \in PacketType
  BY <1>1, IncomingType
<1>3. ASSUME RefusePacket(p), NEW t \in PacketType, Arrives(p, t) PROVE MoreType'
  BY <1>2, <1>3 DEF RefusePacket, MoreType
<1>4. CASE HandleBattleInput(p)
  <2>1. Arrives(p, "BATTLEINPUT") /\ "BATTLEINPUT" \in PacketType
    BY <1>4 DEF HandleBattleInput, PacketType
  <2>2. RefusePacket(p) \/ UNCHANGED <<delay, state, endFrameCount, ditty, ended, fault>>
    BY <1>4 DEF HandleBattleInput
  <2> QED BY <1>3, <2>1, <2>2 DEF MoreType
<1>5. CASE HandleChecksum(p)
  <2>1. Arrives(p, "CHECKSUM") /\ "CHECKSUM" \in PacketType /\ Incoming(p).frame \in Nat
    BY <1>2, <1>5 DEF HandleChecksum, PacketType
  <2>2. RefusePacket(p) \/ UNCHANGED <<delay, state, endFrameCount, ditty, ended, fault>>
    BY <1>5 DEF HandleChecksum
  <2> QED BY <1>3, <2>1, <2>2 DEF MoreType
<1>6. CASE HandleReady(p)
  <2>1. Arrives(p, "READY") /\ "READY" \in PacketType
    BY <1>6 DEF HandleReady, PacketType
  <2>2. ASSUME TakeReady(p) PROVE MoreType'
    <3>1. UNCHANGED <<delay, ended, fault>>
      BY <2>2 DEF TakeReady
    <3>2. CASE ~R!MetByRemote(ready[p])
      BY <2>2, <3>1, <3>2 DEF TakeReady, MoreType
    <3>3. CASE R!MetByRemote(ready[p])
      <4>1. ready[p].callback \in {"toEnd", "toEnd2", "negotiate"}
        <5>1. ready[p] \in R!Ready /\ (ready[p].local <=> ready[p].callback # "none")
          BY DEF Inv, CoreType, ReadyInv
        <5> QED BY <3>3, <5>1, ReadyFacts
      <4>2. CASE ready[p].callback = "toEnd"
        <5>1. /\ state' = [state EXCEPT ![p] = "endingBattle"]
              /\ endFrameCount' = [endFrameCount EXCEPT ![p] = Max({@, EndFrame(p)})]
              /\ ditty' = ditty
          BY <2>2, <3>3, <4>2 DEF TakeReady, ReadyToEnd
        <5>2. Max({endFrameCount[p], EndFrame(p)}) \in Nat
          BY <1>1, MaxNat
        <5> QED BY <3>1, <5>1, <5>2 DEF MoreType
      <4>3. CASE ready[p].callback = "toEnd2"
        <5>1. state' = [state EXCEPT ![p] = "endingBattle2"] /\ UNCHANGED <<endFrameCount, ditty>>
          BY <2>2, <3>3, <4>3 DEF TakeReady
        <5> QED BY <3>1, <5>1 DEF MoreType
      <4>4. CASE ready[p].callback = "negotiate"
        <5>1. Met(p) /\ pc[p] \in Meeting
          BY <2>1, <2>2, <3>3, <4>4 DEF TakeReady, Inv, ReadyInv, Arrives, Polls, Meeting
        <5> QED BY <3>1, <5>1, MetType DEF MoreType
      <4> QED BY <4>1, <4>2, <4>3, <4>4
    <3> QED BY <3>2, <3>3
  <2> QED BY <1>3, <1>6, <2>1, <2>2 DEF HandleReady
<1>7. CASE HandleFrameCount(p)
  <2>1. Arrives(p, "FRAMECOUNT") /\ "FRAMECOUNT" \in PacketType /\ Incoming(p).frame \in Nat
    BY <1>2, <1>7 DEF HandleFrameCount, PacketType
  <2>2. Max({endFrameCount[p], Incoming(p).frame}) \in Nat
    BY <1>1, <2>1, MaxNat
  <2>3. \/ RefusePacket(p)
        \/ /\ UNCHANGED <<delay, ditty, ended, fault>>
           /\ endFrameCount' = [endFrameCount EXCEPT ![p] = Max({@, Incoming(p).frame})]
           /\ (state' = state \/ state' = [state EXCEPT ![p] = "endingBattle2"])
    BY <1>7 DEF HandleFrameCount
  <2> QED BY <1>3, <2>1, <2>2, <2>3 DEF MoreType
<1> QED BY <1>4, <1>5, <1>6, <1>7 DEF Receive

LEMMA TypeStep ==
  ASSUME Inv, MoreType, [Next]_vars
  PROVE  MoreType'
<1>1. ASSUME NEW p \in Party, PeerLost(p) \/ Lose(p) PROVE MoreType'
  BY <1>1 DEF PeerLost, Lose, MoreType
<1>2. CASE UNCHANGED vars
  BY <1>2 DEF vars, MoreType
<1> QED BY <1>1, <1>2, TypePlay, TypeReceive DEF Next, Done

-----------------------------------------------------------------------------
(* The invariant. d[p] is the number of meetings p has passed.             *)

Fighting == {"frame", "input", "remote", "stalled", "simulate"}

(* The signals p has given, and those it has heard.                        *)
Says(p, n) == IF ready[p].local THEN n + 1 ELSE n

Hears(p, n) == IF ready[p].remote THEN n + 1 ELSE n

(* Where p is after n meetings.                                            *)
At(p, n) ==
  LET k == 5 * Len(ended[p])
      c == ready[p].callback
  IN
  /\ ~(ready[p].local /\ ready[p].remote)
  /\ \/ /\ n = k /\ state[p] = "inBattle"
        /\ pc[p] \in Fighting \cup {"left"} /\ c \in {"none", "toEnd"}
     \/ /\ n = k + 1 /\ state[p] = "endingBattle"
        /\ pc[p] \in Fighting \cup {"waitReady", "left"} /\ c = "toEnd2"
     \/ /\ n = k + 2 /\ state[p] = "endingBattle2"
        /\ pc[p] \in Fighting \cup {"waitReady", "left"} /\ c = "none"
     \/ /\ n = k - 3 /\ state[p] = "endingBattle2"
        /\ pc[p] \in {"ended", "left"} /\ c \in {"none", "negotiate"}
        /\ ended[p] # <<>> /\ ended[p][Len(ended[p])] = endFrameCount[p]
     \/ /\ n = k - 2 /\ state[p] = "interBattle"
        /\ pc[p] \in {"checkpoint", "left"} /\ c \in {"none", "negotiate"}
     \/ /\ n = k - 1 /\ state[p] = "interBattle"
        /\ pc[p] \in {"fight", "over", "left"} /\ c \in {"none", "negotiate"}

Places(d) == \A p \in Party : At(p, d[p])

Numbers(d) ==
  \A p \in Party :
    Numbered(chan[p], Hears(Peer(p), d[Peer(p)]), Says(p, d[p]), d[p])

(* A machine that is ready to end the battle stays so, and does not run    *)
(* past the frame it knows of.                                             *)
Ending(p) ==
  /\ state[p] \in {"inBattle", "interBattle"} => endFrameCount[p] = 0
  /\ state[p] \in {"endingBattle", "endingBattle2"} => frame[p] <= endFrameCount[p]
  /\ /\ pc[p] \in Fighting \cup {"waitReady"}
     /\ ready[p].callback = "toEnd" \/ state[p] \in {"endingBattle", "endingBattle2"}
     => Dying(p) /\ ditty[p] = 0

(* A FRAMECOUNT on its way names the frame its sender proposed, of which   *)
(* and of the receiver's the later one is the sender's if that knows both. *)
Told(p) ==
  \A i \in 1 .. Len(chan[p]) : chan[p][i].type = "FRAMECOUNT" =>
    \/ state[p] = "endingBattle" /\ chan[p][i].frame = endFrameCount[p]
    \/ /\ state[p] = "endingBattle2" /\ state[Peer(p)] = "endingBattle"
       /\ endFrameCount[p] = Max({chan[p][i].frame, endFrameCount[Peer(p)]})

Agreed ==
  \A p, q \in Party : state[p] = "endingBattle2" /\ state[q] = "endingBattle2"
    => endFrameCount[p] = endFrameCount[q]

Ends == (\A p \in Party : Ending(p) /\ Told(p)) /\ Agreed /\ EndTogether

Meet(d) == Places(d) /\ Numbers(d) /\ Ends

(* Neither machine is more than one meeting ahead, and the one behind has  *)
(* said that it is ready.                                                  *)
LEMMA Close ==
  ASSUME CoreType, NEW d \in [Party -> Nat], Numbers(d), NEW p \in Party
  PROVE  /\ d[p] \in Nat /\ Says(p, d[p]) \in Nat /\ Hears(p, d[p]) \in Nat
         /\ Says(p, d[p]) = IF ready[p].local THEN d[p] + 1 ELSE d[p]
         /\ Hears(p, d[p]) = IF ready[p].remote THEN d[p] + 1 ELSE d[p]
         /\ d[p] <= Says(p, d[p]) /\ d[p] <= Hears(p, d[p])
         /\ Says(p, d[p]) <= d[p] + 1 /\ Hears(p, d[p]) <= d[p] + 1
         /\ Hears(p, d[p]) <= Says(Peer(p), d[Peer(p)])
         /\ Hears(Peer(p), d[Peer(p)]) <= Says(p, d[p])
<1> DEFINE q == Peer(p)
<1>1. q \in Party /\ Peer(q) = p /\ d[p] \in Nat /\ d[q] \in Nat
  BY PeerFacts
<1>2. \A r \in Party : /\ Says(r, d[r]) \in Nat /\ Hears(r, d[r]) \in Nat
                       /\ d[r] <= Says(r, d[r]) /\ d[r] <= Hears(r, d[r])
                       /\ Says(r, d[r]) <= d[r] + 1 /\ Hears(r, d[r]) <= d[r] + 1
  BY DEF Says, Hears
<1>3. /\ Numbered(chan[p], Hears(q, d[q]), Says(p, d[p]), d[p])
      /\ Numbered(chan[q], Hears(p, d[p]), Says(q, d[q]), d[q])
      /\ chan[p] \in Seq(Packet) /\ chan[q] \in Seq(Packet)
  BY <1>1, Types DEF Numbers
<1>4. Hears(q, d[q]) <= Says(p, d[p]) /\ Hears(p, d[p]) <= Says(q, d[q])
  BY <1>1, <1>2, <1>3, NumberedOrder
<1> QED BY <1>1, <1>2, <1>4 DEF Says, Hears

LEMMA EndTypes ==
  ASSUME CoreType, MoreType, NEW p \in Party
  PROVE  /\ frame[p] \in Nat /\ endFrameCount[p] \in Nat /\ ended[p] \in Seq(Nat)
         /\ Len(ended[p]) \in Nat /\ ready[p] \in R!Ready
         /\ ready[p].local \in BOOLEAN /\ ready[p].remote \in BOOLEAN
         /\ state[p] \in {"inBattle", "endingBattle", "endingBattle2", "interBattle"}
         /\ chan[p] \in Seq(Packet)
<1>1. /\ frame[p] \in Nat /\ endFrameCount[p] \in Nat /\ ended[p] \in Seq(Nat)
      /\ ready[p] \in R!Ready /\ chan[p] \in Seq(Packet)
      /\ state[p] \in {"inBattle", "endingBattle", "endingBattle2", "interBattle"}
  BY DEF CoreType, MoreType
<1> QED BY <1>1 DEF R!Ready

LEMMA DyingOn ==
  ASSUME CoreType, MoreType, CoreType', NEW p \in Party,
         Dying(p), ended'[p] = ended[p], frame'[p] >= frame[p]
  PROVE  Dying(p)'
<1> DEFINE S == {x \in DeathFrames : x <= frame[p]}
           T == {x \in DeathFrames : x <= frame'[p]}
<1>1. frame[p] \in Nat /\ frame'[p] \in Nat /\ Len(ended[p]) \in Nat
      /\ DeathFrames \subseteq Nat /\ IsFiniteSet(DeathFrames)
  BY DeathAssumption DEF CoreType, MoreType
<1>2. S \subseteq T /\ T \subseteq DeathFrames
  <2>1. \A x, m, n \in Nat : x <= m /\ n >= m => x <= n
    OBVIOUS
  <2>2. \A x \in DeathFrames : x <= frame[p] => x <= frame'[p]
    BY <1>1, <2>1
  <2> QED BY <2>2
<1>3. IsFiniteSet(T)
  BY <1>1, <1>2, FS_Subset
<1>4. /\ Cardinality(S) <= Cardinality(T)
      /\ Cardinality(S) \in Nat /\ Cardinality(T) \in Nat
  <2>1. S \in SUBSET T
    BY <1>2
  <2> HIDE DEF S, T
  <2>2. IsFiniteSet(S) /\ Cardinality(S) <= Cardinality(T)
    BY <1>3, <2>1, FS_Subset
  <2> QED BY <1>3, <2>2, FS_CardinalityType
<1>5. Cardinality(S) > Len(ended[p])
  BY DEF Dying
<1>6. Cardinality(T) > Len(ended'[p])
  <2> HIDE DEF S, T
  <2> QED BY <1>1, <1>4, <1>5
<1> QED BY <1>6 DEF Dying

-----------------------------------------------------------------------------
(* What the steps of p have in common.                                     *)

(* p acts, and its peer stays where it is.                                 *)
Alone(p) ==
  LET q == Peer(p)
  IN  /\ pc'[q] = pc[q] /\ ready'[q] = ready[q] /\ state'[q] = state[q]
      /\ frame'[q] = frame[q] /\ endFrameCount'[q] = endFrameCount[q]
      /\ ditty'[q] = ditty[q] /\ ended'[q] = ended[q]

LEMMA PeerStays ==
  ASSUME NEW p \in Party, Alone(p)
  PROVE  /\ \A n : At(Peer(p), n) => At(Peer(p), n)'
         /\ Ending(Peer(p)) => Ending(Peer(p))'
         /\ \A n : /\ Says(Peer(p), n)' = Says(Peer(p), n)
                   /\ Hears(Peer(p), n)' = Hears(Peer(p), n)
BY DEF Alone, At, Ending, Dying, Says, Hears

(* No FRAMECOUNT is on its way from r that was not before.                 *)
NoNewCount(r) ==
  \A i \in 1 .. Len(chan'[r]) : chan'[r][i].type = "FRAMECOUNT" =>
    \E j \in 1 .. Len(chan[r]) : chan[r][j] = chan'[r][i]

LEMMA NoNewCounts ==
  ASSUME CoreType, NEW r \in Party
  PROVE  /\ chan'[r] = chan[r] => NoNewCount(r)
         /\ \A x \in Packet : x.type # "FRAMECOUNT" /\ chan'[r] = Append(chan[r], x) => NoNewCount(r)
         /\ chan[r] # <<>> /\ chan'[r] = Tail(chan[r]) => NoNewCount(r)
<1>1. chan[r] \in Seq(Packet)
  BY Types
<1>2. chan'[r] = chan[r] => NoNewCount(r)
  BY DEF NoNewCount
<1>3. ASSUME NEW x \in Packet, x.type # "FRAMECOUNT", chan'[r] = Append(chan[r], x)
      PROVE  NoNewCount(r)
  <2>1. \A i \in 1 .. Len(Append(chan[r], x)) :
          \/ Append(chan[r], x)[i] = x
          \/ i \in 1 .. Len(chan[r]) /\ Append(chan[r], x)[i] = chan[r][i]
    BY <1>1
  <2> QED BY <1>3, <2>1 DEF NoNewCount
<1>4. ASSUME chan[r] # <<>>, chan'[r] = Tail(chan[r]) PROVE NoNewCount(r)
  <2>1. \A i \in 1 .. Len(Tail(chan[r])) :
          i + 1 \in 1 .. Len(chan[r]) /\ Tail(chan[r])[i] = chan[r][i + 1]
    BY <1>1, <1>4
  <2> QED BY <1>4, <2>1 DEF NoNewCount
<1> QED BY <1>2, <1>3, <1>4

(* A step that changes neither the state of the connection nor the frames  *)
(* of the end.                                                             *)
LEMMA KeptStep ==
  ASSUME CoreType, NEW d \in [Party -> Nat], Meet(d), NEW p \in Party, Alone(p),
         UNCHANGED <<state, ended, endFrameCount>>,
         At(p, d[p])', Ending(p)', Numbers(d)', \A r \in Party : NoNewCount(r)
  PROVE  Meet(d)'
<1>1. \A r \in Party : r = p \/ r = Peer(p)
  BY PeerFacts
<1>2. Places(d)'
  BY <1>1, PeerStays, PeerFacts DEF Meet, Places
<1>3. \A r \in Party : Ending(r)'
  BY <1>1, PeerStays, PeerFacts DEF Meet, Ends
<1>4. ASSUME NEW r \in Party PROVE Told(r)'
  <2>1. Told(r) /\ NoNewCount(r)
    BY DEF Meet, Ends
  <2> QED BY <2>1 DEF Told, NoNewCount
<1>5. Agreed' /\ EndTogether'
  BY DEF Meet, Ends, Agreed, EndTogether
<1> QED BY <1>2, <1>3, <1>4, <1>5 DEF Meet, Ends

LEMMA NumbersBy ==
  ASSUME NEW d \in [Party -> Nat], NEW e \in [Party -> Nat], NEW p \in Party,
         e[Peer(p)] = d[Peer(p)], Alone(p),
         Numbered(chan'[p], Hears(Peer(p), d[Peer(p)]), Says(p, e[p])', e[p]),
         Numbered(chan'[Peer(p)], Hears(p, e[p])', Says(Peer(p), d[Peer(p)]), d[Peer(p)])
  PROVE  Numbers(e)'
<1> DEFINE q == Peer(p)
<1>1. q \in Party /\ Peer(q) = p /\ \A r \in Party : r = p \/ r = q
  BY PeerFacts
<1>2. Says(q, e[q])' = Says(q, d[q]) /\ Hears(q, e[q])' = Hears(q, d[q])
  BY PeerStays
<1>3. ASSUME NEW r \in Party
      PROVE  Numbered(chan'[r], Hears(Peer(r), e[Peer(r)])', Says(r, e[r])', e[r])
  <2>1. CASE r = p
    BY <1>2, <2>1
  <2>2. CASE r = q
    BY <1>1, <1>2, <2>2
  <2> QED BY <1>1, <2>1, <2>2
<1> QED BY <1>3 DEF Numbers

(* The packets of the channels, numbered.                                  *)
LEMMA NumbersParts ==
  ASSUME CoreType, NEW d \in [Party -> Nat], Numbers(d), NEW p \in Party
  PROVE  /\ Numbered(chan[p], Hears(Peer(p), d[Peer(p)]), Says(p, d[p]), d[p])
         /\ Numbered(chan[Peer(p)], Hears(p, d[p]), Says(Peer(p), d[Peer(p)]), d[Peer(p)])
         /\ chan[p] \in Seq(Packet) /\ chan[Peer(p)] \in Seq(Packet)
BY PeerFacts, Types DEF Numbers

(* Nothing is said or heard that has a number.                             *)
LEMMA NumbersSame ==
  ASSUME CoreType, NEW d \in [Party -> Nat], Numbers(d), NEW p \in Party, Alone(p),
         ready'[p] = ready[p], chan' = chan
  PROVE  Numbers(d)'
<1>1. Says(p, d[p])' = Says(p, d[p]) /\ Hears(p, d[p])' = Hears(p, d[p])
  BY DEF Says, Hears
<1> QED BY <1>1, NumbersBy, NumbersParts

(* p sends an input or a checksum while it fights.                         *)
LEMMA NumbersFight ==
  ASSUME CoreType, NEW d \in [Party -> Nat], Numbers(d), NEW p \in Party, Alone(p),
         ready'[p] = ready[p], At(p, d[p]), pc[p] \in Fighting, MoreType, ReadyInv(p),
         NEW x \in Packet, ~Signal(x), chan' = [chan EXCEPT ![p] = Append(@, x)]
  PROVE  Numbers(d)'
<1> DEFINE q == Peer(p)
<1>1. Says(p, d[p])' = Says(p, d[p]) /\ Hears(p, d[p])' = Hears(p, d[p])
  BY DEF Says, Hears
<1>2. q \in Party /\ q # p /\ chan'[p] = Append(chan[p], x) /\ chan'[q] = chan[q]
  BY PeerFacts DEF CoreType
<1>3. FightTurn(Says(p, d[p]), d[p])
  <2>1. PICK k \in Nat : k = Len(ended[p])
    BY EndTypes
  <2>2. \/ Says(p, d[p]) = 5 * k /\ Says(p, d[p]) <= d[p]
        \/ Says(p, d[p]) = 5 * k + 1 \/ Says(p, d[p]) = 5 * k + 2
    <3>1. \/ d[p] = 5 * k
          \/ d[p] = 5 * k + 1 /\ ready[p].callback = "toEnd2"
          \/ d[p] = 5 * k + 2 /\ ready[p].callback = "none"
      BY <2>1 DEF At, Fighting
    <3>2. ready[p].local <=> ready[p].callback # "none"
      BY DEF ReadyInv
    <3> QED BY <3>1, <3>2, Close
  <2> QED BY <2>2 DEF FightTurn
<1>4. Counts(x, Says(p, d[p]), Says(p, d[p]), d[p])
  BY <1>3 DEF Counts
<1>5. Numbered(chan'[p], Hears(q, d[q]), Says(p, d[p]), d[p])
  BY <1>2, <1>4, Close, NumbersParts, NumberedAppend, SMTT(30)
<1> QED BY <1>1, <1>2, <1>5, NumbersBy, NumbersParts

(* A signal that arrives is the next one: p has not heard it yet, and its  *)
(* number says whether it is the FRAMECOUNT.                               *)
LEMMA SignalTurn ==
  ASSUME CoreType, NEW d \in [Party -> Nat], Numbers(d), NEW p \in Party, At(p, d[p]),
         NEW t \in {"READY", "FRAMECOUNT"}, Arrives(p, t)
  PROVE  /\ ~ready[p].remote
         /\ t = "FRAMECOUNT" <=> FrameTurn(d[p] + 1)
         /\ d[p] + 1 <= Says(Peer(p), d[Peer(p)])
         /\ Numbered(Tail(chan[Peer(p)]), d[p] + 1, Says(Peer(p), d[Peer(p)]), d[Peer(p)])
<1> DEFINE q == Peer(p)
<1>1. /\ q \in Party /\ Peer(q) = p /\ d[p] \in Nat /\ d[q] \in Nat
      /\ Says(q, d[q]) \in Nat /\ Hears(p, d[p]) \in Nat
      /\ chan[q] # <<>> /\ Head(chan[q]).type = t /\ chan[q] \in Seq(Packet)
  BY PeerFacts, Close, Types DEF Arrives, Incoming
<1>2. PICK n \in Nat : /\ Counts(Head(chan[q]), Hears(p, d[p]), n, d[q]) /\ n <= Says(q, d[q])
                       /\ Numbered(Tail(chan[q]), n, Says(q, d[q]), d[q])
  BY <1>1, NumberedTail, NumbersParts
<1>3. n = Hears(p, d[p]) + 1 /\ (t = "FRAMECOUNT" <=> FrameTurn(n))
  BY <1>1, <1>2 DEF Counts, Signal
<1>4. ~ready[p].remote
  <2>1. SUFFICES ASSUME ready[p].remote PROVE FALSE
    OBVIOUS
  <2>2. ~ready[p].local
    BY <2>1 DEF At
  <2>3. Hears(p, d[p]) = d[p] + 1 /\ Says(p, d[p]) = d[p]
    BY <2>1, <2>2, Close
  <2>4. /\ Hears(q, d[q]) \in Nat /\ d[q] <= Hears(q, d[q]) /\ Says(q, d[q]) <= d[q] + 1
        /\ Hears(q, d[q]) <= Says(p, d[p])
    BY <1>1, Close
  <2> QED BY <1>1, <1>2, <1>3, <2>3, <2>4
<1>5. n = d[p] + 1
  BY <1>3, <1>4, Close
<1> QED BY <1>2, <1>3, <1>4, <1>5

(* An input or a checksum that arrives finds p in the battle: p has heard  *)
(* of the meetings of the interruption before it only those at which the   *)
(* battle goes on, or the last, which it would have passed.                *)
LEMMA FightHeard ==
  ASSUME CoreType, MoreType, NEW d \in [Party -> Nat], Numbers(d), NEW p \in Party,
         At(p, d[p]), NEW t \in {"BATTLEINPUT", "CHECKSUM"}, Arrives(p, t)
  PROVE  /\ BattleActive(p)
         /\ Numbered(Tail(chan[Peer(p)]), Hears(p, d[p]), Says(Peer(p), d[Peer(p)]), d[Peer(p)])
<1> DEFINE q == Peer(p)
<1>1. /\ q \in Party /\ Peer(q) = p /\ d[p] \in Nat /\ d[q] \in Nat
      /\ Says(q, d[q]) \in Nat /\ Hears(p, d[p]) \in Nat
      /\ chan[q] # <<>> /\ Head(chan[q]).type = t /\ chan[q] \in Seq(Packet)
  BY PeerFacts, Close, Types DEF Arrives, Incoming
<1>2. PICK n \in Nat : /\ Counts(Head(chan[q]), Hears(p, d[p]), n, d[q]) /\ n <= Says(q, d[q])
                       /\ Numbered(Tail(chan[q]), n, Says(q, d[q]), d[q])
  BY <1>1, NumberedTail, NumbersParts
<1>3. n = Hears(p, d[p]) /\ FightTurn(n, d[q])
  BY <1>1, <1>2 DEF Counts, Signal
<1>4. state[p] # "interBattle"
  <2>1. SUFFICES ASSUME state[p] = "interBattle" PROVE FALSE
    OBVIOUS
  <2>2. PICK m \in Nat : m = Len(ended[p])
    BY EndTypes
  <2>3. d[p] = 5 * m - 2 \/ d[p] = 5 * m - 1
    BY <2>1, <2>2 DEF At
  <2>4. PICK k \in Nat : (n = 5 * k /\ n <= d[q]) \/ n = 5 * k + 1 \/ n = 5 * k + 2
    BY <1>3 DEF FightTurn
  <2>5. n = d[p] \/ (n = d[p] + 1 /\ ready[p].remote)
    BY <1>3, Close
  <2>6. n = 5 * m /\ n = d[p] + 1 /\ ready[p].remote /\ n <= d[q]
    <3>1. n = 5 * m - 2 \/ n = 5 * m - 1 \/ n = 5 * m
      BY <1>1, <2>3, <2>5
    <3>2. n = 5 * m /\ k = m
      BY <2>4, <3>1
    <3>3. n # 5 * k + 1 /\ n # 5 * k + 2 /\ n # d[p]
      BY <1>1, <2>3, <3>2
    <3> QED BY <2>4, <2>5, <3>2, <3>3
  <2>7. Says(p, d[p]) = d[p]
    BY <2>6, Close DEF At
  <2>8. Hears(q, d[q]) \in Nat /\ d[q] <= Hears(q, d[q]) /\ Hears(q, d[q]) <= Says(p, d[p])
    BY <1>1, Close
  <2> QED BY <1>1, <2>6, <2>7, <2>8
<1>5. BattleActive(p)
  BY <1>4, EndTypes DEF BattleActive
<1> QED BY <1>2, <1>3, <1>5

(* p takes a packet that is no signal.                                     *)
LEMMA NumbersTake ==
  ASSUME CoreType, MoreType, NEW d \in [Party -> Nat], Numbers(d), NEW p \in Party,
         Alone(p), ready'[p] = ready[p], At(p, d[p]),
         NEW t \in {"BATTLEINPUT", "CHECKSUM"}, Arrives(p, t), chan' = Taken(p)
  PROVE  Numbers(d)'
<1> DEFINE q == Peer(p)
<1>1. Says(p, d[p])' = Says(p, d[p]) /\ Hears(p, d[p])' = Hears(p, d[p])
  BY DEF Says, Hears
<1>2. q \in Party /\ q # p /\ chan'[p] = chan[p] /\ chan'[q] = Tail(chan[q])
  BY PeerFacts DEF CoreType, Taken
<1> QED BY <1>1, <1>2, FightHeard, NumbersBy, NumbersParts

(* p says that it is ready.                                                *)
LEMMA NumbersSay ==
  ASSUME CoreType, NEW d \in [Party -> Nat], NEW e \in [Party -> Nat], Numbers(d),
         NEW p \in Party, Alone(p), e[Peer(p)] = d[Peer(p)], d[p] <= e[p],
         NEW ch \in Seq(Packet), Numbered(ch, Hears(Peer(p), d[Peer(p)]), e[p], d[p]),
         NEW x \in Packet, Signal(x), x.type = "FRAMECOUNT" <=> FrameTurn(e[p] + 1),
         chan'[p] = Append(ch, x), Says(p, e[p])' = e[p] + 1,
         Numbered(chan'[Peer(p)], Hears(p, e[p])', Says(Peer(p), d[Peer(p)]), d[Peer(p)])
  PROVE  Numbers(e)'
<1> DEFINE q == Peer(p)
<1>1. q \in Party /\ d[p] \in Nat /\ e[p] \in Nat /\ Hears(q, d[q]) \in Nat
  BY PeerFacts, Close
<1>2. Counts(x, e[p], e[p] + 1, d[p]) /\ e[p] + 1 \in Nat
  BY <1>1 DEF Counts
<1>3. Numbered(chan'[p], Hears(q, d[q]), e[p] + 1, d[p]) /\ chan'[p] \in Seq(Packet)
  BY <1>1, <1>2, NumberedAppend
<1>4. Numbered(chan'[p], Hears(q, d[q]), e[p] + 1, e[p])
  BY <1>1, <1>2, <1>3, NumberedMost
<1> QED BY <1>4, NumbersBy

-----------------------------------------------------------------------------
(* The steps that pass no meeting and say nothing of one.                  *)

LEMMA AtMoves ==
  ASSUME NEW p \in Party, NEW n, At(p, n),
         ready'[p] = ready[p], state'[p] = state[p], ended'[p] = ended[p],
         endFrameCount'[p] = endFrameCount[p],
         \/ pc'[p] = pc[p] \/ pc'[p] = "left"
         \/ pc[p] \in Fighting /\ pc'[p] \in Fighting
         \/ pc[p] = "simulate" /\ pc'[p] = "waitReady" /\ state[p] = "endingBattle"
         \/ pc[p] = "waitReady" /\ pc'[p] = "simulate" /\ state[p] = "endingBattle2"
  PROVE  At(p, n)'
<1>1. pc[p] \in Fighting => pc[p] \notin {"waitReady", "ended", "checkpoint", "fight", "over", "left"}
  BY DEF Fighting
<1>2. "simulate" \in Fighting
  BY DEF Fighting
<1> QED BY <1>1, <1>2 DEF At

LEMMA EndingStays ==
  ASSUME NEW p \in Party, Ending(p),
         ready'[p] = ready[p], state'[p] = state[p], ended'[p] = ended[p],
         endFrameCount'[p] = endFrameCount[p], frame'[p] = frame[p], ditty'[p] = ditty[p],
         pc[p] \in Fighting \cup {"waitReady"} \/ pc'[p] \notin Fighting \cup {"waitReady"}
  PROVE  Ending(p)'
BY DEF Ending, Dying

LEMMA EndingNext ==
  ASSUME CoreType, MoreType, CoreType', NEW p \in Party, Ending(p),
         state'[p] = state[p], ended'[p] = ended[p],
         endFrameCount'[p] = endFrameCount[p], frame'[p] = frame[p] + 1,
         state[p] \in {"endingBattle", "endingBattle2"} => frame[p] < endFrameCount[p],
         ready'[p].callback = "toEnd" \/ state[p] \in {"endingBattle", "endingBattle2"}
           => Dying(p) /\ ditty'[p] = 0
  PROVE  Ending(p)'
<1>1. frame[p] \in Nat /\ endFrameCount[p] \in Nat
  BY EndTypes
<1>2. Dying(p) => Dying(p)'
  BY <1>1, DyingOn
<1>3. state'[p] \in {"endingBattle", "endingBattle2"} => frame'[p] <= endFrameCount'[p]
  BY <1>1
<1> QED BY <1>2, <1>3 DEF Ending

LEMMA KeptSilent ==
  ASSUME Inv, MoreType, NEW d \in [Party -> Nat], Meet(d), NEW p \in Party, Alone(p),
         UNCHANGED <<state, ended, endFrameCount, ready, chan>>,
         At(p, d[p])', Ending(p)'
  PROVE  Meet(d)'
<1>1. CoreType
  BY DEF Inv
<1>2. Numbers(d)'
  BY <1>1, NumbersSame DEF Meet
<1>3. \A r \in Party : NoNewCount(r)
  BY <1>1, NoNewCounts
<1> QED BY <1>1, <1>2, <1>3, KeptStep

LEMMA KeptFight ==
  ASSUME Inv, MoreType, NEW d \in [Party -> Nat], Meet(d), NEW p \in Party, Alone(p),
         UNCHANGED <<state, ended, endFrameCount, ready>>, pc[p] \in Fighting,
         NEW x \in Packet, ~Signal(x), chan' = [chan EXCEPT ![p] = Append(@, x)],
         At(p, d[p])', Ending(p)'
  PROVE  Meet(d)'
<1>1. CoreType /\ ReadyInv(p) /\ At(p, d[p]) /\ x.type # "FRAMECOUNT"
  BY DEF Inv, Meet, Places, Signal
<1>2. Numbers(d)'
  BY <1>1, NumbersFight DEF Meet
<1>3. chan'[p] = Append(chan[p], x) /\ \A r \in Party : r # p => chan'[r] = chan[r]
  BY <1>1 DEF CoreType
<1>4. \A r \in Party : NoNewCount(r)
  BY <1>1, <1>3, NoNewCounts
<1> QED BY <1>1, <1>2, <1>4, KeptStep

LEMMA MeetLeave ==
  ASSUME Inv, MoreType, NEW d \in [Party -> Nat], Meet(d), NEW p \in Party,
         pc' = [pc EXCEPT ![p] = "left"],
         UNCHANGED <<state, ready, frame, endFrameCount, ditty, ended, chan>>
  PROVE  Meet(d)'
<1>1. CoreType /\ At(p, d[p]) /\ Ending(p)
  BY DEF Inv, Meet, Places, Ends
<1>2. Alone(p) /\ pc'[p] = "left"
  BY <1>1, PeerFacts DEF Alone, CoreType
<1>3. At(p, d[p])'
  BY <1>1, <1>2, AtMoves
<1>4. Ending(p)'
  BY <1>1, <1>2, EndingStays DEF Fighting
<1> QED BY <1>2, <1>3, <1>4, KeptSilent

LEMMA MeetSend ==
  ASSUME Inv, MoreType, NEW d \in [Party -> Nat], Meet(d), NEW p \in Party,
         SendChecksum(p) \/ LocalInput(p)
  PROVE  Meet(d)'
<1>1. CoreType /\ At(p, d[p]) /\ Ending(p) /\ frame[p] \in Nat
  BY DEF Inv, Meet, Places, Ends, CoreType
<1>2. /\ UNCHANGED <<state, ready, frame, endFrameCount, ditty, ended>>
      /\ pc[p] \in {"frame", "input"} /\ \E t \in {"input", "remote"} : pc' = [pc EXCEPT ![p] = t]
  BY DEF SendChecksum, LocalInput
<1>3. Alone(p) /\ pc[p] \in Fighting /\ pc'[p] \in Fighting
  BY <1>1, <1>2, PeerFacts DEF Alone, CoreType, Fighting
<1>4. At(p, d[p])' /\ Ending(p)'
  BY <1>1, <1>2, <1>3, AtMoves, EndingStays
<1>5. \/ chan' = chan
      \/ chan' = [chan EXCEPT ![p] = Append(@, Pkt("CHECKSUM", frame[p]))]
      \/ chan' = [chan EXCEPT ![p] = Append(@, Pkt("BATTLEINPUT", frame[p]))]
  <2>1. chan = [chan EXCEPT ![p] = chan[p]]
    BY <1>1 DEF CoreType
  <2> QED BY <2>1 DEF SendChecksum, LocalInput
<1>6. \A t \in {"CHECKSUM", "BATTLEINPUT"} : Pkt(t, frame[p]) \in Packet /\ ~Signal(Pkt(t, frame[p]))
  BY <1>1, PacketFacts DEF Signal, PacketType
<1> QED BY <1>2, <1>3, <1>4, <1>5, <1>6, KeptSilent, KeptFight

LEMMA MeetPlay ==
  ASSUME Inv, Inv', MoreType, NEW d \in [Party -> Nat], Meet(d), NEW p \in Party,
         \/ Stall(p) \/ UseInputs(p) \/ PlayOn(p) \/ ReachEndFrame(p)
         \/ AwaitFrameCount(p) \/ Awaited(p)
  PROVE  Meet(d)'
<1>1. CoreType /\ CoreType' /\ At(p, d[p]) /\ Ending(p) /\ ReadyInv(p)
  BY DEF Inv, Meet, Places, Ends
<1>2. UNCHANGED <<state, ready, endFrameCount, ended, chan>>
  BY DEF Stall, UseInputs, PlayOn, ReachEndFrame, AwaitFrameCount, Awaited
<1>3. CASE Stall(p) \/ UseInputs(p)
  <2>1. /\ UNCHANGED <<frame, ditty>> /\ pc[p] \in {"remote", "stalled"}
        /\ \E t \in {"stalled", "simulate", "left"} : pc' = [pc EXCEPT ![p] = t]
    BY <1>3 DEF Stall, UseInputs
  <2>2. Alone(p) /\ pc[p] \in Fighting /\ pc'[p] \in Fighting \cup {"left"}
    BY <1>1, <1>2, <2>1, PeerFacts DEF Alone, CoreType, Fighting
  <2>3. At(p, d[p])' /\ Ending(p)'
    BY <1>1, <1>2, <2>1, <2>2, AtMoves, EndingStays
  <2> QED BY <1>2, <2>2, <2>3, KeptSilent
<1>4. CASE AwaitFrameCount(p) \/ Awaited(p)
  <2>1. /\ UNCHANGED <<frame, ditty>>
        /\ \/ /\ pc[p] = "simulate" /\ state[p] = "endingBattle"
              /\ pc' = [pc EXCEPT ![p] = "waitReady"]
           \/ /\ pc[p] = "waitReady" /\ state[p] = "endingBattle2"
              /\ pc' = [pc EXCEPT ![p] = "simulate"]
    BY <1>4 DEF AwaitFrameCount, Awaited, WantsEnd
  <2>2. /\ Alone(p)
        /\ \/ pc[p] = "simulate" /\ state[p] = "endingBattle" /\ pc'[p] = "waitReady"
           \/ pc[p] = "waitReady" /\ state[p] = "endingBattle2" /\ pc'[p] = "simulate"
    BY <1>1, <1>2, <2>1, PeerFacts DEF Alone, CoreType
  <2>3. At(p, d[p])'
    BY <1>1, <1>2, <2>2, AtMoves
  <2>4. Ending(p)'
    BY <1>1, <1>2, <2>1, <2>2, EndingStays DEF Fighting
  <2> QED BY <1>2, <2>2, <2>3, <2>4, KeptSilent
<1>5. CASE PlayOn(p) \/ ReachEndFrame(p)
  <2>1. /\ pc[p] = "simulate" /\ pc' = [pc EXCEPT ![p] = "frame"]
        /\ frame' = [frame EXCEPT ![p] = @ + 1]
        /\ ditty' = ditty \/ ditty' = [ditty EXCEPT ![p] = @ - 1]
    BY <1>5 DEF PlayOn, ReachEndFrame, WantsEnd, NextFrame
  <2>2. /\ Alone(p) /\ pc[p] \in Fighting /\ pc'[p] \in Fighting
        /\ frame'[p] = frame[p] + 1
    BY <1>1, <1>2, <2>1, PeerFacts DEF Alone, CoreType, MoreType, Fighting
  <2>3. At(p, d[p])'
    BY <1>1, <1>2, <2>2, AtMoves
  <2>4. ASSUME ready'[p].callback = "toEnd" \/ state[p] \in {"endingBattle", "endingBattle2"}
        PROVE  ReachEndFrame(p) /\ Dying(p) /\ ditty'[p] = 0
    <3>1. Dying(p) /\ ditty[p] = 0
      BY <1>1, <1>2, <2>2, <2>4 DEF Ending
    <3>2. ~PlayOn(p)
      BY <3>1 DEF PlayOn
    <3>3. ReachEndFrame(p) /\ ditty' = ditty
      BY <1>5, <3>2 DEF ReachEndFrame
    <3> QED BY <3>1, <3>3
  <2>5. state[p] \in {"endingBattle", "endingBattle2"} => frame[p] < endFrameCount[p]
    BY <2>4 DEF ReachEndFrame
  <2>6. Ending(p)'
    BY <1>1, <1>2, <2>2, <2>4, <2>5, EndingNext
  <2> QED BY <1>2, <2>2, <2>3, <2>6, KeptSilent
<1> QED BY <1>3, <1>4, <1>5

LEMMA MeetTakeFight ==
  ASSUME Inv, MoreType, NEW d \in [Party -> Nat], Meet(d), NEW p \in Party,
         HandleBattleInput(p) \/ HandleChecksum(p)
  PROVE  Meet(d)' /\ fault' = fault
<1>1. CoreType /\ At(p, d[p]) /\ Ending(p) /\ Numbers(d)
  BY DEF Inv, Meet, Places, Ends
<1>2. PICK t \in {"BATTLEINPUT", "CHECKSUM"} : Arrives(p, t)
  BY DEF HandleBattleInput, HandleChecksum
<1>3. BattleActive(p)
  BY <1>1, <1>2, FightHeard
<1>4. /\ UNCHANGED <<pc, state, ready, frame, endFrameCount, ditty, ended, fault>>
      /\ chan' = Taken(p)
  <2>1. CASE HandleBattleInput(p)
    <3>1. Len(buffer[p].other) < BufferSize
      BY <2>1, InputFits DEF HandleBattleInput
    <3> QED BY <1>3, <2>1, <3>1 DEF HandleBattleInput
  <2>2. CASE HandleChecksum(p)
    BY <1>3, <2>2 DEF HandleChecksum
  <2> QED BY <2>1, <2>2
<1>5. Alone(p) /\ At(p, d[p])' /\ Ending(p)'
  BY <1>1, <1>4 DEF Alone, At, Ending, Dying
<1>6. Numbers(d)'
  BY <1>1, <1>2, <1>4, <1>5, NumbersTake
<1>7. \A r \in Party : NoNewCount(r)
  <2>1. /\ Peer(p) \in Party /\ chan[Peer(p)] # <<>> /\ chan'[p] = chan[p]
        /\ chan'[Peer(p)] = Tail(chan[Peer(p)])
    BY <1>1, <1>2, <1>4, PeerFacts DEF Arrives, Taken, CoreType
  <2>2. \A r \in Party : r = p \/ r = Peer(p)
    BY PeerFacts
  <2> QED BY <1>1, <2>1, <2>2, NoNewCounts
<1> QED BY <1>1, <1>4, <1>5, <1>6, <1>7, KeptStep

LEMMA Appended ==
  ASSUME NEW s \in Seq(Nat), NEW x \in Nat
  PROVE  /\ Len(Append(s, x)) = Len(s) + 1 /\ Append(s, x)[Len(s) + 1] = x
         /\ \A i \in 1 .. Len(s) : Append(s, x)[i] = s[i]
         /\ Append(s, x) # <<>> /\ DOMAIN Append(s, x) = 1 .. Len(s) + 1
<1>1. Append(s, x) \in Seq(Nat) /\ Len(s) \in Nat /\ Len(Append(s, x)) = Len(s) + 1
  OBVIOUS
<1>2. DOMAIN Append(s, x) = 1 .. Len(Append(s, x)) /\ Append(s, x) # <<>>
  BY <1>1
<1>3. Append(s, x)[Len(s) + 1] = x /\ \A i \in 1 .. Len(s) : Append(s, x)[i] = s[i]
  OBVIOUS
<1> QED BY <1>1, <1>2, <1>3

(* The frames at which two machines have interrupted the battle agree up   *)
(* to the one which both have reached.                                     *)
LEMMA MeetEnd ==
  ASSUME Inv, Inv', MoreType, MoreType', NEW d \in [Party -> Nat], Meet(d), NEW p \in Party,
         EndBattle(p)
  PROVE  Meet(d)'
<1> DEFINE q == Peer(p)
<1>1. CoreType /\ CoreType' /\ At(p, d[p]) /\ Ending(p) /\ Numbers(d) /\ Ends /\ At(q, d[q])
  BY PeerFacts DEF Inv, Meet, Places, Ends
<1>2. /\ q \in Party /\ q # p /\ Peer(q) = p /\ d[p] \in Nat /\ d[q] \in Nat
      /\ \A r \in Party : r = p \/ r = q
  BY PeerFacts
<1>3. /\ UNCHANGED <<state, ready, frame, endFrameCount, ditty, chan>>
      /\ pc[p] = "simulate" /\ state[p] = "endingBattle2" /\ frame[p] >= endFrameCount[p]
      /\ pc' = [pc EXCEPT ![p] = "ended"]
      /\ ended' = [ended EXCEPT ![p] = Append(@, frame[p])]
  BY DEF EndBattle, WantsEnd
<1>4. PICK m \in Nat : m = Len(ended[p])
  BY <1>1, EndTypes
<1>5. /\ pc'[p] = "ended" /\ pc'[q] = pc[q] /\ ended'[q] = ended[q]
      /\ ended'[p] = Append(ended[p], frame[p]) /\ Alone(p)
  BY <1>1, <1>2, <1>3 DEF Alone, CoreType, MoreType
<1>6. frame[p] = endFrameCount[p] /\ frame[p] \in Nat
  <2>1. frame[p] <= endFrameCount[p]
    BY <1>1, <1>3 DEF Ending
  <2> QED BY <1>1, <1>3, <2>1, EndTypes
<1>7. /\ ended[p] \in Seq(Nat) /\ Len(ended'[p]) = m + 1 /\ ended'[p][m + 1] = frame[p]
      /\ \A i \in 1 .. m : ended'[p][i] = ended[p][i]
      /\ ended'[p] # <<>> /\ DOMAIN ended'[p] = 1 .. m + 1
  <2>1. ended[p] \in Seq(Nat)
    BY <1>1, EndTypes
  <2> QED BY <1>4, <1>5, <1>6, <2>1, Appended
<1>8. d[p] = 5 * m + 2 /\ ready[p].callback = "none" /\ ~(ready[p].local /\ ready[p].remote)
  BY <1>1, <1>3, <1>4 DEF At
<1>9. At(p, d[p])'
  <2>1. d[p] = 5 * (m + 1) - 3
    BY <1>8
  <2> QED BY <1>3, <1>5, <1>6, <1>7, <1>8, <2>1 DEF At
<1>10. Ending(p)'
  BY <1>1, <1>3, <1>5 DEF Ending, Fighting
<1>11. Numbers(d)'
  BY <1>1, <1>3, <1>5, NumbersSame
<1>12. \A r \in Party : Told(r)'
  BY <1>1, <1>3 DEF Ends, Told
<1>13. Agreed'
  BY <1>1, <1>3 DEF Ends, Agreed
<1>14. ASSUME NEW i \in Nat, i \in DOMAIN ended'[p] \cap DOMAIN ended[q]
       PROVE  ended'[p][i] = ended[q][i]
  <2>1. PICK k \in Nat : k = Len(ended[q]) /\ DOMAIN ended[q] = 1 .. k
    <3>1. ended[q] \in Seq(Nat)
      BY <1>1, <1>2, EndTypes
    <3>2. \A s \in Seq(Nat) : Len(s) \in Nat /\ DOMAIN s = 1 .. Len(s)
      OBVIOUS
    <3> QED BY <3>1, <3>2
  <2>2. CASE i \in 1 .. m
    <3>1. i \in DOMAIN ended[p] \cap DOMAIN ended[q]
      BY <1>4, <1>7, <1>14, <2>2
    <3> QED BY <1>1, <1>2, <1>7, <2>2, <3>1 DEF Ends, EndTogether
  <2>3. CASE i = m + 1
    <3>1. k >= m + 1
      BY <1>14, <2>1, <2>3
    <3>2. d[q] <= d[p]
      <4>1. d[q] <= Hears(q, d[q]) /\ Hears(q, d[q]) <= Says(p, d[p]) /\ Hears(q, d[q]) \in Nat
        BY <1>1, <1>2, Close
      <4>2. ready[p].local <=> ready[p].callback # "none"
        BY DEF Inv, ReadyInv
      <4> QED BY <1>1, <1>2, <1>8, <4>1, <4>2, Close
    <3>3. /\ d[q] >= 5 * k - 3
          /\ d[q] = 5 * k - 3 => /\ state[q] = "endingBattle2"
                                 /\ ended[q][k] = endFrameCount[q]
      <4>1. \/ d[q] = 5 * k \/ d[q] = 5 * k + 1 \/ d[q] = 5 * k + 2
            \/ d[q] = 5 * k - 3 /\ state[q] = "endingBattle2" /\ ended[q][k] = endFrameCount[q]
            \/ d[q] = 5 * k - 2 \/ d[q] = 5 * k - 1
        BY <1>1, <2>1 DEF At
      <4> QED BY <1>2, <4>1
    <3>4. k = m + 1 /\ d[q] = 5 * k - 3
      BY <1>2, <1>8, <3>1, <3>2, <3>3
    <3>5. endFrameCount[q] = endFrameCount[p]
      BY <1>1, <1>2, <1>3, <3>3, <3>4 DEF Ends, Agreed
    <3> QED BY <1>6, <1>7, <2>3, <3>3, <3>4, <3>5
  <2>4. i \in 1 .. m \/ i = m + 1
    BY <1>7, <1>14
  <2> QED BY <2>2, <2>3, <2>4
<1>15. EndTogether'
  <2>1. \A i : i \in DOMAIN ended'[p] => i \in Nat
    BY <1>7
  <2>2. ASSUME NEW r \in Party, NEW s \in Party, NEW i \in DOMAIN ended'[r] \cap DOMAIN ended'[s]
        PROVE  ended'[r][i] = ended'[s][i]
    BY <1>2, <1>5, <1>14, <2>1, <2>2
  <2> QED BY <2>2 DEF EndTogether
<1>16. Places(d)' /\ \A r \in Party : Ending(r)'
  BY <1>1, <1>2, <1>5, <1>9, <1>10, PeerStays DEF Places, Ends
<1> QED BY <1>11, <1>12, <1>13, <1>15, <1>16 DEF Meet, Ends

-----------------------------------------------------------------------------
(* The steps that say or hear of a meeting.                                *)

LEMMA SignalStep ==
  ASSUME CoreType, NEW d \in [Party -> Nat], NEW e \in [Party -> Nat], Meet(d),
         NEW p \in Party, Alone(p), e[Peer(p)] = d[Peer(p)], ended'[p] = ended[p],
         At(p, e[p])', Ending(p)', Numbers(e)', Told(p)', Told(Peer(p))', Agreed'
  PROVE  Meet(e)'
<1>1. \A r \in Party : r = p \/ r = Peer(p)
  BY PeerFacts
<1>2. Places(e)'
  BY <1>1, PeerStays, PeerFacts DEF Meet, Places
<1>3. \A r \in Party : Ending(r)' /\ Told(r)'
  BY <1>1, PeerStays, PeerFacts DEF Meet, Ends
<1>4. \A r \in Party : ended'[r] = ended[r]
  BY <1>1 DEF Alone
<1>5. EndTogether'
  BY <1>4 DEF Meet, Ends, EndTogether
<1> QED BY <1>2, <1>3, <1>5 DEF Meet, Ends

(* p says that it is ready, before its peer does.                          *)
LEMMA MeetSay ==
  ASSUME Inv, MoreType, NEW d \in [Party -> Nat], Meet(d), NEW p \in Party, Alone(p),
         UNCHANGED <<state, ended, endFrameCount>>,
         At(p, d[p])', Ending(p)', ~FrameTurn(d[p] + 1),
         ~ready[p].local, ready'[p].local, ~ready[p].remote, ~ready'[p].remote,
         chan' = [chan EXCEPT ![p] = Append(@, Pkt("READY", 0))]
  PROVE  Meet(d)'
<1> DEFINE q == Peer(p)
           x == Pkt("READY", 0)
<1>1. CoreType /\ Numbers(d) /\ x \in Packet /\ x.type = "READY" /\ Signal(x)
  BY PacketFacts DEF Inv, Meet, PacketType, Signal
<1>2. /\ q \in Party /\ q # p /\ chan'[p] = Append(chan[p], x) /\ chan'[q] = chan[q]
      /\ \A r \in Party : r = p \/ r = q
  BY <1>1, PeerFacts DEF CoreType
<1>3. Says(p, d[p]) = d[p] /\ Says(p, d[p])' = d[p] + 1 /\ Hears(p, d[p])' = Hears(p, d[p])
  BY DEF Says, Hears
<1>4. Numbers(d)'
  <2>1. Numbered(chan[p], Hears(q, d[q]), d[p], d[p]) /\ chan[p] \in Seq(Packet)
        /\ Numbered(chan'[q], Hears(p, d[p])', Says(q, d[q]), d[q])
    BY <1>1, <1>2, <1>3, NumbersParts
  <2>2. d[p] <= d[p]
    OBVIOUS
  <2> QED BY <1>1, <1>2, <1>3, <2>1, <2>2, NumbersSay
<1>5. \A r \in Party : NoNewCount(r)
  BY <1>1, <1>2, NoNewCounts
<1> QED BY <1>1, <1>4, <1>5, KeptStep

(* p hears that its peer is ready, before it is so itself.                 *)
LEMMA MeetHear ==
  ASSUME Inv, MoreType, NEW d \in [Party -> Nat], Meet(d), NEW p \in Party,
         Arrives(p, "READY"), TakeReady(p), ~R!MetByRemote(ready[p])
  PROVE  Meet(d)'
<1> DEFINE q == Peer(p)
<1>1. CoreType /\ Numbers(d) /\ At(p, d[p]) /\ Ending(p) /\ ready[p] \in R!Ready
  BY DEF Inv, CoreType, Meet, Places, Ends
<1>2. /\ UNCHANGED <<pc, state, frame, endFrameCount, ditty, ended>>
      /\ chan' = Taken(p) /\ ready' = [ready EXCEPT ![p] = R!AfterRemote(ready[p])]
  BY DEF TakeReady
<1>3. /\ ready'[p] = [ready[p] EXCEPT !.remote = TRUE] /\ ~ready[p].local
      /\ q \in Party /\ q # p /\ ready'[q] = ready[q] /\ \A r \in Party : r = p \/ r = q
  BY <1>1, <1>2, PeerFacts DEF R!AfterRemote, R!MetByRemote, CoreType
<1>4. /\ ready'[p].remote /\ ~ready'[p].local /\ ready'[p].callback = ready[p].callback
  BY <1>1, <1>3 DEF R!Ready
<1>5. Alone(p) /\ At(p, d[p])' /\ Ending(p)'
  BY <1>1, <1>2, <1>3, <1>4 DEF Alone, At, Ending, Dying
<1>6. /\ chan'[p] = chan[p] /\ chan'[q] = Tail(chan[q]) /\ chan[q] # <<>>
  BY <1>1, <1>2, <1>3 DEF Taken, CoreType, Arrives
<1>7. Says(p, d[p])' = Says(p, d[p]) /\ Hears(p, d[p])' = d[p] + 1
  BY <1>3, <1>4 DEF Says, Hears
<1>8. Numbers(d)'
  BY <1>1, <1>5, <1>6, <1>7, SignalTurn, NumbersParts, NumbersBy
<1>9. \A r \in Party : NoNewCount(r)
  BY <1>1, <1>3, <1>6, NoNewCounts
<1> QED BY <1>1, <1>2, <1>5, <1>8, <1>9, KeptStep

(* The number of meetings says where p is.                                 *)
LEMMA Turns ==
  ASSUME CoreType, MoreType, NEW d \in [Party -> Nat], NEW p \in Party, At(p, d[p])
  PROVE  /\ FrameTurn(d[p] + 1) <=> state[p] = "endingBattle"
         /\ FrameTurn(d[p] + 2) <=> state[p] = "inBattle"
         /\ FrameTurn(d[p]) <=> state[p] = "endingBattle2"
<1>1. PICK m \in Nat : m = Len(ended[p])
  BY EndTypes
<1>2. \/ d[p] = 5 * m /\ state[p] = "inBattle"
      \/ d[p] = 5 * m + 1 /\ state[p] = "endingBattle"
      \/ d[p] = 5 * m + 2 /\ state[p] = "endingBattle2"
      \/ d[p] = 5 * m - 3 /\ state[p] = "endingBattle2"
      \/ d[p] = 5 * m - 2 /\ state[p] = "interBattle"
      \/ d[p] = 5 * m - 1 /\ state[p] = "interBattle"
  BY <1>1 DEF At
<1>3. d[p] \in Nat
  OBVIOUS
<1>4. CASE d[p] = 5 * m /\ state[p] = "inBattle"
  <2>1. d[p] + 2 = 5 * m + 2 /\ \A k \in Nat : d[p] + 1 # 5 * k + 2 /\ d[p] # 5 * k + 2
    BY <1>4
  <2> QED BY <1>4, <2>1 DEF FrameTurn
<1>5. CASE d[p] = 5 * m + 1 /\ state[p] = "endingBattle"
  <2>1. d[p] + 1 = 5 * m + 2 /\ \A k \in Nat : d[p] + 2 # 5 * k + 2 /\ d[p] # 5 * k + 2
    BY <1>5
  <2> QED BY <1>5, <2>1 DEF FrameTurn
<1>6. CASE (d[p] = 5 * m + 2 \/ d[p] = 5 * m - 3) /\ state[p] = "endingBattle2"
  <2>1. /\ d[p] = 5 * m + 2 \/ (m - 1 \in Nat /\ d[p] = 5 * (m - 1) + 2)
        /\ \A k \in Nat : d[p] + 2 # 5 * k + 2 /\ d[p] + 1 # 5 * k + 2
    BY <1>3, <1>6
  <2> QED BY <1>6, <2>1 DEF FrameTurn
<1>7. CASE (d[p] = 5 * m - 2 \/ d[p] = 5 * m - 1) /\ state[p] = "interBattle"
  <2>1. \A k \in Nat : d[p] # 5 * k + 2 /\ d[p] + 1 # 5 * k + 2 /\ d[p] + 2 # 5 * k + 2
    BY <1>7
  <2> QED BY <1>7, <2>1 DEF FrameTurn
<1> QED BY <1>2, <1>4, <1>5, <1>6, <1>7

LEMMA MaxSame ==
  ASSUME NEW a, NEW b
  PROVE  Max({a, b}) = Max({b, a})
<1>1. {a, b} = {b, a}
  OBVIOUS
<1> QED BY <1>1

(* The frame the peer proposes is noted, and the later one counts.         *)
LEMMA MeetFrameCount ==
  ASSUME Inv, MoreType, NEW d \in [Party -> Nat], Meet(d), NEW p \in Party,
         HandleFrameCount(p)
  PROVE  (\E e \in [Party -> Nat] : Meet(e)') /\ fault' = fault
<1> DEFINE q == Peer(p)
           e == [d EXCEPT ![p] = @ + 1]
           n == Incoming(p).frame
<1>1. /\ CoreType /\ Numbers(d) /\ At(p, d[p]) /\ Ending(p) /\ Ends /\ ready[p] \in R!Ready
      /\ Arrives(p, "FRAMECOUNT") /\ q \in Party /\ At(q, d[q])
  BY PeerFacts DEF Inv, CoreType, Meet, Places, Ends, HandleFrameCount
<1>2. /\ ~ready[p].remote /\ FrameTurn(d[p] + 1) /\ d[p] + 1 <= Says(q, d[q])
      /\ Numbered(Tail(chan[q]), d[p] + 1, Says(q, d[q]), d[q])
  BY <1>1, SignalTurn
<1>3. state[p] = "endingBattle"
  BY <1>1, <1>2, Turns
<1>4. /\ endFrameCount' = [endFrameCount EXCEPT ![p] = Max({@, n})]
      /\ ready' = [ready EXCEPT ![p] = R!AfterRemote(ready[p])]
      /\ state' = IF R!MetByRemote(ready[p]) THEN [state EXCEPT ![p] = "endingBattle2"] ELSE state
      /\ chan' = Taken(p)
      /\ UNCHANGED <<pc, frame, ditty, ended, fault>>
  BY <1>3 DEF HandleFrameCount
<1>5. ready[p].local /\ ready[p].callback = "toEnd2"
  <2>1. ready[p].callback = "toEnd2"
    BY <1>1, <1>3 DEF At
  <2> QED BY <2>1 DEF Inv, ReadyInv
<1>6. /\ ~ready'[p].local /\ ~ready'[p].remote /\ ready'[p].callback = "none"
      /\ state'[p] = "endingBattle2" /\ endFrameCount'[p] = Max({endFrameCount[p], n})
  <2>1. ready'[p] = R!AfterRemote(ready[p])
    BY <1>1, <1>4 DEF CoreType
  <2>2. ready'[p] = [ready[p] EXCEPT !.local = FALSE, !.callback = "none"]
    BY <1>5, <2>1 DEF R!AfterRemote, R!MetByRemote
  <2>3. ~ready'[p].local /\ ~ready'[p].remote /\ ready'[p].callback = "none"
    BY <1>1, <1>2, <2>2 DEF R!Ready
  <2>4. state'[p] = "endingBattle2"
    BY <1>4, <1>5 DEF MoreType, R!MetByRemote
  <2>5. endFrameCount'[p] = Max({endFrameCount[p], n})
    BY <1>4 DEF MoreType
  <2> QED BY <2>3, <2>4, <2>5
<1>7. /\ q # p /\ Peer(q) = p /\ \A r \in Party : r = p \/ r = q
  BY PeerFacts
<1>8. Alone(p)
  BY <1>1, <1>4, <1>5, <1>7 DEF Alone, CoreType, MoreType, R!MetByRemote
<1>9. /\ chan'[p] = chan[p] /\ chan'[q] = Tail(chan[q]) /\ chan[q] # <<>>
      /\ chan[p] \in Seq(Packet) /\ chan[q] \in Seq(Packet)
      /\ Head(chan[q]).type = "FRAMECOUNT" /\ Head(chan[q]).frame = n
      /\ 1 \in 1 .. Len(chan[q]) /\ Head(chan[q]) = chan[q][1]
      /\ Tail(chan[q]) \in Seq(Packet) /\ Len(Tail(chan[q])) \in Nat
  <2>1. chan[p] \in Seq(Packet) /\ chan[q] \in Seq(Packet) /\ chan[q] # <<>>
        /\ Head(chan[q]).type = "FRAMECOUNT" /\ Head(chan[q]).frame = n
    BY <1>1, Types DEF Arrives, Incoming
  <2>2. chan'[p] = chan[p] /\ chan'[q] = Tail(chan[q])
    BY <1>1, <1>4, <1>7 DEF Taken, CoreType
  <2> QED BY <2>1, <2>2
<1>10. /\ e \in [Party -> Nat] /\ e[p] = d[p] + 1 /\ e[q] = d[q] /\ d[p] \in Nat /\ d[q] \in Nat
  BY <1>1, <1>7
<1>11. At(p, e[p])' /\ Ending(p)'
  <2>1. pc[p] \in Fighting \cup {"waitReady", "left"} /\ d[p] = 5 * Len(ended[p]) + 1
    BY <1>1, <1>3 DEF At
  <2>2. /\ frame[p] <= Max({endFrameCount[p], n})
    <3>1. frame[p] <= endFrameCount[p] /\ n \in Nat /\ endFrameCount[p] \in Nat /\ frame[p] \in Nat
      BY <1>1, <1>3, IncomingType, EndTypes DEF Ending
    <3>2. Max({endFrameCount[p], n}) >= endFrameCount[p] /\ Max({endFrameCount[p], n}) \in Nat
      BY <3>1, MaxNat
    <3> QED BY <3>1, <3>2
  <2>3. e[p] = 5 * Len(ended[p]) + 2
    BY <1>1, <1>10, <2>1, EndTypes
  <2> QED BY <1>1, <1>3, <1>4, <1>6, <2>1, <2>2, <2>3 DEF At, Ending, Dying
<1>12. Says(p, d[p]) = d[p] + 1 /\ Says(p, e[p])' = e[p] /\ Hears(p, e[p])' = e[p]
  BY <1>5, <1>6 DEF Says, Hears
<1>13. Numbers(e)'
  <2>1. Numbered(chan[p], Hears(q, d[q]), d[p] + 1, d[p]) /\ Hears(q, d[q]) \in Nat
    BY <1>1, <1>12, NumbersParts, Close
  <2>2. Numbered(chan[p], Hears(q, d[q]), d[p] + 1, e[p])
    BY <1>9, <1>10, <2>1, NumberedMost
  <2> QED BY <1>2, <1>8, <1>9, <1>10, <1>12, <2>2, NumbersBy
(* Where the peer is.                                                      *)
<1>14. /\ d[q] <= d[p] + 1 /\ d[p] <= d[q] /\ Hears(q, d[q]) \in Nat /\ Says(q, d[q]) \in Nat
       /\ Says(q, d[q]) <= d[q] + 1 /\ d[q] <= Hears(q, d[q]) /\ Hears(q, d[q]) <= d[p] + 1
  BY <1>1, <1>2, <1>7, <1>10, <1>12, Close
<1>15. state[q] \in {"endingBattle", "endingBattle2"}
  <2>1. d[q] = d[p] \/ d[q] = d[p] + 1
    BY <1>10, <1>14
  <2>2. FrameTurn(d[q] + 1) \/ FrameTurn(d[q])
    BY <1>2, <2>1
  <2> QED BY <1>1, <2>2, Turns
<1>16. Told(p) /\ Told(q)
  BY <1>1 DEF Ends
<1>17. Told(q)'
  <2>1. SUFFICES ASSUME NEW i \in 1 .. Len(Tail(chan[q])), Tail(chan[q])[i].type = "FRAMECOUNT"
                 PROVE  FALSE
    BY <1>9 DEF Told
  <2>2. PICK k \in Nat : d[p] + 1 < k /\ k <= Says(q, d[q]) /\ FrameTurn(k)
    BY <1>2, <1>9, <1>10, <1>14, <2>1, NumberedFrame
  <2>3. k = d[p] + 2
    BY <1>10, <1>14, <2>2
  <2> QED BY <1>1, <1>3, <2>2, <2>3, Turns
<1>18. Told(p)'
  <2>1. SUFFICES ASSUME NEW i \in 1 .. Len(chan[p]), chan[p][i].type = "FRAMECOUNT"
                 PROVE  /\ state'[p] = "endingBattle2" /\ state'[q] = "endingBattle"
                        /\ endFrameCount'[p] = Max({chan[p][i].frame, endFrameCount'[q]})
    BY <1>9 DEF Told
  <2>2. chan[p][i].frame = endFrameCount[p]
    BY <1>3, <1>16, <2>1 DEF Told
  <2>3. Numbered(chan[p], Hears(q, d[q]), d[p] + 1, d[p])
    BY <1>1, <1>12, NumbersParts
  <2>4. PICK k \in Nat : Hears(q, d[q]) < k /\ k <= d[p] + 1 /\ FrameTurn(k)
    BY <1>9, <1>10, <1>14, <2>1, <2>3, NumberedFrame
  <2>5. d[q] = d[p]
    BY <1>10, <1>14, <2>4
  <2>6. state[q] = "endingBattle"
    BY <1>1, <1>2, <2>5, Turns
  <2>7. n = endFrameCount[q]
    BY <1>9, <1>16, <2>6 DEF Told
  <2>8. state'[q] = state[q] /\ endFrameCount'[q] = endFrameCount[q]
    BY <1>8 DEF Alone
  <2> QED BY <1>6, <2>2, <2>6, <2>7, <2>8
<1>19. Agreed'
  <2>1. state'[q] = state[q] /\ endFrameCount'[q] = endFrameCount[q]
    BY <1>8 DEF Alone
  <2>2. state[q] = "endingBattle2" => endFrameCount[q] = Max({n, endFrameCount[p]})
    BY <1>7, <1>9, <1>16 DEF Told
  <2>3. Max({n, endFrameCount[p]}) = Max({endFrameCount[p], n})
    BY MaxSame
  <2> QED BY <1>6, <1>7, <2>1, <2>2, <2>3 DEF Agreed
<1>20. Meet(e)'
  BY <1>1, <1>4, <1>8, <1>10, <1>11, <1>13, <1>17, <1>18, <1>19, SignalStep
<1> QED BY <1>4, <1>10, <1>20

(* Both are ready to end the battle: p proposes a frame. ch is what p had  *)
(* sent before it does.                                                    *)
LEMMA MeetToEnd ==
  ASSUME Inv, MoreType, MoreType', NEW d \in [Party -> Nat], Meet(d), NEW p \in Party, Alone(p),
         state[p] = "inBattle", state'[p] = "endingBattle", ended'[p] = ended[p],
         ready'[p].local, ~ready'[p].remote, ready'[p].callback = "toEnd2",
         pc'[p] \in Fighting, Dying(p)', ditty'[p] = 0,
         endFrameCount'[p] = frame[p] + 1, frame'[p] <= frame[p] + 1,
         NEW ch \in Seq(Packet),
         \A i \in 1 .. Len(ch) : ch[i].type = "FRAMECOUNT" =>
           \E j \in 1 .. Len(chan[p]) : chan[p][j] = ch[i],
         Numbered(ch, Hears(Peer(p), d[Peer(p)]), d[p] + 1, d[p]),
         chan'[p] = Append(ch, Pkt("FRAMECOUNT", frame[p] + 1)),
         Numbered(chan'[Peer(p)], d[p] + 1, Says(Peer(p), d[Peer(p)]), d[Peer(p)]),
         NoNewCount(Peer(p))
  PROVE  \E e \in [Party -> Nat] : Meet(e)'
<1> DEFINE q == Peer(p)
           e == [d EXCEPT ![p] = @ + 1]
           x == Pkt("FRAMECOUNT", frame[p] + 1)
<1>1. /\ CoreType /\ Numbers(d) /\ At(p, d[p]) /\ Ends /\ q \in Party /\ q # p /\ Peer(q) = p
      /\ frame[p] \in Nat /\ Told(p) /\ Told(q)
  BY PeerFacts DEF Inv, CoreType, Meet, Places, Ends
<1>2. /\ e \in [Party -> Nat] /\ e[p] = d[p] + 1 /\ e[q] = d[q] /\ d[p] \in Nat /\ d[p] <= e[p]
      /\ e[p] + 1 = d[p] + 2
  BY <1>1
<1>3. x \in Packet /\ Signal(x) /\ x.type = "FRAMECOUNT" /\ x.frame = frame[p] + 1
  BY <1>1, PacketFacts DEF PacketType, Signal
<1>4. FrameTurn(e[p] + 1)
  BY <1>1, <1>2, Turns
<1>5. Says(p, e[p])' = e[p] + 1 /\ Hears(p, e[p])' = e[p]
  BY DEF Says, Hears
<1>6. Numbers(e)'
  <2>1. /\ Numbered(ch, Hears(q, d[q]), e[p], d[p]) /\ chan'[p] = Append(ch, x)
        /\ Numbered(chan'[q], Hears(p, e[p])', Says(q, d[q]), d[q])
    BY <1>2, <1>5
  <2> HIDE DEF e, x
  <2> QED BY <1>1, <1>2, <1>3, <1>4, <1>5, <2>1, NumbersSay
<1>7. At(p, e[p])' /\ Ending(p)'
  <2>1. d[p] = 5 * Len(ended[p])
    BY <1>1 DEF At
  <2> QED BY <1>2, <2>1 DEF At, Ending
<1>8. \A i \in 1 .. Len(ch) : ch[i].type # "FRAMECOUNT"
  BY <1>1 DEF Told
<1>9. Told(p)'
  <2>1. \A i \in 1 .. Len(Append(ch, x)) :
          Append(ch, x)[i] = x \/ (i \in 1 .. Len(ch) /\ Append(ch, x)[i] = ch[i])
    OBVIOUS
  <2> QED BY <1>3, <1>8, <2>1 DEF Told
<1>10. Told(q)'
  <2>1. SUFFICES ASSUME NEW i \in 1 .. Len(chan'[q]), chan'[q][i].type = "FRAMECOUNT"
                 PROVE  /\ state'[q] = "endingBattle"
                        /\ chan'[q][i].frame = endFrameCount'[q]
    BY DEF Told
  <2>2. PICK j \in 1 .. Len(chan[q]) : chan[q][j] = chan'[q][i]
    BY <2>1 DEF NoNewCount
  <2>3. state[q] = "endingBattle" /\ chan[q][j].frame = endFrameCount[q]
    BY <1>1, <2>1, <2>2 DEF Told
  <2> QED BY <2>2, <2>3 DEF Alone
<1>11. Agreed'
  <2>1. \A r \in Party : r = p \/ r = q
    BY PeerFacts
  <2> QED BY <2>1 DEF Agreed
<1>12. Meet(e)'
  BY <1>1, <1>2, <1>6, <1>7, <1>9, <1>10, <1>11, SignalStep
<1> QED BY <1>2, <1>12

(* Both are ready at the end of the frame, at the checkpoint, or to fight. *)
LEMMA MeetMet ==
  ASSUME Inv, MoreType, NEW d \in [Party -> Nat], Meet(d), NEW p \in Party, Alone(p),
         pc[p] \in Meeting, Met(p), ended'[p] = ended[p],
         ~ready'[p].local, ~ready'[p].remote, ready'[p].callback = "none",
         Numbered(chan'[p], Hears(Peer(p), d[Peer(p)]), d[p] + 1, d[p]),
         chan'[p] \in Seq(Packet), chan'[Peer(p)] \in Seq(Packet),
         Numbered(chan'[Peer(p)], d[p] + 1, Says(Peer(p), d[Peer(p)]), d[Peer(p)]),
         NoNewCount(p), NoNewCount(Peer(p))
  PROVE  \E e \in [Party -> Nat] : Meet(e)'
<1> DEFINE q == Peer(p)
           e == [d EXCEPT ![p] = @ + 1]
<1>1. /\ CoreType /\ Numbers(d) /\ At(p, d[p]) /\ Ends /\ q \in Party /\ q # p /\ Peer(q) = p
      /\ Told(p) /\ Told(q) /\ Ending(p) /\ At(q, d[q])
  BY PeerFacts DEF Inv, Meet, Places, Ends
<1>2. /\ e \in [Party -> Nat] /\ e[p] = d[p] + 1 /\ e[q] = d[q] /\ d[p] \in Nat /\ d[q] \in Nat
      /\ d[p] <= e[p]
  BY <1>1
<1>3. PICK m \in Nat : m = Len(ended[p])
  BY <1>1, EndTypes
<1>4. /\ pc[p] = "ended" => /\ d[p] = 5 * m - 3 /\ state[p] = "endingBattle2"
                            /\ state'[p] = "interBattle" /\ pc'[p] = "checkpoint"
                            /\ endFrameCount'[p] = 0
      /\ pc[p] = "checkpoint" => /\ d[p] = 5 * m - 2 /\ state[p] = "interBattle"
                                 /\ state'[p] = "interBattle" /\ pc'[p] \in {"over", "fight"}
                                 /\ endFrameCount'[p] = endFrameCount[p]
      /\ pc[p] = "fight" => /\ d[p] = 5 * m - 1 /\ state[p] = "interBattle"
                            /\ state'[p] = "inBattle" /\ pc'[p] = "frame"
                            /\ endFrameCount'[p] = endFrameCount[p]
  <2>1. pc[p] \notin Fighting \cup {"waitReady", "left"}
    BY DEF Meeting, Fighting
  <2>2. /\ pc[p] = "ended" => d[p] = 5 * m - 3 /\ state[p] = "endingBattle2"
        /\ pc[p] = "checkpoint" => d[p] = 5 * m - 2 /\ state[p] = "interBattle"
        /\ pc[p] = "fight" => d[p] = 5 * m - 1 /\ state[p] = "interBattle"
    BY <1>1, <1>3, <2>1 DEF At
  <2>3. CASE pc[p] = "ended"
    <3>1. /\ state' = [state EXCEPT ![p] = "interBattle"]
          /\ pc' = [pc EXCEPT ![p] = "checkpoint"]
          /\ endFrameCount' = [endFrameCount EXCEPT ![p] = 0]
      BY <2>3, MetParts
    <3>2. state'[p] = "interBattle" /\ pc'[p] = "checkpoint" /\ endFrameCount'[p] = 0
      BY <1>1, <3>1 DEF CoreType, MoreType
    <3> QED BY <2>2, <2>3, <3>2
  <2>4. CASE pc[p] = "checkpoint"
    <3>1. /\ state' = [state EXCEPT ![p] = "interBattle"]
          /\ \E t \in {"over", "fight"} : pc' = [pc EXCEPT ![p] = t]
          /\ endFrameCount' = endFrameCount
      BY <2>4, MetParts
    <3>2. state'[p] = "interBattle" /\ pc'[p] \in {"over", "fight"}
      BY <1>1, <3>1 DEF CoreType, MoreType
    <3> QED BY <2>2, <2>4, <3>1, <3>2
  <2>5. CASE pc[p] = "fight"
    BY <1>1, <2>2, <2>5, MetParts, SMTT(30) DEF CoreType, MoreType
  <2> QED BY <2>3, <2>4, <2>5 DEF Meeting
<1>5. At(p, e[p])'
  <2>1. \/ e[p] = 5 * m - 2 /\ state'[p] = "interBattle" /\ pc'[p] = "checkpoint"
        \/ e[p] = 5 * m - 1 /\ state'[p] = "interBattle" /\ pc'[p] \in {"over", "fight"}
        \/ e[p] = 5 * m /\ state'[p] = "inBattle" /\ pc'[p] = "frame"
    BY <1>2, <1>4 DEF Meeting
  <2> QED BY <1>3, <2>1 DEF At, Fighting
<1>6. Ending(p)'
  <2>1. endFrameCount'[p] = 0 /\ state'[p] \in {"inBattle", "interBattle"}
    BY <1>1, <1>4 DEF Meeting, Ending
  <2> QED BY <2>1 DEF Ending
<1>7. Says(p, e[p])' = d[p] + 1 /\ Hears(p, e[p])' = d[p] + 1
  BY <1>2 DEF Says, Hears
<1>8. /\ Says(q, d[q]) \in Nat /\ Hears(q, d[q]) \in Nat /\ d[q] <= Hears(q, d[q])
      /\ Says(q, d[q]) <= d[q] + 1
  BY <1>1, Close
<1>9. Numbers(e)'
  <2>1. Numbered(chan'[p], Hears(q, d[q]), d[p] + 1, e[p])
    BY <1>2, <1>8, NumberedMost
  <2> QED BY <1>2, <1>7, <2>1, NumbersBy
<1>10. d[p] + 1 <= Says(q, d[q]) /\ Hears(q, d[q]) <= d[p] + 1
  BY <1>2, <1>8, NumberedOrder
<1>11. d[p] <= d[q] /\ d[q] <= d[p] + 1
  BY <1>2, <1>8, <1>10
<1>12. Told(p)'
  <2>1. SUFFICES ASSUME NEW i \in 1 .. Len(chan'[p]), chan'[p][i].type = "FRAMECOUNT"
                 PROVE  FALSE
    BY DEF Told
  <2>2. PICK j \in 1 .. Len(chan[p]) : chan[p][j] = chan'[p][i]
    BY <2>1 DEF NoNewCount
  <2>3. pc[p] = "ended" /\ state[q] = "endingBattle"
    BY <1>1, <1>4, <2>1, <2>2 DEF Told, Meeting
  <2>4. PICK k \in Nat : d[q] + 1 = 5 * k + 2
    BY <1>1, <2>3, Turns DEF FrameTurn
  <2> QED BY <1>2, <1>4, <1>11, <2>3, <2>4
<1>13. Told(q)'
  <2>1. SUFFICES ASSUME NEW i \in 1 .. Len(chan'[q]), chan'[q][i].type = "FRAMECOUNT"
                 PROVE  /\ state'[q] = "endingBattle"
                        /\ chan'[q][i].frame = endFrameCount'[q]
    BY DEF Told
  <2>2. PICK j \in 1 .. Len(chan[q]) : chan[q][j] = chan'[q][i]
    BY <2>1 DEF NoNewCount
  <2>3. state[p] # "endingBattle"
    BY <1>4 DEF Meeting
  <2>4. state[q] = "endingBattle" /\ chan[q][j].frame = endFrameCount[q]
    BY <1>1, <2>1, <2>2, <2>3 DEF Told
  <2> QED BY <2>2, <2>4 DEF Alone
<1>14. Agreed'
  <2>1. state'[p] # "endingBattle2" /\ \A r \in Party : r = p \/ r = q
    BY <1>4, PeerFacts DEF Meeting
  <2> QED BY <2>1 DEF Agreed
<1>15. Meet(e)'
  BY <1>1, <1>2, <1>5, <1>6, <1>9, <1>12, <1>13, <1>14, SignalStep
<1> QED BY <1>2, <1>15

LEMMA AppendOne ==
  ASSUME NEW s \in Seq(Packet), NEW x \in Packet
  PROVE  s \o <<x>> = Append(s, x) /\ s \o <<>> = s /\ Append(s, x) \in Seq(Packet)
<1>1. s \o <<x>> \in Seq(Packet) /\ Append(s, x) \in Seq(Packet) /\ s \o <<>> \in Seq(Packet)
  OBVIOUS
<1>2. /\ Len(s \o <<x>>) = Len(s) + 1 /\ Len(Append(s, x)) = Len(s) + 1
      /\ \A i \in 1 .. Len(s) + 1 : (s \o <<x>>)[i] = Append(s, x)[i]
  OBVIOUS
<1>3. Len(s \o <<>>) = Len(s) /\ \A i \in 1 .. Len(s) : (s \o <<>>)[i] = s[i]
  OBVIOUS
<1> QED BY <1>1, <1>2, <1>3

(* The frame p proposes is the later one, as it knows of no other yet.     *)
LEMMA FirstProposal ==
  ASSUME CoreType, MoreType, NEW p \in Party, Ending(p), state[p] = "inBattle"
  PROVE  Max({endFrameCount[p], EndFrame(p)}) = frame[p] + 1
<1>1. endFrameCount[p] = 0 /\ frame[p] \in Nat /\ EndFrame(p) = frame[p] + 1
  BY EndTypes DEF Ending, EndFrame
<1>2. 0 \in Nat /\ frame[p] + 1 \in Nat /\ ~(0 >= frame[p] + 1)
  BY <1>1
<1>3. Max({0, frame[p] + 1}) = IF 0 >= frame[p] + 1 THEN 0 ELSE frame[p] + 1
  BY <1>2, MaxNat
<1> QED BY <1>1, <1>2, <1>3

LEMMA MeetSignalEnd ==
  ASSUME Inv, Inv', MoreType, MoreType', NEW d \in [Party -> Nat], Meet(d), NEW p \in Party,
         SignalEnd(p)
  PROVE  \E e \in [Party -> Nat] : Meet(e)'
<1> DEFINE q == Peer(p)
           x == Pkt("READY", 0)
           y == Pkt("FRAMECOUNT", frame[p] + 1)
           r == R!AfterLocal(ready[p], "toEnd")
<1>1. /\ CoreType /\ CoreType' /\ Numbers(d) /\ At(p, d[p]) /\ Ending(p) /\ ready[p] \in R!Ready
      /\ q \in Party /\ q # p /\ ReadyInv(p) /\ d[p] \in Nat /\ frame[p] \in Nat
  BY PeerFacts DEF Inv, CoreType, Meet, Places, Ends
<1>2. /\ pc[p] = "simulate" /\ Dying(p) /\ ditty[p] = 0 /\ state[p] = "inBattle"
      /\ ~ready[p].local /\ UNCHANGED <<ditty, ended>>
      /\ frame' = [frame EXCEPT ![p] = @ + 1] /\ pc' = [pc EXCEPT ![p] = "frame"]
  BY DEF SignalEnd, WantsEnd, NextFrame
<1>3. /\ frame'[p] = frame[p] + 1 /\ pc'[p] = "frame" /\ pc'[q] = pc[q] /\ frame'[q] = frame[q]
      /\ "frame" \in Fighting /\ "simulate" \in Fighting
  BY <1>1, <1>2 DEF CoreType, Fighting
<1>4. ~FrameTurn(d[p] + 1) /\ Says(p, d[p]) = d[p]
  BY <1>1, <1>2, Turns DEF Says
<1>5. x \in Packet /\ y \in Packet /\ x.type = "READY" /\ Signal(x)
  BY <1>1, PacketFacts DEF PacketType, Signal
<1>6. CASE ~ready[p].remote
  <2>1. /\ UNCHANGED <<state, endFrameCount>> /\ ready' = [ready EXCEPT ![p] = r]
        /\ chan' = [chan EXCEPT ![p] = Append(@, x)]
    BY <1>6 DEF SignalEnd, R!MetByLocal
  <2>2. r = [ready[p] EXCEPT !.local = TRUE, !.callback = "toEnd"]
    BY <1>6 DEF R!AfterLocal, R!MetByLocal
  <2>3. ready'[p] = r /\ ready'[q] = ready[q]
    BY <1>1, <2>1 DEF CoreType
  <2>4. ready'[p].local /\ ~ready'[p].remote /\ ready'[p].callback = "toEnd"
    BY <1>1, <1>6, <2>2, <2>3 DEF R!Ready
  <2>5. Alone(p)
    BY <1>2, <1>3, <2>1, <2>3 DEF Alone
  <2>6. At(p, d[p])'
    <3>1. d[p] = 5 * Len(ended[p])
      BY <1>1, <1>2 DEF At
    <3> QED BY <1>2, <1>3, <2>1, <2>4, <3>1 DEF At
  <2>7. Ending(p)'
    BY <1>1, <1>2, <1>3, <2>1, EndingNext
  <2> QED BY <1>2, <1>4, <1>6, <2>1, <2>4, <2>5, <2>6, <2>7, MeetSay
<1>7. CASE ready[p].remote
  <2>1. /\ state' = [state EXCEPT ![p] = "endingBattle"]
        /\ endFrameCount' = [endFrameCount EXCEPT ![p] = Max({@, EndFrame(p)})]
        /\ chan' = [chan EXCEPT ![p] = @ \o <<x>> \o <<y>>]
        /\ ready' = [ready EXCEPT ![p] = R!AfterLocal(r, "toEnd2")]
    BY <1>7 DEF SignalEnd, ReadyToEnd, R!MetByLocal, EndFrame
  <2>2. r = [ready[p] EXCEPT !.remote = FALSE, !.callback = "none"]
    BY <1>7 DEF R!AfterLocal, R!MetByLocal
  <2>3. ready'[p].local /\ ~ready'[p].remote /\ ready'[p].callback = "toEnd2"
        /\ ready'[q] = ready[q]
    <3>1. ~r.remote /\ r \in R!Ready
      BY <1>1, <2>2 DEF R!Ready
    <3>2. R!AfterLocal(r, "toEnd2") = [r EXCEPT !.local = TRUE, !.callback = "toEnd2"]
      BY <3>1 DEF R!AfterLocal, R!MetByLocal
    <3>3. ready'[p] = R!AfterLocal(r, "toEnd2") /\ ready'[q] = ready[q]
      BY <1>1, <2>1 DEF CoreType
    <3> HIDE DEF r
    <3> QED BY <3>1, <3>2, <3>3 DEF R!Ready
  <2>4. state'[p] = "endingBattle" /\ state'[q] = state[q] /\ endFrameCount'[q] = endFrameCount[q]
        /\ endFrameCount'[p] = frame[p] + 1
    BY <1>1, <1>2, <2>1, FirstProposal DEF MoreType
  <2>5. Alone(p)
    BY <1>2, <1>3, <2>3, <2>4 DEF Alone
  <2>6. chan'[q] = chan[q] /\ chan'[p] = Append(Append(chan[p], x), y)
    <3>1. chan[p] \in Seq(Packet) /\ Append(chan[p], x) \in Seq(Packet)
      BY <1>1, <1>5, Types, AppendOne
    <3>2. chan[p] \o <<x>> = Append(chan[p], x)
          /\ Append(chan[p], x) \o <<y>> = Append(Append(chan[p], x), y)
      BY <1>5, <3>1, AppendOne
    <3>3. chan'[q] = chan[q] /\ chan'[p] = chan[p] \o <<x>> \o <<y>>
      BY <1>1, <2>1 DEF CoreType
    <3> QED BY <3>2, <3>3
  <2>7. PICK ch \in Seq(Packet) : ch = Append(chan[p], x)
    BY <1>1, <1>5, Types, AppendOne
  <2>8. Numbered(ch, Hears(q, d[q]), d[p] + 1, d[p])
    <3>1. Counts(x, d[p], d[p] + 1, d[p])
      BY <1>4, <1>5 DEF Counts
    <3>2. /\ Numbered(chan[p], Hears(q, d[q]), d[p], d[p]) /\ Hears(q, d[q]) \in Nat
          /\ chan[p] \in Seq(Packet)
      BY <1>1, <1>4, NumbersParts, Close
    <3> QED BY <1>1, <1>5, <2>7, <3>1, <3>2, NumberedAppend
  <2>9. Numbered(chan'[q], d[p] + 1, Says(q, d[q]), d[q])
    <3>1. Hears(p, d[p]) = d[p] + 1
      BY <1>7 DEF Hears
    <3> QED BY <1>1, <2>6, <3>1, NumbersParts
  <2>10. ASSUME NEW i \in 1 .. Len(ch), ch[i].type = "FRAMECOUNT"
         PROVE  \E j \in 1 .. Len(chan[p]) : chan[p][j] = ch[i]
    <3>1. Append(chan[p], x)[i] = x \/ (i \in 1 .. Len(chan[p]) /\ Append(chan[p], x)[i] = chan[p][i])
      <4>1. chan[p] \in Seq(Packet)
        BY <1>1, Types
      <4> QED BY <2>7, <4>1
    <3> QED BY <1>5, <2>7, <2>10, <3>1
  <2>11. NoNewCount(q)
    BY <1>1, <2>6, NoNewCounts
  <2>12. Dying(p)' /\ ditty'[p] = 0
    <3>1. frame'[p] >= frame[p] /\ ended'[p] = ended[p]
      BY <1>1, <1>2, <1>3
    <3> QED BY <1>1, <1>2, <3>1, DyingOn
  <2>13. frame'[p] <= frame[p] + 1 /\ pc'[p] \in Fighting /\ ended'[p] = ended[p]
    BY <1>1, <1>2, <1>3
  <2> QED BY <1>2, <2>3, <2>4, <2>5, <2>6, <2>7, <2>8, <2>9, <2>10, <2>11, <2>12, <2>13, MeetToEnd
<1> QED BY <1>6, <1>7

LEMMA MetAlone ==
  ASSUME CoreType, MoreType, NEW p \in Party, pc[p] \in Meeting, Met(p),
         ready'[Peer(p)] = ready[Peer(p)], ended' = ended
  PROVE  Alone(p)
<1> DEFINE q == Peer(p)
<1>1. q \in Party /\ q # p
  BY PeerFacts
<1>2. \E t \in {"checkpoint", "over", "fight", "frame"} : pc' = [pc EXCEPT ![p] = t]
  BY MetParts DEF Meeting
<1>3. \E t \in {"inBattle", "interBattle"} : state' = [state EXCEPT ![p] = t]
  BY MetParts DEF Meeting
<1>4. frame' = frame \/ frame' = [frame EXCEPT ![p] = @ + 1]
  BY MetParts DEF Meeting
<1>5. endFrameCount' = endFrameCount \/ endFrameCount' = [endFrameCount EXCEPT ![p] = 0]
  BY MetParts DEF Meeting
<1>6. ditty' = ditty \/ \E n \in 0..MaxDitty : ditty' = [ditty EXCEPT ![p] = n]
  BY MetParts DEF Meeting
<1>7. pc'[q] = pc[q] /\ state'[q] = state[q]
  BY <1>1, <1>2, <1>3 DEF CoreType, MoreType
<1>8. frame'[q] = frame[q] /\ endFrameCount'[q] = endFrameCount[q] /\ ditty'[q] = ditty[q]
  BY <1>1, <1>4, <1>5, <1>6 DEF CoreType, MoreType
<1> QED BY <1>7, <1>8 DEF Alone

LEMMA MeetNegotiate ==
  ASSUME Inv, MoreType, NEW d \in [Party -> Nat], Meet(d), NEW p \in Party,
         Negotiate(p)
  PROVE  \E e \in [Party -> Nat] : Meet(e)'
<1> DEFINE q == Peer(p)
           x == Pkt("READY", 0)
           r == R!AfterLocal(ready[p], "negotiate")
<1>1. /\ CoreType /\ Numbers(d) /\ At(p, d[p]) /\ Ending(p) /\ ready[p] \in R!Ready
      /\ q \in Party /\ q # p /\ ReadyInv(p) /\ d[p] \in Nat
  BY PeerFacts DEF Inv, CoreType, Meet, Places, Ends
<1>2. /\ pc[p] \in Meeting /\ ready[p].callback = "none" /\ ~ready[p].local
      /\ ready' = [ready EXCEPT ![p] = r] /\ chan' = [chan EXCEPT ![p] = Append(@, x)]
      /\ IF R!MetByLocal(ready[p]) THEN Met(p)
         ELSE UNCHANGED <<pc, state, frame, endFrameCount, ditty>>
      /\ UNCHANGED ended
  BY <1>1 DEF Negotiate, ReadyInv
<1>3. pc[p] \notin Fighting \cup {"waitReady", "left"}
  BY <1>2 DEF Meeting, Fighting
<1>4. state[p] \in {"endingBattle2", "interBattle"}
  BY <1>1, <1>3 DEF At
<1>5. ~FrameTurn(d[p] + 1) /\ Says(p, d[p]) = d[p]
  BY <1>1, <1>2, <1>4, Turns DEF Says
<1>6. x \in Packet /\ x.type = "READY" /\ Signal(x)
  BY PacketFacts DEF PacketType, Signal
<1>7. ready'[p] = r /\ ready'[q] = ready[q] /\ chan'[q] = chan[q] /\ chan'[p] = Append(chan[p], x)
  BY <1>1, <1>2 DEF CoreType
<1>8. CASE ~ready[p].remote
  <2>1. UNCHANGED <<pc, state, frame, endFrameCount, ditty, ended>>
    BY <1>2, <1>8 DEF R!MetByLocal
  <2>2. r = [ready[p] EXCEPT !.local = TRUE, !.callback = "negotiate"]
    BY <1>8 DEF R!AfterLocal, R!MetByLocal
  <2>3. ready'[p].local /\ ~ready'[p].remote /\ ready'[p].callback = "negotiate"
    BY <1>1, <1>7, <1>8, <2>2 DEF R!Ready
  <2>4. Alone(p) /\ At(p, d[p])' /\ Ending(p)'
    BY <1>1, <1>3, <1>7, <2>1, <2>3 DEF Alone, At, Ending
  <2> QED BY <1>2, <1>5, <1>8, <2>1, <2>3, <2>4, MeetSay
<1>9. CASE ready[p].remote
  <2>1. Met(p)
    BY <1>2, <1>9 DEF R!MetByLocal
  <2>2. r = [ready[p] EXCEPT !.remote = FALSE, !.callback = "none"]
    BY <1>9 DEF R!AfterLocal, R!MetByLocal
  <2>3. ~ready'[p].local /\ ~ready'[p].remote /\ ready'[p].callback = "none"
    BY <1>1, <1>2, <1>7, <2>2 DEF R!Ready
  <2>4. Alone(p)
    BY <1>1, <1>2, <1>7, <2>1, MetAlone
  <2>5. /\ Numbered(chan'[p], Hears(q, d[q]), d[p] + 1, d[p]) /\ chan'[p] \in Seq(Packet)
    <3>1. Counts(x, d[p], d[p] + 1, d[p])
      BY <1>5, <1>6 DEF Counts
    <3>2. /\ Numbered(chan[p], Hears(q, d[q]), d[p], d[p]) /\ Hears(q, d[q]) \in Nat
          /\ chan[p] \in Seq(Packet)
      BY <1>1, <1>5, NumbersParts, Close
    <3> QED BY <1>1, <1>6, <1>7, <3>1, <3>2, NumberedAppend
  <2>6. Numbered(chan'[q], d[p] + 1, Says(q, d[q]), d[q]) /\ chan'[q] \in Seq(Packet)
    <3>1. Hears(p, d[p]) = d[p] + 1
      BY <1>9 DEF Hears
    <3> QED BY <1>1, <1>7, <3>1, NumbersParts
  <2>7. NoNewCount(p) /\ NoNewCount(q)
    BY <1>1, <1>6, <1>7, NoNewCounts
  <2> QED BY <1>2, <2>1, <2>3, <2>4, <2>5, <2>6, <2>7, MeetMet
<1> QED BY <1>8, <1>9

LEMMA MeetReady ==
  ASSUME Inv, MoreType, MoreType', NEW d \in [Party -> Nat], Meet(d), NEW p \in Party,
         HandleReady(p)
  PROVE  (\E e \in [Party -> Nat] : Meet(e)') /\ fault' = fault
<1> DEFINE q == Peer(p)
           y == Pkt("FRAMECOUNT", frame[p] + 1)
           r == R!AfterRemote(ready[p])
<1>1. /\ CoreType /\ Numbers(d) /\ At(p, d[p]) /\ Ending(p) /\ ready[p] \in R!Ready
      /\ q \in Party /\ q # p /\ ReadyInv(p) /\ d[p] \in Nat /\ frame[p] \in Nat
      /\ Arrives(p, "READY") /\ pc[p] # "left"
  BY PeerFacts DEF Inv, CoreType, Meet, Places, Ends, HandleReady, Arrives, Polls, Meeting
<1>2. /\ ~ready[p].remote /\ ~FrameTurn(d[p] + 1) /\ d[p] + 1 <= Says(q, d[q])
      /\ Numbered(Tail(chan[q]), d[p] + 1, Says(q, d[q]), d[q])
  BY <1>1, SignalTurn
<1>3. TakeReady(p) /\ UNCHANGED <<ended, fault>>
  BY <1>2 DEF HandleReady, TakeReady
<1>4. CASE ~ready[p].local
  BY <1>1, <1>3, <1>4, MeetHear DEF R!MetByRemote
<1>5. CASE ready[p].local
  <2>1. Says(p, d[p]) = d[p] + 1
    BY <1>5 DEF Says
  <2>2. r = [ready[p] EXCEPT !.local = FALSE, !.callback = "none"]
    BY <1>5 DEF R!AfterRemote, R!MetByRemote
  <2>3. r \in R!Ready /\ ~r.local /\ ~r.remote /\ r.callback = "none"
    BY <1>1, <1>2, <2>2 DEF R!Ready
  <2>4. /\ Taken(p)[p] = chan[p] /\ Taken(p)[q] = Tail(chan[q]) /\ chan[q] # <<>>
        /\ chan[p] \in Seq(Packet) /\ chan[q] \in Seq(Packet) /\ Tail(chan[q]) \in Seq(Packet)
        /\ Taken(p) \in [Party -> Seq(Packet)]
    <3>1. chan[p] \in Seq(Packet) /\ chan[q] \in Seq(Packet) /\ chan[q] # <<>>
      BY <1>1, Types DEF Arrives
    <3>2. Tail(chan[q]) \in Seq(Packet)
      BY <3>1
    <3> QED BY <1>1, <3>1, <3>2 DEF Taken, CoreType
  <2>5. /\ Numbered(chan[p], Hears(q, d[q]), d[p] + 1, d[p])
    BY <1>1, <2>1, NumbersParts
  <2>6. CASE ready[p].callback = "toEnd"
    <3>1. ReadyToEnd(p, r, <<>>, Taken(p)) /\ UNCHANGED <<pc, frame, ditty>>
      BY <1>3, <1>5, <2>6 DEF TakeReady, R!MetByRemote
    <3>2. /\ state' = [state EXCEPT ![p] = "endingBattle"]
          /\ endFrameCount' = [endFrameCount EXCEPT ![p] = Max({@, EndFrame(p)})]
          /\ chan' = [Taken(p) EXCEPT ![p] = @ \o <<>> \o <<y>>]
          /\ ready' = [ready EXCEPT ![p] = R!AfterLocal(r, "toEnd2")]
      BY <3>1 DEF ReadyToEnd, EndFrame
    <3>3. state[p] = "inBattle" /\ pc[p] \in Fighting
      BY <1>1, <2>6 DEF At
    <3>4. state'[p] = "endingBattle" /\ state'[q] = state[q] /\ endFrameCount'[q] = endFrameCount[q]
          /\ endFrameCount'[p] = frame[p] + 1
      BY <1>1, <3>2, <3>3, FirstProposal DEF MoreType
    <3>5. ready'[p].local /\ ~ready'[p].remote /\ ready'[p].callback = "toEnd2"
          /\ ready'[q] = ready[q]
      <4>1. R!AfterLocal(r, "toEnd2") = [r EXCEPT !.local = TRUE, !.callback = "toEnd2"]
        BY <2>3 DEF R!AfterLocal, R!MetByLocal
      <4>2. ready'[p] = R!AfterLocal(r, "toEnd2") /\ ready'[q] = ready[q]
        BY <1>1, <3>2 DEF CoreType
      <4> HIDE DEF r
      <4> QED BY <2>3, <4>1, <4>2 DEF R!Ready
    <3>6. Alone(p)
      BY <1>3, <3>1, <3>4, <3>5 DEF Alone
    <3>7. chan'[p] = Append(chan[p], y) /\ chan'[q] = Tail(chan[q])
      <4>1. y \in Packet
        BY <1>1, PacketFacts DEF PacketType
      <4>2. chan[p] \o <<>> = chan[p] /\ chan[p] \o <<y>> = Append(chan[p], y)
        BY <2>4, <4>1, AppendOne
      <4>3. chan'[p] = chan[p] \o <<>> \o <<y>> /\ chan'[q] = Tail(chan[q])
        BY <1>1, <2>4, <3>2
      <4> QED BY <4>2, <4>3
    <3>8. Dying(p)' /\ ditty'[p] = 0 /\ pc'[p] \in Fighting /\ frame'[p] <= frame[p] + 1
      <4>1. Dying(p) /\ ditty[p] = 0
        BY <1>1, <2>6, <3>3 DEF Ending
      <4> QED BY <1>1, <1>3, <3>1, <3>3, <4>1 DEF Dying
    <3>9. NoNewCount(q)
      BY <1>1, <2>4, <3>7, NoNewCounts
    <3> QED BY <1>2, <1>3, <2>4, <2>5, <3>3, <3>4, <3>5, <3>6, <3>7, <3>8, <3>9, MeetToEnd
  <2>7. CASE ready[p].callback = "toEnd2"
    <3>1. state[p] = "endingBattle"
      BY <1>1, <2>7 DEF At
    <3> QED BY <1>1, <1>2, <3>1, Turns
  <2>8. CASE ready[p].callback = "negotiate"
    <3>1. Met(p) /\ ready' = [ready EXCEPT ![p] = r] /\ chan' = Taken(p)
      BY <1>3, <1>5, <2>8 DEF TakeReady, R!MetByRemote
    <3>2. pc[p] \in Meeting
      BY <1>1, <2>8 DEF ReadyInv
    <3>3. ready'[p] = r /\ ready'[q] = ready[q]
      BY <1>1, <3>1 DEF CoreType
    <3>4. Alone(p)
      BY <1>1, <1>3, <3>1, <3>2, <3>3, MetAlone
    <3>5. chan'[p] = chan[p] /\ chan'[q] = Tail(chan[q]) /\ NoNewCount(p) /\ NoNewCount(q)
      BY <1>1, <2>4, <3>1, NoNewCounts
    <3> HIDE DEF r
    <3> QED BY <1>2, <1>3, <2>3, <2>4, <2>5, <3>1, <3>2, <3>3, <3>4, <3>5, MeetMet
  <2>9. ready[p].callback \in {"toEnd", "toEnd2", "negotiate"}
    BY <1>1, <1>5, ReadyFacts DEF ReadyInv, R!MetByRemote
  <2> QED BY <1>3, <2>6, <2>7, <2>8, <2>9
<1> QED BY <1>3, <1>4, <1>5

-----------------------------------------------------------------------------

MeetInv == \E d \in [Party -> Nat] : Meet(d)

LEMMA MeetInit == Init => MeetInv /\ NoPacketRefused
<1> SUFFICES ASSUME Init PROVE MeetInv /\ NoPacketRefused
  OBVIOUS
<1>1. PICK d \in [Party -> Nat] : d = [p \in Party |-> 0]
  OBVIOUS
<1>2. ASSUME NEW p \in Party
      PROVE  /\ pc[p] = "frame" /\ state[p] = "inBattle" /\ ready[p] = R!NotReady
             /\ endFrameCount[p] = 0 /\ ended[p] = <<>> /\ chan[p] = <<>> /\ fault[p] = "none"
             /\ Len(ended[p]) = 0 /\ Len(chan[p]) = 0 /\ DOMAIN ended[p] = {} /\ d[p] = 0
             /\ Peer(p) \in Party
  BY <1>1, PeerFacts DEF Init
<1>3. \A p \in Party : Says(p, d[p]) = 0 /\ Hears(p, d[p]) = 0
  BY <1>2 DEF Says, Hears, R!NotReady
<1>4. Places(d)
  BY <1>2 DEF Places, At, R!NotReady, Fighting
<1>5. Numbers(d)
  BY <1>2, <1>3, NumberedNothing DEF Numbers
<1>6. Ends
  BY <1>2 DEF Ends, Ending, Told, Agreed, EndTogether, R!NotReady
<1>7. NoPacketRefused
  BY <1>2 DEF NoPacketRefused, PacketType
<1> QED BY <1>4, <1>5, <1>6, <1>7 DEF MeetInv, Meet

LEMMA MeetStep ==
  ASSUME Inv, MoreType, MeetInv, [Next]_vars
  PROVE  MeetInv' /\ (NoPacketRefused => NoPacketRefused')
<1>1. Inv' /\ MoreType'
  BY InvStep, TypeStep
<1>2. PICK d \in [Party -> Nat] : Meet(d)
  BY DEF MeetInv
<1>3. fault' = fault => (NoPacketRefused => NoPacketRefused')
  BY DEF NoPacketRefused
<1>4. ASSUME NEW p \in Party, Play(p) PROVE MeetInv' /\ (NoPacketRefused => NoPacketRefused')
  <2>1. MeetInv'
    BY <1>1, <1>2, <1>4, MeetSend, MeetPlay, MeetEnd, MeetSignalEnd, MeetNegotiate DEF Play, MeetInv
  <2>2. UseInputs(p) => fault' = fault \/ fault' = [fault EXCEPT ![p] = "sync"]
    BY DEF UseInputs
  <2>3. ~UseInputs(p) => fault' = fault
    BY <1>4 DEF Play, SendChecksum, LocalInput, Stall, PlayOn, SignalEnd, ReachEndFrame,
              AwaitFrameCount, Awaited, EndBattle, Negotiate
  <2>4. fault' = [fault EXCEPT ![p] = "sync"] => (NoPacketRefused => NoPacketRefused')
    BY DEF NoPacketRefused, MoreType, PacketType
  <2> QED BY <1>3, <2>1, <2>2, <2>3, <2>4
<1>5. ASSUME NEW p \in Party, Receive(p) PROVE MeetInv' /\ (NoPacketRefused => NoPacketRefused')
  BY <1>1, <1>2, <1>3, <1>5, MeetTakeFight, MeetReady, MeetFrameCount DEF Receive, MeetInv
<1>6. ASSUME NEW p \in Party, PeerLost(p) \/ Lose(p)
      PROVE  MeetInv' /\ (NoPacketRefused => NoPacketRefused')
  <2>1. /\ pc' = [pc EXCEPT ![p] = "left"]
        /\ UNCHANGED <<state, ready, frame, endFrameCount, ditty, ended, chan, fault>>
    BY <1>6 DEF PeerLost, Lose
  <2> QED BY <1>2, <1>3, <2>1, MeetLeave DEF MeetInv
<1>7. CASE UNCHANGED vars
  <2>1. UNCHANGED <<pc, state, ready, frame, endFrameCount, ditty, ended, chan, fault>>
    BY <1>7 DEF vars
  <2>2. Places(d)' /\ Numbers(d)' /\ Agreed' /\ EndTogether'
    BY <1>2, <2>1 DEF Meet, Ends, Places, At, Numbers, Says, Hears, Agreed, EndTogether
  <2>3. \A p \in Party : Ending(p)' /\ Told(p)'
    BY <1>2, <2>1 DEF Meet, Ends, Ending, Told, Dying
  <2> QED BY <1>2, <1>3, <2>1, <2>2, <2>3 DEF MeetInv, Meet, Ends
<1> QED BY <1>4, <1>5, <1>6, <1>7 DEF Next, Done

LEMMA Together ==
  Spec => [](Inv /\ MoreType /\ SumsOK /\ MeetInv /\ NoPacketRefused)
<1> DEFINE All == Inv /\ MoreType /\ SumsOK /\ MeetInv /\ NoPacketRefused
<1>1. Init => All
  BY InvInit, TypeInit, MeetInit
<1>2. All /\ [Next]_vars => All'
  BY InvStep, TypeStep, SumsStep, MeetStep
<1> QED BY <1>1, <1>2, PTL DEF Spec

(* The types of the battle, for every input delay: among others an entry   *)
(* of a checksum always lies within its ring buffer.                       *)
THEOREM BattleTyped == Spec => []TypeOK
<1>1. Inv /\ MoreType /\ SumsOK => TypeOK
  BY TypeParts DEF Inv
<1> QED BY <1>1, Together, PTL

(* Both machines interrupt the battle in the same frames, for any input    *)
(* delay, any frames in which ships die and any length of the music on     *)
(* either machine, and even if one of them leaves the battle meanwhile     *)
(* (readyForBattleEnd and the FRAMECOUNT packets).                         *)
THEOREM EndsAgree == Spec => []EndTogether
<1>1. MeetInv => EndTogether
  BY DEF MeetInv, Meet, Ends
<1> QED BY <1>1, Together, PTL

(* No packet of a battle is refused: an input or a checksum finds its      *)
(* receiver in the battle and the buffer with room for it, a READY finds   *)
(* the peer's flag clear, a FRAMECOUNT finds the end of the battle being   *)
(* negotiated (the handlers of packethandlers.c).                          *)
THEOREM NothingRefused == Spec => []NoPacketRefused
BY Together, PTL

-----------------------------------------------------------------------------
(***************************************************************************)
(* Proofs about the checksums of a lockstep battle, for every input delay  *)
(* and every interval between checksums: both checksums of a frame are     *)
(* there when they are compared, so that a battle is not aborted for a     *)
(* loss of synchronisation that did not happen.                            *)
(*                                                                         *)
(* A checksum is sent before the input of its frame. So it has come when   *)
(* the input has, and it has not been replaced, as the frames whose        *)
(* checksums may be needed or come lie so close together that no two of    *)
(* them share an entry of the ring buffer.                                 *)
(***************************************************************************)
-----------------------------------------------------------------------------
(* The ring buffer.                                                        *)

Checked(n) == n % Interval = 0

LEMMA Multiple ==
  ASSUME NEW n \in Nat, Checked(n)
  PROVE  \E x \in Nat : n = Interval * x /\ n \div Interval = x
<1>1. Interval \in Nat \ {0}
  BY DelayAssumption
<1>2. n = Interval * (n \div Interval) + (n % Interval) /\ n \div Interval \in Nat
  BY <1>1
<1>3. n % Interval = 0
  BY DEF Checked
<1>4. n = Interval * (n \div Interval)
  <2>1. PICK x \in Nat : x = n \div Interval
    BY <1>2
  <2>2. Interval * x \in Nat
    BY <1>1
  <2> QED BY <1>1, <1>2, <1>3, <2>1, <2>2
<1> QED BY <1>2, <1>4

(* Frames less than the room of the ring apart have entries of their own.  *)
LEMMA EntryApart ==
  ASSUME delay \in Nat, NEW m \in Nat, NEW n \in Nat, Checked(m), Checked(n),
         m <= n, n < m + 2 * delay + 2, Entry(m) = Entry(n)
  PROVE  m = n
<1>1. PICK I \in Nat \ {0}, R1 \in Nat \ {0} :
        I = Interval /\ R1 = ChecksumRoom /\ I * R1 >= 2 * delay + 2
  BY EntryType, DelayAssumption
<1>2. PICK x \in Nat, y \in Nat :
        /\ m = I * x /\ n = I * y /\ m \div Interval = x /\ n \div Interval = y
  BY <1>1, Multiple
<1>3. x % R1 = y % R1
  BY <1>1, <1>2 DEF Entry
<1>4. PICK a \in Int, b \in Int, r \in Int : x = R1 * a + r /\ y = R1 * b + r
  <2>1. x = R1 * (x \div R1) + (x % R1) /\ y = R1 * (y \div R1) + (y % R1)
    BY <1>1
  <2>2. x \div R1 \in Int /\ y \div R1 \in Int /\ x % R1 \in Int
    BY <1>1
  <2> QED BY <1>3, <2>1, <2>2
<1>5. x <= y
  BY <1>1, <1>2
<1>6. a <= b
  BY <1>1, <1>4, <1>5
<1>7. SUFFICES ASSUME a < b PROVE FALSE
  BY <1>2, <1>4, <1>6
<1>8. PICK k \in Nat : b = a + 1 + k
  <2>1. b - a - 1 \in Nat /\ b = a + 1 + (b - a - 1)
    BY <1>7
  <2> QED BY <2>1
<1>9. y = x + R1 + R1 * k /\ R1 * k \in Nat
  BY <1>1, <1>4, <1>8
<1>10. y >= x + R1
  BY <1>1, <1>9
<1>11. PICK z \in Nat : y = x + R1 + z
  BY <1>9
<1>12. n = m + I * R1 + I * z /\ I * z \in Nat /\ I * R1 \in Nat
  BY <1>1, <1>2, <1>11
<1> QED BY <1>1, <1>12

-----------------------------------------------------------------------------
(* A channel whose inputs follow their checksums.                          *)

Sum(x) == x.type = "CHECKSUM"

Plain(x) == ~Input(x) /\ ~Sum(x)

(* The checksum of frame n is among the first k packets.                   *)
Comes(ch, n, k) == \E j \in 1 .. k : Sum(ch[j]) /\ ch[j].frame = n

(* Each input follows the checksum of its frame, unless that has come and  *)
(* is in H; no checksum is of a frame before lo, or follows its input.     *)
Follows(ch, lo, top, H) ==
  /\ \A i \in 1 .. Len(ch) : Input(ch[i]) /\ Checked(ch[i].frame) =>
       ch[i].frame \in H \/ Comes(ch, ch[i].frame, i)
  /\ \A i \in 1 .. Len(ch) : Sum(ch[i]) =>
       /\ Checked(ch[i].frame) /\ lo <= ch[i].frame /\ ch[i].frame <= top
       /\ \A j \in 1 .. i : Input(ch[j]) => ch[j].frame < ch[i].frame

LEMMA FollowsAppend ==
  ASSUME NEW ch \in Seq(Packet), NEW lo \in Nat, NEW top \in Nat, NEW H, Follows(ch, lo, top, H),
         NEW x \in Packet,
         Input(x) /\ Checked(x.frame) => x.frame \in H \/ Comes(ch, x.frame, Len(ch)),
         Sum(x) => /\ Checked(x.frame) /\ lo <= x.frame /\ x.frame <= top
                   /\ \A j \in 1 .. Len(ch) : Input(ch[j]) => ch[j].frame < x.frame
  PROVE  /\ Follows(Append(ch, x), lo, top, H)
         /\ \A n : Comes(ch, n, Len(ch)) \/ (Sum(x) /\ x.frame = n)
                     => Comes(Append(ch, x), n, Len(Append(ch, x)))
<1> DEFINE new == Append(ch, x)
<1>1. PICK m \in Nat : m = Len(ch)
  OBVIOUS
<1>2. /\ new \in Seq(Packet) /\ Len(new) = m + 1 /\ new[m + 1] = x
      /\ \A i \in 1 .. m : new[i] = ch[i]
  BY <1>1
<1>3. ~(Input(x) /\ Sum(x))
  BY DEF Input, Sum
<1> HIDE DEF new
<1>4. \A i \in 1 .. m + 1 : i = m + 1 \/ i \in 1 .. m
  OBVIOUS
<1>5. ASSUME NEW n, NEW k \in 1 .. m, NEW l \in Nat, k <= l, Comes(ch, n, k) PROVE Comes(new, n, l)
  <2>1. PICK j \in 1 .. k : Sum(ch[j]) /\ ch[j].frame = n
    BY <1>5 DEF Comes
  <2>2. j \in 1 .. m /\ j \in 1 .. l
    BY <1>5
  <2> QED BY <1>2, <2>1, <2>2 DEF Comes
<1>6. ASSUME NEW n, Comes(ch, n, m) PROVE Comes(new, n, m + 1)
  <2>1. PICK j \in 1 .. m : Sum(ch[j]) /\ ch[j].frame = n
    BY <1>6 DEF Comes
  <2>2. j \in 1 .. m + 1
    OBVIOUS
  <2> QED BY <1>2, <2>1, <2>2 DEF Comes
<1>7. ASSUME NEW i \in 1 .. m + 1, Input(new[i]), Checked(new[i].frame)
      PROVE  new[i].frame \in H \/ Comes(new, new[i].frame, i)
  <2>1. CASE i = m + 1
    BY <1>1, <1>2, <1>6, <1>7, <2>1
  <2>2. CASE i \in 1 .. m
    <3>1. new[i] = ch[i]
      BY <1>2, <2>2
    <3>2. ch[i].frame \in H \/ Comes(ch, ch[i].frame, i)
      BY <1>1, <1>7, <2>2, <3>1 DEF Follows
    <3>3. i \in Nat /\ i <= i
      OBVIOUS
    <3> QED BY <1>5, <2>2, <3>1, <3>2, <3>3
  <2> QED BY <1>4, <2>1, <2>2
<1>8. ASSUME NEW i \in 1 .. m + 1, Sum(new[i])
      PROVE  /\ Checked(new[i].frame) /\ lo <= new[i].frame /\ new[i].frame <= top
             /\ \A j \in 1 .. i : Input(new[j]) => new[j].frame < new[i].frame
  <2>1. CASE i = m + 1
    <3>1. new[i] = x /\ Sum(x)
      BY <1>2, <1>8, <2>1
    <3>2. \A j \in 1 .. i : Input(new[j]) => j \in 1 .. m /\ new[j] = ch[j]
      BY <1>2, <1>3, <1>4, <2>1, <3>1
    <3> QED BY <1>1, <3>1, <3>2
  <2>2. CASE i \in 1 .. m
    <3>1. new[i] = ch[i] /\ \A j \in 1 .. i : j \in 1 .. m /\ new[j] = ch[j]
      BY <1>2, <2>2
    <3> QED BY <1>1, <1>8, <2>2, <3>1 DEF Follows
  <2> QED BY <1>4, <2>1, <2>2
<1>9. Follows(new, lo, top, H)
  BY <1>2, <1>7, <1>8 DEF Follows
<1>10. \A n : Sum(x) /\ x.frame = n => Comes(new, n, m + 1)
  <2>1. m + 1 \in 1 .. m + 1
    OBVIOUS
  <2> QED BY <1>2, <2>1 DEF Comes
<1> QED BY <1>1, <1>2, <1>6, <1>9, <1>10 DEF new

LEMMA FollowsTail ==
  ASSUME NEW ch \in Seq(Packet), ch # <<>>,
         NEW lo \in Nat, NEW top \in Nat, NEW H, Follows(ch, lo, top, H)
  PROVE  /\ Plain(Head(ch)) => Follows(Tail(ch), lo, top, H)
         /\ Input(Head(ch)) /\ Head(ch).frame = lo =>
              Follows(Tail(ch), lo + 1, top, H) /\ (Checked(lo) => lo \in H)
         /\ Sum(Head(ch)) =>
              /\ Checked(Head(ch).frame) /\ lo <= Head(ch).frame /\ Head(ch).frame <= top
              /\ Follows(Tail(ch), lo, top, H \cup {Head(ch).frame})
         /\ \A n : Comes(ch, n, Len(ch)) =>
              Comes(Tail(ch), n, Len(Tail(ch))) \/ (Sum(Head(ch)) /\ Head(ch).frame = n)
<1> DEFINE new == Tail(ch)
<1>1. PICK m \in Nat : m + 1 = Len(ch) /\ Len(new) = m
  <2>1. Len(ch) \in Nat /\ Len(ch) > 0 /\ Len(Tail(ch)) = Len(ch) - 1
    OBVIOUS
  <2>2. Len(ch) - 1 \in Nat /\ (Len(ch) - 1) + 1 = Len(ch)
    BY <2>1
  <2> QED BY <2>1, <2>2
<1>2. /\ new \in Seq(Packet) /\ Head(ch) = ch[1] /\ ch[1] \in Packet
      /\ \A i \in 1 .. m : new[i] = ch[i + 1]
  BY <1>1
<1>3. ch[1].frame \in Nat /\ \A i \in 1 .. m + 1 : ch[i] \in Packet /\ ch[i].frame \in Nat
  <2>1. \A i \in 1 .. m + 1 : ch[i] \in Packet
    BY <1>1
  <2> QED BY <1>2, <2>1, PacketFacts
<1> HIDE DEF new
<1>4. \A i \in 1 .. m : i + 1 \in 1 .. m + 1 /\ (i + 1) - 1 = i
  OBVIOUS
<1>5. ASSUME NEW n, NEW k \in 0 .. m, Comes(ch, n, k + 1)
      PROVE  Comes(new, n, k) \/ (Sum(ch[1]) /\ ch[1].frame = n)
  <2>1. PICK j \in 1 .. k + 1 : Sum(ch[j]) /\ ch[j].frame = n
    BY <1>5 DEF Comes
  <2>2. CASE j = 1
    BY <2>1, <2>2
  <2>3. CASE j # 1
    <3>1. j - 1 \in 1 .. k /\ j - 1 \in 1 .. m /\ (j - 1) + 1 = j
      BY <2>3
    <3>2. new[j - 1] = ch[j]
      BY <1>2, <3>1
    <3> QED BY <2>1, <3>1, <3>2 DEF Comes
  <2> QED BY <2>2, <2>3
<1>6. ASSUME NEW i \in 1 .. m, Input(new[i]), Checked(new[i].frame)
      PROVE  \/ new[i].frame \in H \/ Comes(new, new[i].frame, i)
             \/ Sum(ch[1]) /\ ch[1].frame = new[i].frame
  <2>1. new[i] = ch[i + 1] /\ i + 1 \in 1 .. m + 1 /\ i \in 0 .. m
    BY <1>2, <1>4
  <2>2. ch[i + 1].frame \in H \/ Comes(ch, ch[i + 1].frame, i + 1)
    BY <1>1, <1>6, <2>1 DEF Follows
  <2> QED BY <1>5, <2>1, <2>2
<1>7. ASSUME NEW i \in 1 .. m, Sum(new[i])
      PROVE  /\ Checked(new[i].frame) /\ lo <= new[i].frame /\ new[i].frame <= top
             /\ \A j \in 1 .. i : Input(new[j]) => new[j].frame < new[i].frame
             /\ Input(ch[1]) => ch[1].frame < new[i].frame
             /\ new[i].frame \in Nat
  <2>1. new[i] = ch[i + 1] /\ i + 1 \in 1 .. m + 1 /\ i + 1 \in 1 .. Len(ch) /\ Sum(ch[i + 1])
    BY <1>1, <1>2, <1>4, <1>7
  <2>2. /\ Checked(ch[i + 1].frame) /\ lo <= ch[i + 1].frame /\ ch[i + 1].frame <= top
        /\ \A j \in 1 .. i + 1 : Input(ch[j]) => ch[j].frame < ch[i + 1].frame
    BY <2>1 DEF Follows
  <2>3. 1 \in 1 .. i + 1 /\ \A j \in 1 .. i : j + 1 \in 1 .. i + 1 /\ j \in 1 .. m
    OBVIOUS
  <2>4. \A j \in 1 .. i : new[j] = ch[j + 1]
    BY <1>2, <2>3
  <2>5. ch[i + 1].frame \in Nat
    BY <1>3, <2>1
  <2> QED BY <2>1, <2>2, <2>3, <2>4, <2>5
<1>8. \A n : Comes(ch, n, Len(ch)) => Comes(new, n, m) \/ (Sum(ch[1]) /\ ch[1].frame = n)
  <2>1. m \in 0 .. m
    OBVIOUS
  <2> QED BY <1>1, <1>5, <2>1
<1>9. CASE Plain(Head(ch))
  <2>1. ~Sum(ch[1]) /\ ~Input(ch[1])
    BY <1>2, <1>9 DEF Plain
  <2> QED BY <1>1, <1>2, <1>6, <1>7, <1>8, <2>1 DEF Follows, new
<1>10. CASE Input(Head(ch))
  <2>1. ~Sum(ch[1]) /\ Input(ch[1]) /\ ~Plain(Head(ch)) /\ ~Sum(Head(ch))
    BY <1>2, <1>10 DEF Plain, Input, Sum
  <2>2. ASSUME ch[1].frame = lo
        PROVE  Follows(new, lo + 1, top, H) /\ (Checked(lo) => lo \in H)
    <3>1. \A i \in 1 .. m : Sum(new[i]) => lo + 1 <= new[i].frame
      <4>1. \A n \in Nat : lo < n => lo + 1 <= n
        OBVIOUS
      <4> QED BY <1>7, <2>1, <2>2, <4>1
    <3>2. Checked(lo) => lo \in H
      <4>1. Checked(lo) => lo \in H \/ Comes(ch, lo, 1)
        <5>1. 1 \in 1 .. Len(ch)
          BY <1>1
        <5> QED BY <2>1, <2>2, <5>1 DEF Follows
      <4>2. ~Comes(ch, lo, 1)
        BY <2>1 DEF Comes
      <4> QED BY <4>1, <4>2
    <3> QED BY <1>1, <1>6, <1>7, <2>1, <3>1, <3>2 DEF Follows
  <2> QED BY <1>1, <1>2, <1>8, <2>1, <2>2 DEF new
<1>11. CASE Sum(Head(ch))
  <2>1. Sum(ch[1]) /\ ~Input(ch[1]) /\ ~Plain(Head(ch)) /\ ~Input(Head(ch))
    BY <1>2, <1>11 DEF Plain, Input, Sum
  <2>2. Checked(ch[1].frame) /\ lo <= ch[1].frame /\ ch[1].frame <= top
    <3>1. 1 \in 1 .. Len(ch)
      BY <1>1
    <3> QED BY <2>1, <3>1 DEF Follows
  <2>3. Follows(new, lo, top, H \cup {ch[1].frame})
    BY <1>1, <1>6, <1>7 DEF Follows
  <2> QED BY <1>1, <1>2, <1>8, <2>1, <2>2, <2>3 DEF new
<1>12. Plain(Head(ch)) \/ Input(Head(ch)) \/ Sum(Head(ch))
  BY DEF Plain
<1> QED BY <1>9, <1>10, <1>11, <1>12

(* A later frame of the sender leaves what was said of the channel.        *)
LEMMA FollowsMore ==
  ASSUME NEW ch \in Seq(Packet), NEW lo \in Nat, NEW top \in Nat, NEW H, Follows(ch, lo, top, H),
         NEW more \in Nat, top <= more, NEW G,
         \A i \in 1 .. Len(ch) :
           Input(ch[i]) /\ Checked(ch[i].frame) /\ ch[i].frame \in H => ch[i].frame \in G
  PROVE  Follows(ch, lo, more, G)
<1>1. \A i \in 1 .. Len(ch) : ch[i].frame \in Nat
  BY PacketFacts
<1>2. \A n \in Nat : n <= top => n <= more
  OBVIOUS
<1> QED BY <1>1, <1>2 DEF Follows

-----------------------------------------------------------------------------
(* The invariant.                                                          *)

(* The frames of which p has the checksum of the other machine.            *)
Held(p) == {n \in Nat : sums[p].other[Entry(n)] = n}

(* The first frame of which the input has not come to p.                   *)
Lo(p) == Used(p) + Len(buffer[p].other) - delay

(* p has its own checksums, as long as they may be needed.                 *)
OwnSums(p) ==
  \A n \in Nat :
    /\ Checked(n) /\ frame[p] < n + 2 * delay + 2
    /\ n < frame[p] \/ (n = frame[p] /\ pc[p] # "frame")
    => sums[p].own[Entry(n)] = n

(* p has the other checksums of the frames whose inputs it has, and those  *)
(* of the frames from then on come before their inputs.                    *)
OtherSums(p) ==
  LET q == Peer(p)
  IN  /\ \A n \in Nat : Checked(n) /\ n < Lo(p) /\ frame[p] <= n + delay => n \in Held(p)
      /\ Follows(chan[q], Lo(p), frame[q], Held(p))
      /\ pc[q] = "input" /\ Checked(frame[q]) =>
           frame[q] \in Held(p) \/ Comes(chan[q], frame[q], Len(chan[q]))

SumsInv == \A p \in Party : pc[p] # "left" => OwnSums(p) /\ OtherSums(p)

LEMMA LoFacts ==
  ASSUME Inv, NEW p \in Party, pc[p] # "left"
  PROVE  /\ Lo(p) \in Nat /\ frame[p] <= Lo(p) + delay /\ Lo(p) <= frame[Peer(p)] + 1
         /\ frame[p] \in Nat /\ frame[Peer(p)] \in Nat /\ delay \in Nat
         /\ frame[Peer(p)] <= frame[p] + delay + 1 /\ frame[p] <= frame[Peer(p)] + delay + 1
         /\ chan[p] \in Seq(Packet) /\ chan[Peer(p)] \in Seq(Packet)
         /\ buffer[p].other # <<>> => Used(p) + 1 <= Lo(p) + delay
         /\ \E hi \in Nat : MaySent(Peer(p), hi) /\ Holds(chan[Peer(p)], Lo(p), hi)
<1> DEFINE q == Peer(p)
<1>1. /\ CoreType /\ q \in Party /\ chan[p] \in Seq(Packet) /\ chan[q] \in Seq(Packet)
      /\ frame[p] \in Nat /\ frame[q] \in Nat /\ delay \in Nat /\ Used(p) \in Nat
      /\ buffer[p].other \in Seq(Nat)
  BY PeerFacts, Types DEF Inv
<1>2. PICK n \in Nat : n = Len(buffer[p].other) /\ (buffer[p].other # <<>> => n >= 1)
  BY <1>1
<1>3. PICK lo \in Nat, hi \in Nat :
        /\ Used(p) + Len(buffer[p].other) = lo + delay
        /\ MaySent(q, hi) /\ Holds(chan[q], lo, hi)
  BY DEF Inv, OtherInv
<1>4. lo = Used(p) + n - delay
  <2>1. Used(p) + n = lo + delay
    BY <1>2, <1>3
  <2>2. \A u, l, d \in Nat : u + n = l + d => l = u + n - d
    OBVIOUS
  <2> QED BY <1>1, <2>1, <2>2
<1>5. lo = Lo(p)
  BY <1>2, <1>4 DEF Lo
<1>6. Used(p) >= frame[p]
  BY <1>1 DEF Used
<1>7. lo <= hi /\ hi <= frame[q] + 1
  BY <1>1, <1>3 DEF Holds, MaySent, Sent
<1>8. frame[q] <= frame[p] + delay + 1 /\ frame[p] <= frame[q] + delay + 1
  BY <1>1 DEF Inv, NotFar
<1>9. frame[p] <= lo + delay /\ lo <= frame[q] + 1
  BY <1>1, <1>4, <1>6, <1>7
<1>10. buffer[p].other # <<>> => Used(p) + 1 <= lo + delay
  BY <1>1, <1>2, <1>4
<1> QED BY <1>1, <1>3, <1>5, <1>8, <1>9, <1>10

(* Both checksums are there when they are compared.                        *)
LEMMA SumsVerify ==
  ASSUME Inv, SumsInv, NEW p \in Party, pc[p] \in {"remote", "stalled"}, buffer[p].other # <<>>
  PROVE  Verifies(p)
<1>1. OwnSums(p) /\ OtherSums(p)
  BY DEF SumsInv
<1>2. /\ Lo(p) \in Nat /\ frame[p] \in Nat /\ delay \in Nat /\ Used(p) = frame[p]
      /\ frame[p] + 1 <= Lo(p) + delay
  BY LoFacts DEF Used
<1>3. SUFFICES ASSUME frame[p] - delay >= 0, (frame[p] - delay) % Interval = 0
               PROVE  LET i == Entry(frame[p] - delay)
                      IN  sums[p].own[i] # NoSum /\ sums[p].own[i] = sums[p].other[i]
  BY DEF Verifies
<1>4. PICK n \in Nat : n = frame[p] - delay
  BY <1>2, <1>3
<1>5. /\ Checked(n) /\ frame[p] < n + 2 * delay + 2 /\ frame[p] <= n + delay /\ n < Lo(p)
      /\ n < frame[p] \/ n = frame[p]
  <2>1. Checked(n)
    BY <1>3, <1>4 DEF Checked
  <2> QED BY <1>2, <1>4, <2>1
<1>6. sums[p].own[Entry(n)] = n /\ n \in Held(p)
  BY <1>1, <1>5 DEF OwnSums, OtherSums
<1> QED BY <1>4, <1>6 DEF Held, NoSum

-----------------------------------------------------------------------------
(* The steps that concern neither an input nor a checksum.                 *)

Still(p) ==
  LET q == Peer(p)
  IN
  /\ delay' = delay /\ buffer' = buffer /\ sums' = sums
  /\ pc'[q] = pc[q] /\ frame'[q] = frame[q]
  /\ frame'[p] = frame[p] \/ (frame'[p] = frame[p] + 1 /\ pc'[p] = "frame")
  /\ pc'[p] = "left" \/ (Used(p)' = Used(p) /\ pc[p] # "frame")
  /\ pc'[p] = "input" => pc[p] = "input" /\ frame'[p] = frame[p]
  /\ \/ chan'[p] = chan[p]
     \/ \E x \in Packet : Plain(x) /\ chan'[p] = Append(chan[p], x)
     \/ \E x, y \in Packet : Plain(x) /\ Plain(y) /\ chan'[p] = Append(Append(chan[p], x), y)
  /\ \/ chan'[q] = chan[q]
     \/ chan[q] # <<>> /\ Plain(Head(chan[q])) /\ chan'[q] = Tail(chan[q])

LEMMA PlainAppend ==
  ASSUME NEW ch \in Seq(Packet), NEW lo \in Nat, NEW top \in Nat, NEW H, Follows(ch, lo, top, H),
         NEW x \in Packet, Plain(x)
  PROVE  /\ Follows(Append(ch, x), lo, top, H) /\ Append(ch, x) \in Seq(Packet)
         /\ \A n : Comes(ch, n, Len(ch)) => Comes(Append(ch, x), n, Len(Append(ch, x)))
<1>1. ~Input(x) /\ ~Sum(x) /\ Append(ch, x) \in Seq(Packet)
  BY DEF Plain
<1> QED BY <1>1, FollowsAppend

(* What the sums say of the peer, when p acts.                             *)
LEMMA PeerSums ==
  ASSUME NEW p \in Party, delay' = delay, buffer' = buffer, sums' = sums,
         pc'[Peer(p)] = pc[Peer(p)], frame'[Peer(p)] = frame[Peer(p)]
  PROVE  /\ Held(p)' = Held(p) /\ Held(Peer(p))' = Held(Peer(p)) /\ Lo(Peer(p))' = Lo(Peer(p))
         /\ Used(p)' = Used(p) => Lo(p)' = Lo(p)
         /\ OwnSums(Peer(p)) => OwnSums(Peer(p))'
BY DEF Held, Lo, Used, OwnSums, Entry, ChecksumRoom

LEMMA StillStep ==
  ASSUME Inv, SumsInv, NEW p \in Party, pc[p] # "left", Still(p)
  PROVE  SumsInv'
<1> DEFINE q == Peer(p)
<1>1. /\ q \in Party /\ q # p /\ Peer(q) = p /\ \A r \in Party : r = p \/ r = q
      /\ Held(p)' = Held(p) /\ Held(q)' = Held(q) /\ Lo(q)' = Lo(q)
      /\ Used(p)' = Used(p) => Lo(p)' = Lo(p)
      /\ pc[q] # "left" => OwnSums(q)'
      /\ delay' = delay /\ sums' = sums /\ pc'[q] = pc[q] /\ frame'[q] = frame[q]
  BY PeerFacts, PeerSums DEF Still, SumsInv
<1>2. OwnSums(p) /\ OtherSums(p) /\ frame[p] \in Nat /\ frame'[p] \in Nat /\ frame[p] <= frame'[p]
      /\ delay \in Nat /\ chan[p] \in Seq(Packet) /\ chan[q] \in Seq(Packet) /\ frame[q] \in Nat
  BY LoFacts, SMTT(30) DEF Still, SumsInv
<1>3. ASSUME pc'[p] # "left" PROVE OwnSums(p)'
  <2>1. /\ frame'[p] = frame[p] \/ (frame'[p] = frame[p] + 1 /\ pc'[p] = "frame")
        /\ pc[p] # "frame" /\ sums' = sums /\ delay' = delay
    BY <1>3 DEF Still
  <2>2. ASSUME NEW n \in Nat, Checked(n), frame'[p] < n + 2 * delay + 2,
               n < frame'[p] \/ (n = frame'[p] /\ pc'[p] # "frame")
        PROVE  sums[p].own[Entry(n)] = n
    <3>1. frame[p] < n + 2 * delay + 2
      BY <1>2, <2>2
    <3>2. n < frame[p] \/ n = frame[p]
      BY <1>2, <2>1, <2>2
    <3> QED BY <1>2, <2>1, <2>2, <3>1, <3>2 DEF OwnSums
  <2>3. \A n \in Nat : Entry(n)' = Entry(n)
    BY <2>1 DEF Entry, ChecksumRoom
  <2> QED BY <2>1, <2>2, <2>3 DEF OwnSums, Checked
<1>4. ASSUME pc'[p] # "left" PROVE OtherSums(p)'
  <2>1. Lo(p)' = Lo(p) /\ Lo(p) \in Nat
    BY <1>1, <1>3, <1>4, LoFacts DEF Still
  <2>2. \A n \in Nat : Checked(n) /\ n < Lo(p) /\ frame'[p] <= n + delay => n \in Held(p)
    <3>1. \A n \in Nat : frame'[p] <= n + delay => frame[p] <= n + delay
      BY <1>2
    <3> QED BY <1>2, <3>1 DEF OtherSums
  <2>3. Follows(chan[q], Lo(p), frame[q], Held(p))
    BY <1>2 DEF OtherSums
  <2>4. pc[q] = "input" /\ Checked(frame[q]) =>
          frame[q] \in Held(p) \/ Comes(chan[q], frame[q], Len(chan[q]))
    BY <1>2 DEF OtherSums
  <2>5. CASE chan'[q] = chan[q]
    BY <1>1, <2>1, <2>2, <2>3, <2>4, <2>5 DEF OtherSums, Checked
  <2>6. CASE chan[q] # <<>> /\ Plain(Head(chan[q])) /\ chan'[q] = Tail(chan[q])
    <3>1. Follows(Tail(chan[q]), Lo(p), frame[q], Held(p))
      BY <1>2, <2>1, <2>3, <2>6, FollowsTail
    <3>2. Comes(chan[q], frame[q], Len(chan[q])) => Comes(Tail(chan[q]), frame[q], Len(Tail(chan[q])))
      <4>1. ~Sum(Head(chan[q]))
        BY <2>6 DEF Plain
      <4> QED BY <1>2, <2>1, <2>3, <2>6, <4>1, FollowsTail
    <3> QED BY <1>1, <2>1, <2>2, <2>4, <2>6, <3>1, <3>2 DEF OtherSums, Checked
  <2> QED BY <2>5, <2>6 DEF Still
<1>5. ASSUME pc[q] # "left" PROVE OtherSums(q)'
  <2>1. OtherSums(q) /\ Lo(q) \in Nat
    BY <1>1, <1>5, LoFacts DEF SumsInv
  <2>2. Follows(chan[p], Lo(q), frame[p], Held(q))
    BY <1>1, <2>1 DEF OtherSums
  <2>3. /\ Follows(chan'[p], Lo(q), frame[p], Held(q)) /\ chan'[p] \in Seq(Packet)
        /\ \A n : Comes(chan[p], n, Len(chan[p])) => Comes(chan'[p], n, Len(chan'[p]))
    <3>1. CASE chan'[p] = chan[p]
      BY <1>2, <2>2, <3>1
    <3>2. CASE \E x \in Packet : Plain(x) /\ chan'[p] = Append(chan[p], x)
      BY <1>2, <2>1, <2>2, <3>2, PlainAppend
    <3>3. ASSUME NEW x \in Packet, NEW y \in Packet, Plain(x), Plain(y),
                 chan'[p] = Append(Append(chan[p], x), y)
          PROVE  /\ Follows(chan'[p], Lo(q), frame[p], Held(q)) /\ chan'[p] \in Seq(Packet)
                 /\ \A n : Comes(chan[p], n, Len(chan[p])) => Comes(chan'[p], n, Len(chan'[p]))
      <4>1. PICK ch \in Seq(Packet) :
              /\ ch = Append(chan[p], x) /\ Follows(ch, Lo(q), frame[p], Held(q))
              /\ \A n : Comes(chan[p], n, Len(chan[p])) => Comes(ch, n, Len(ch))
        BY <1>2, <2>1, <2>2, <3>3, PlainAppend
      <4>2. /\ Follows(Append(ch, y), Lo(q), frame[p], Held(q)) /\ Append(ch, y) \in Seq(Packet)
            /\ \A n : Comes(ch, n, Len(ch)) => Comes(Append(ch, y), n, Len(Append(ch, y)))
        BY <1>2, <2>1, <3>3, <4>1, PlainAppend
      <4> QED BY <3>3, <4>1, <4>2
    <3> QED BY <3>1, <3>2, <3>3 DEF Still
  <2>4. Follows(chan'[p], Lo(q), frame'[p], Held(q))
    BY <1>2, <2>1, <2>3, FollowsMore
  <2>5. pc'[p] = "input" /\ Checked(frame'[p]) =>
          frame'[p] \in Held(q) \/ Comes(chan'[p], frame'[p], Len(chan'[p]))
    BY <1>1, <2>1, <2>3 DEF Still, OtherSums
  <2>6. \A n \in Nat : Checked(n) /\ n < Lo(q) /\ frame[q] <= n + delay => n \in Held(q)
    BY <2>1 DEF OtherSums
  <2> QED BY <1>1, <2>4, <2>5, <2>6 DEF OtherSums, Checked
<1> QED BY <1>1, <1>3, <1>4, <1>5 DEF SumsInv

LEMMA StillPlay ==
  ASSUME Inv, NEW p \in Party, pc[p] # "left",
         \/ Stall(p) \/ PlayOn(p) \/ ReachEndFrame(p) \/ AwaitFrameCount(p) \/ Awaited(p)
         \/ EndBattle(p) \/ Lose(p)
  PROVE  Still(p)
<1> DEFINE q == Peer(p)
<1>1. CoreType /\ q \in Party /\ q # p
  BY PeerFacts DEF Inv
<1>2. UNCHANGED <<delay, buffer, sums, chan>>
  BY DEF Stall, PlayOn, ReachEndFrame, AwaitFrameCount, Awaited, EndBattle, Lose
<1>3. CASE PlayOn(p) \/ ReachEndFrame(p)
  <2>1. /\ pc[p] = "simulate" /\ pc' = [pc EXCEPT ![p] = "frame"]
        /\ frame' = [frame EXCEPT ![p] = @ + 1]
    BY <1>3 DEF PlayOn, ReachEndFrame, WantsEnd, NextFrame
  <2>2. /\ pc'[p] = "frame" /\ pc'[q] = pc[q] /\ frame'[p] = frame[p] + 1 /\ frame'[q] = frame[q]
    BY <1>1, <2>1 DEF CoreType
  <2> QED BY <1>2, <2>1, <2>2 DEF Still, Used
<1>4. CASE Stall(p) \/ AwaitFrameCount(p) \/ Awaited(p) \/ EndBattle(p)
  <2>1. /\ frame' = frame
        /\ \/ pc[p] = "remote" /\ pc' = [pc EXCEPT ![p] = "stalled"]
           \/ /\ pc[p] \in {"simulate", "waitReady"}
              /\ \E t \in {"simulate", "waitReady", "ended"} : pc' = [pc EXCEPT ![p] = t]
    BY <1>4 DEF Stall, AwaitFrameCount, Awaited, EndBattle, WantsEnd
  <2>2. /\ pc'[q] = pc[q]
        /\ \/ pc[p] = "remote" /\ pc'[p] = "stalled"
           \/ pc[p] \in {"simulate", "waitReady"} /\ pc'[p] \in {"simulate", "waitReady", "ended"}
    BY <1>1, <2>1 DEF CoreType
  <2> QED BY <1>2, <2>1, <2>2 DEF Still, Used
<1>5. CASE Lose(p)
  <2>1. frame' = frame /\ pc'[p] = "left" /\ pc'[q] = pc[q]
    BY <1>1, <1>5 DEF Lose, CoreType
  <2> QED BY <1>2, <2>1 DEF Still
<1> QED BY <1>3, <1>4, <1>5

LEMMA PlainSignal ==
  ASSUME NEW n \in Nat
  PROVE  /\ Pkt("READY", n) \in Packet /\ Plain(Pkt("READY", n))
         /\ Pkt("FRAMECOUNT", n) \in Packet /\ Plain(Pkt("FRAMECOUNT", n))
BY PacketFacts DEF PacketType, Plain, Input, Sum

(* What a meeting leaves of Still to show.                                 *)
LEMMA StillMet ==
  ASSUME CoreType, MoreType, NEW p \in Party, pc[p] \in Meeting, Met(p)
  PROVE  /\ pc'[Peer(p)] = pc[Peer(p)] /\ frame'[Peer(p)] = frame[Peer(p)]
         /\ frame'[p] = frame[p] \/ (frame'[p] = frame[p] + 1 /\ pc'[p] = "frame")
         /\ Used(p)' = Used(p) /\ pc[p] # "frame" /\ pc'[p] # "input"
<1> DEFINE q == Peer(p)
<1>1. q \in Party /\ q # p
  BY PeerFacts
<1>2. CASE pc[p] = "ended"
  <2>1. frame' = frame /\ pc' = [pc EXCEPT ![p] = "checkpoint"]
    BY <1>2, MetParts
  <2>2. pc'[p] = "checkpoint" /\ pc'[q] = pc[q]
    BY <1>1, <2>1 DEF CoreType
  <2> QED BY <1>2, <2>1, <2>2 DEF Used
<1>3. CASE pc[p] = "checkpoint"
  <2>1. frame' = frame /\ \E t \in {"over", "fight"} : pc' = [pc EXCEPT ![p] = t]
    BY <1>3, MetParts
  <2>2. pc'[p] \in {"over", "fight"} /\ pc'[q] = pc[q]
    BY <1>1, <2>1 DEF CoreType
  <2> QED BY <1>3, <2>1, <2>2 DEF Used
<1>4. CASE pc[p] = "fight"
  <2>1. frame' = [frame EXCEPT ![p] = @ + 1] /\ pc' = [pc EXCEPT ![p] = "frame"]
    BY <1>4, MetParts
  <2>2. pc'[p] = "frame" /\ pc'[q] = pc[q] /\ frame'[p] = frame[p] + 1 /\ frame'[q] = frame[q]
    BY <1>1, <2>1 DEF CoreType
  <2> QED BY <1>4, <2>2 DEF Used
<1> QED BY <1>2, <1>3, <1>4 DEF Meeting

LEMMA StillSpeak ==
  ASSUME Inv, MoreType, NEW p \in Party, SignalEnd(p) \/ Negotiate(p)
  PROVE  Still(p) /\ pc[p] # "left"
<1> DEFINE q == Peer(p)
           x == Pkt("READY", 0)
           y == Pkt("FRAMECOUNT", EndFrame(p))
<1>1. /\ CoreType /\ q \in Party /\ q # p /\ frame[p] \in Nat /\ EndFrame(p) \in Nat
      /\ chan[p] \in Seq(Packet)
  BY PeerFacts, Types DEF Inv, CoreType, EndFrame
<1>2. x \in Packet /\ Plain(x) /\ y \in Packet /\ Plain(y)
  BY <1>1, PlainSignal
<1>3. Append(chan[p], x) \in Seq(Packet)
  BY <1>1, <1>2, AppendOne
<1>4. chan[p] \o <<x>> = Append(chan[p], x)
      /\ Append(chan[p], x) \o <<y>> = Append(Append(chan[p], x), y)
  BY <1>1, <1>2, <1>3, AppendOne
<1>5. UNCHANGED <<delay, buffer, sums>>
  BY DEF SignalEnd, Negotiate
<1>6. CASE SignalEnd(p)
  <2>1. /\ pc[p] = "simulate" /\ pc' = [pc EXCEPT ![p] = "frame"]
        /\ frame' = [frame EXCEPT ![p] = @ + 1]
        /\ \/ chan' = [chan EXCEPT ![p] = @ \o <<x>> \o <<y>>]
           \/ chan' = [chan EXCEPT ![p] = Append(@, x)]
    BY <1>6 DEF SignalEnd, WantsEnd, NextFrame, ReadyToEnd
  <2>2. /\ pc'[p] = "frame" /\ pc'[q] = pc[q] /\ frame'[p] = frame[p] + 1 /\ frame'[q] = frame[q]
        /\ chan'[q] = chan[q]
        /\ chan'[p] = chan[p] \o <<x>> \o <<y>> \/ chan'[p] = Append(chan[p], x)
    BY <1>1, <2>1 DEF CoreType
  <2>3. chan'[p] = Append(Append(chan[p], x), y) \/ chan'[p] = Append(chan[p], x)
    BY <1>4, <2>2
  <2> HIDE DEF x, y
  <2> QED BY <1>2, <1>5, <2>1, <2>2, <2>3 DEF Still, Used
<1>7. CASE Negotiate(p)
  <2>1. /\ pc[p] \in Meeting /\ chan' = [chan EXCEPT ![p] = Append(@, x)]
        /\ Met(p) \/ UNCHANGED <<pc, frame>>
    BY <1>7 DEF Negotiate
  <2>2. chan'[q] = chan[q] /\ chan'[p] = Append(chan[p], x)
    BY <1>1, <2>1 DEF CoreType
  <2>3. /\ pc[p] # "frame" /\ pc[p] # "left"
        /\ pc'[q] = pc[q] /\ frame'[q] = frame[q]
        /\ frame'[p] = frame[p] \/ (frame'[p] = frame[p] + 1 /\ pc'[p] = "frame")
        /\ Used(p)' = Used(p) /\ pc'[p] # "input"
    <3>1. pc[p] # "frame" /\ pc[p] # "left" /\ pc[p] # "input"
      BY <2>1 DEF Meeting
    <3>2. UNCHANGED <<pc, frame>> => Used(p)' = Used(p)
      BY DEF Used
    <3> QED BY <1>1, <2>1, <3>1, <3>2, StillMet
  <2> HIDE DEF x, y
  <2> QED BY <1>2, <1>5, <2>2, <2>3 DEF Still
<1> QED BY <1>6, <1>7

LEMMA StillHear ==
  ASSUME Inv, MoreType, NEW p \in Party, HandleReady(p) \/ HandleFrameCount(p)
  PROVE  Still(p) /\ pc[p] # "left"
<1> DEFINE q == Peer(p)
           y == Pkt("FRAMECOUNT", EndFrame(p))
<1>1. /\ CoreType /\ q \in Party /\ q # p /\ frame[p] \in Nat /\ EndFrame(p) \in Nat
      /\ chan[p] \in Seq(Packet) /\ ReadyInv(p) /\ ready[p] \in R!Ready
  BY PeerFacts, Types DEF Inv, CoreType, EndFrame
<1>2. y \in Packet /\ Plain(y)
  BY <1>1, PlainSignal
<1>3. /\ pc[p] # "left" /\ pc[p] # "frame" /\ chan[q] # <<>> /\ Plain(Head(chan[q]))
      /\ Polls(p)
  BY DEF HandleReady, HandleFrameCount, Arrives, Polls, Meeting, Incoming, Plain, Input, Sum
<1>4. UNCHANGED <<delay, buffer, sums>>
  BY DEF HandleReady, HandleFrameCount, RefusePacket, TakeReady
<1>5. CASE RefusePacket(p)
  <2>1. frame' = frame /\ chan' = chan /\ pc'[p] = "left" /\ pc'[q] = pc[q]
    BY <1>1, <1>5 DEF RefusePacket, CoreType
  <2> QED BY <1>3, <1>4, <2>1 DEF Still
<1>6. ASSUME chan' = Taken(p), UNCHANGED <<pc, frame>> \/ (pc[p] \in Meeting /\ Met(p))
      PROVE  Still(p) /\ pc[p] # "left"
  <2>1. chan'[p] = chan[p] /\ chan'[q] = Tail(chan[q])
    BY <1>1, <1>6 DEF Taken, CoreType
  <2>2. UNCHANGED <<pc, frame>> => Used(p)' = Used(p)
    BY DEF Used
  <2>3. CASE UNCHANGED <<pc, frame>>
    BY <1>3, <1>4, <2>1, <2>2, <2>3 DEF Still
  <2>4. CASE pc[p] \in Meeting /\ Met(p)
    BY <1>1, <1>3, <1>4, <2>1, <2>4, StillMet DEF Still
  <2> QED BY <1>6, <2>3, <2>4
<1>7. CASE HandleFrameCount(p)
  <2>1. RefusePacket(p) \/ (chan' = Taken(p) /\ UNCHANGED <<pc, frame>>)
    BY <1>7 DEF HandleFrameCount
  <2> QED BY <1>5, <1>6, <2>1
<1>8. CASE TakeReady(p)
  <2>1. CASE ~R!MetByRemote(ready[p])
    <3>1. chan' = Taken(p) /\ UNCHANGED <<pc, frame>>
      BY <1>8, <2>1 DEF TakeReady
    <3> QED BY <1>6, <3>1
  <2>2. CASE R!MetByRemote(ready[p]) /\ ready[p].callback = "toEnd"
    <3>1. /\ chan' = [Taken(p) EXCEPT ![p] = @ \o <<>> \o <<y>>] /\ UNCHANGED <<pc, frame>>
      BY <1>8, <2>2 DEF TakeReady, ReadyToEnd
    <3>2. /\ Taken(p) \in [Party -> Seq(Packet)] /\ Taken(p)[p] = chan[p]
          /\ Taken(p)[q] = Tail(chan[q])
      <4>1. Tail(chan[q]) \in Seq(Packet)
        <5>1. chan[q] \in Seq(Packet)
          BY <1>1, Types
        <5> QED BY <1>3, <5>1
      <4> QED BY <1>1, <4>1 DEF Taken, CoreType
    <3>3. chan'[p] = chan[p] \o <<>> \o <<y>> /\ chan'[q] = Tail(chan[q])
      BY <1>1, <3>1, <3>2
    <3>4. chan'[p] = Append(chan[p], y)
      <4>1. chan[p] \o <<>> = chan[p] /\ chan[p] \o <<y>> = Append(chan[p], y)
        BY <1>1, <1>2, AppendOne
      <4> QED BY <3>3, <4>1
    <3>5. Used(p)' = Used(p)
      BY <3>1 DEF Used
    <3> HIDE DEF y
    <3> QED BY <1>2, <1>3, <1>4, <3>1, <3>3, <3>4, <3>5 DEF Still
  <2>3. CASE R!MetByRemote(ready[p]) /\ ready[p].callback = "toEnd2"
    <3>1. chan' = Taken(p) /\ UNCHANGED <<pc, frame>>
      BY <1>8, <2>3 DEF TakeReady
    <3> QED BY <1>6, <3>1
  <2>4. CASE R!MetByRemote(ready[p]) /\ ready[p].callback = "negotiate"
    <3>1. chan' = Taken(p) /\ Met(p)
      BY <1>8, <2>4 DEF TakeReady
    <3>2. pc[p] \in Meeting
      BY <1>1, <1>3, <2>4 DEF ReadyInv
    <3> QED BY <1>6, <3>1, <3>2
  <2>5. R!MetByRemote(ready[p]) => ready[p].callback \in {"toEnd", "toEnd2", "negotiate"}
    BY <1>1, ReadyFacts DEF ReadyInv
  <2> QED BY <2>1, <2>2, <2>3, <2>4, <2>5
<1> QED BY <1>5, <1>7, <1>8 DEF HandleReady

-----------------------------------------------------------------------------
(* The steps of a checksum and of an input.                                *)

LEMMA RingKept ==
  ASSUME delay \in Nat, NEW n \in Nat, NEW f \in Ring
  PROVE  \A m \in Nat :
           [f EXCEPT ![Entry(n)] = n][Entry(m)] = IF Entry(m) = Entry(n) THEN n ELSE f[Entry(m)]
<1>1. \A m \in Nat : Entry(m) \in 0..(ChecksumRoom - 1)
  BY EntryType
<1>2. \A e, g \in 0..(ChecksumRoom - 1) : [f EXCEPT ![e] = n][g] = IF g = e THEN n ELSE f[g]
  BY DEF Ring
<1> QED BY <1>1, <1>2

LEMMA OwnKept ==
  ASSUME SumsOK, delay \in Nat, NEW p \in Party, NEW n \in Nat,
         sums' = [sums EXCEPT ![p].own[Entry(n)] = n]
  PROVE  /\ \A m \in Nat : sums'[p].own[Entry(m)] =
              IF Entry(m) = Entry(n) THEN n ELSE sums[p].own[Entry(m)]
         /\ sums'[p].other = sums[p].other /\ sums'[Peer(p)] = sums[Peer(p)]
<1>1. /\ sums \in [Party -> [own : Ring, other : Ring]]
      /\ sums[p].own \in Ring /\ Peer(p) \in Party /\ Peer(p) # p
  BY PeerFacts DEF SumsOK
<1>2. /\ sums'[p].own = [sums[p].own EXCEPT ![Entry(n)] = n]
      /\ sums'[p].other = sums[p].other /\ sums'[Peer(p)] = sums[Peer(p)]
  BY <1>1
<1> QED BY <1>1, <1>2, RingKept

LEMMA OtherKept ==
  ASSUME SumsOK, delay \in Nat, NEW p \in Party, NEW n \in Nat,
         sums' = [sums EXCEPT ![p].other[Entry(n)] = n]
  PROVE  /\ \A m \in Nat : sums'[p].other[Entry(m)] =
              IF Entry(m) = Entry(n) THEN n ELSE sums[p].other[Entry(m)]
         /\ sums'[p].own = sums[p].own /\ sums'[Peer(p)] = sums[Peer(p)]
<1>1. /\ sums \in [Party -> [own : Ring, other : Ring]]
      /\ sums[p].other \in Ring /\ Peer(p) \in Party /\ Peer(p) # p
  BY PeerFacts DEF SumsOK
<1>2. /\ sums'[p].other = [sums[p].other EXCEPT ![Entry(n)] = n]
      /\ sums'[p].own = sums[p].own /\ sums'[Peer(p)] = sums[Peer(p)]
  BY <1>1
<1> QED BY <1>1, <1>2, RingKept

(* p has sent nothing from its frame on.                                   *)
LEMMA SentBefore ==
  ASSUME Inv, NEW p \in Party, pc[p] # "left", pc[p] \in {"frame", "input"}, pc[Peer(p)] # "left"
  PROVE  /\ Lo(Peer(p)) <= frame[p]
         /\ \A i \in 1 .. Len(chan[p]) : Input(chan[p][i]) => chan[p][i].frame < frame[p]
<1>1. Peer(p) \in Party /\ Peer(Peer(p)) = p
  BY PeerFacts
<1>2. PICK hi \in Nat : MaySent(p, hi) /\ Holds(chan[p], Lo(Peer(p)), hi)
  BY <1>1, LoFacts
<1>3. hi = frame[p]
  BY <1>2 DEF MaySent, Sent
<1> QED BY <1>2, <1>3 DEF Holds

LEMMA SumSendChecksum ==
  ASSUME Inv, SumsOK, SumsInv, NEW p \in Party, SendChecksum(p)
  PROVE  SumsInv'
<1> DEFINE q == Peer(p)
           n == frame[p]
           x == Pkt("CHECKSUM", n)
<1>1. /\ q \in Party /\ q # p /\ Peer(q) = p /\ (\A r \in Party : r = p \/ r = q)
      /\ CoreType /\ pc[p] = "frame"
  BY PeerFacts DEF Inv, SendChecksum
<1>2. /\ frame[p] \in Nat /\ delay \in Nat /\ chan[p] \in Seq(Packet) /\ frame[q] \in Nat
      /\ OwnSums(p) /\ OtherSums(p)
  BY <1>1, LoFacts DEF SumsInv
<1>3. /\ UNCHANGED <<delay, frame, buffer>> /\ pc' = [pc EXCEPT ![p] = "input"]
      /\ chan' = [chan EXCEPT ![p] = IF Checked(n) THEN Append(@, x) ELSE @]
      /\ sums' = IF Checked(n) THEN [sums EXCEPT ![p].own[Entry(n)] = n] ELSE sums
  BY DEF SendChecksum, Checked
<1>4. /\ pc'[p] = "input" /\ pc'[q] = pc[q] /\ chan'[q] = chan[q]
      /\ chan'[p] = IF Checked(n) THEN Append(chan[p], x) ELSE chan[p]
  BY <1>1, <1>3 DEF CoreType
<1>5. /\ sums'[p].other = sums[p].other /\ sums'[q] = sums[q]
      /\ \A m \in Nat : sums'[p].own[Entry(m)] =
           IF Checked(n) /\ Entry(m) = Entry(n) THEN n ELSE sums[p].own[Entry(m)]
  <2>1. CASE Checked(n)
    <3>1. sums' = [sums EXCEPT ![p].own[Entry(n)] = n]
      BY <1>3, <2>1
    <3>2. n \in Nat /\ delay \in Nat
      BY <1>2
    <3> HIDE DEF n
    <3>3. /\ \A m \in Nat : sums'[p].own[Entry(m)] =
               IF Entry(m) = Entry(n) THEN n ELSE sums[p].own[Entry(m)]
          /\ sums'[p].other = sums[p].other /\ sums'[q] = sums[q]
      BY <3>1, <3>2, OwnKept
    <3> QED BY <2>1, <3>3
  <2>2. CASE ~Checked(n)
    BY <1>3, <2>2
  <2> QED BY <2>1, <2>2
<1>6. /\ \A m \in Nat : Entry(m)' = Entry(m)
      /\ Held(p)' = Held(p) /\ Held(q)' = Held(q) /\ Lo(p)' = Lo(p) /\ Lo(q)' = Lo(q)
  BY <1>1, <1>3, <1>4, <1>5 DEF Held, Lo, Used, Entry, ChecksumRoom
<1>7. OwnSums(p)'
  <2>1. ASSUME NEW m \in Nat, Checked(m), n < m + 2 * delay + 2, m < n \/ m = n
        PROVE  sums'[p].own[Entry(m)] = m
    <3>1. CASE m = n
      BY <1>5, <2>1, <3>1
    <3>2. CASE m < n
      <4>1. sums[p].own[Entry(m)] = m
        BY <1>2, <2>1, <3>2 DEF OwnSums
      <4>2. Checked(n) => Entry(m) # Entry(n)
        BY <1>2, <2>1, <3>2, EntryApart
      <4> QED BY <1>5, <4>1, <4>2
    <3> QED BY <2>1, <3>1, <3>2
  <2> QED BY <1>3, <1>6, <2>1 DEF OwnSums, Checked
<1>8. OtherSums(p)'
  BY <1>1, <1>2, <1>3, <1>4, <1>6 DEF OtherSums, Checked
<1>9. ASSUME pc[q] # "left" PROVE OwnSums(q)' /\ OtherSums(q)'
  <2>1. OwnSums(q) /\ OtherSums(q) /\ Lo(q) \in Nat
    BY <1>1, <1>9, LoFacts DEF SumsInv
  <2>2. OwnSums(q)'
    BY <1>3, <1>4, <1>5, <1>6, <2>1 DEF OwnSums, Checked
  <2>3. Follows(chan[p], Lo(q), n, Held(q))
    BY <1>1, <2>1 DEF OtherSums
  <2>4. /\ Lo(q) <= n
        /\ \A i \in 1 .. Len(chan[p]) : Input(chan[p][i]) => chan[p][i].frame < n
    BY <1>1, <1>9, SentBefore
  <2>5. /\ Follows(chan'[p], Lo(q), n, Held(q))
        /\ Checked(n) => Comes(chan'[p], n, Len(chan'[p]))
    <3>1. CASE ~Checked(n)
      BY <1>4, <2>3, <3>1
    <3>2. CASE Checked(n)
      <4>1. x \in Packet /\ Sum(x) /\ ~Input(x) /\ x.frame = n
        BY <1>2, PacketFacts DEF PacketType, Sum, Input
      <4>2. chan'[p] = Append(chan[p], x) /\ n <= n
        BY <1>2, <1>4, <3>2
      <4> HIDE DEF x
      <4> QED BY <1>2, <2>1, <2>3, <2>4, <3>2, <4>1, <4>2, FollowsAppend
    <3> QED BY <3>1, <3>2
  <2> QED BY <1>1, <1>3, <1>4, <1>6, <2>1, <2>2, <2>5 DEF OtherSums, Checked
<1> QED BY <1>1, <1>4, <1>7, <1>8, <1>9 DEF SumsInv

LEMMA SumLocalInput ==
  ASSUME Inv, SumsInv, NEW p \in Party, LocalInput(p)
  PROVE  SumsInv'
<1> DEFINE q == Peer(p)
           n == frame[p]
           x == Pkt("BATTLEINPUT", n)
<1>1. /\ q \in Party /\ q # p /\ Peer(q) = p /\ (\A r \in Party : r = p \/ r = q)
      /\ CoreType /\ pc[p] = "input"
  BY PeerFacts DEF Inv, LocalInput
<1>2. /\ frame[p] \in Nat /\ delay \in Nat /\ chan[p] \in Seq(Packet) /\ frame[q] \in Nat
      /\ OwnSums(p) /\ OtherSums(p)
  BY <1>1, LoFacts DEF SumsInv
<1>3. /\ UNCHANGED <<delay, frame, sums>> /\ pc' = [pc EXCEPT ![p] = "remote"]
      /\ chan' = [chan EXCEPT ![p] = Append(@, x)]
      /\ buffer' = [buffer EXCEPT ![p].own =
           IF Len(buffer[p].own) < BufferSize THEN Append(buffer[p].own, n + 1) ELSE buffer[p].own]
  BY DEF LocalInput
<1>4. /\ pc'[p] = "remote" /\ pc'[q] = pc[q] /\ chan'[q] = chan[q]
      /\ chan'[p] = Append(chan[p], x)
      /\ buffer'[p].other = buffer[p].other /\ buffer'[q] = buffer[q]
  <2>1. PICK v : buffer' = [buffer EXCEPT ![p].own = v]
    BY <1>3
  <2>2. buffer'[p].other = buffer[p].other /\ buffer'[q] = buffer[q]
    BY <1>1, <2>1 DEF CoreType
  <2> QED BY <1>1, <1>3, <2>2 DEF CoreType
<1>5. /\ \A m \in Nat : Entry(m)' = Entry(m)
      /\ Held(p)' = Held(p) /\ Held(q)' = Held(q) /\ Lo(p)' = Lo(p) /\ Lo(q)' = Lo(q)
  BY <1>1, <1>3, <1>4 DEF Held, Lo, Used, Entry, ChecksumRoom
<1>6. OwnSums(p)'
  BY <1>1, <1>2, <1>3, <1>5 DEF OwnSums, Checked
<1>7. OtherSums(p)'
  BY <1>1, <1>2, <1>3, <1>4, <1>5 DEF OtherSums, Checked
<1>8. ASSUME pc[q] # "left" PROVE OwnSums(q)' /\ OtherSums(q)'
  <2>1. OwnSums(q) /\ OtherSums(q) /\ Lo(q) \in Nat
    BY <1>1, <1>8, LoFacts DEF SumsInv
  <2>2. OwnSums(q)'
    BY <1>3, <1>4, <1>5, <2>1 DEF OwnSums, Checked
  <2>3. /\ Follows(chan[p], Lo(q), n, Held(q))
        /\ Checked(n) => n \in Held(q) \/ Comes(chan[p], n, Len(chan[p]))
    BY <1>1, <2>1 DEF OtherSums
  <2>4. x \in Packet /\ Input(x) /\ ~Sum(x) /\ x.frame = n
    BY <1>2, PacketFacts DEF PacketType, Sum, Input
  <2>5. Follows(chan'[p], Lo(q), n, Held(q))
    <3> HIDE DEF x
    <3> QED BY <1>2, <1>4, <2>1, <2>3, <2>4, FollowsAppend
  <2> QED BY <1>1, <1>3, <1>4, <1>5, <2>1, <2>2, <2>5 DEF OtherSums, Checked
<1> QED BY <1>1, <1>4, <1>6, <1>7, <1>8 DEF SumsInv

LEMMA SumUseInputs ==
  ASSUME Inv, SumsInv, NEW p \in Party, UseInputs(p)
  PROVE  SumsInv' /\ fault' = fault
<1> DEFINE q == Peer(p)
<1>1. /\ q \in Party /\ q # p /\ Peer(q) = p /\ (\A r \in Party : r = p \/ r = q)
      /\ CoreType /\ pc[p] \in {"remote", "stalled"} /\ buffer[p].other # <<>>
  BY PeerFacts DEF Inv, UseInputs
<1>2. /\ frame[p] \in Nat /\ delay \in Nat /\ OwnSums(p) /\ OtherSums(p)
  BY <1>1, LoFacts DEF SumsInv
<1>3. Verifies(p)
  BY <1>1, SumsVerify
<1>4. /\ UNCHANGED <<delay, frame, sums, chan, fault>> /\ pc' = [pc EXCEPT ![p] = "simulate"]
      /\ buffer' = [buffer EXCEPT ![p].own = Tail(@), ![p].other = Tail(@)]
  BY <1>3 DEF UseInputs
<1>5. /\ pc'[p] = "simulate" /\ pc'[q] = pc[q] /\ buffer'[q] = buffer[q]
      /\ buffer'[p].other = Tail(buffer[p].other)
  BY <1>1, <1>4 DEF CoreType
<1>6. Lo(p)' = Lo(p) /\ Lo(q)' = Lo(q)
  <2>1. PICK k \in Nat : k + 1 = Len(buffer[p].other) /\ Len(Tail(buffer[p].other)) = k
    <3>1. buffer[p].other \in Seq(Nat)
      BY <1>1, Types
    <3>2. /\ Len(buffer[p].other) \in Nat /\ Len(buffer[p].other) > 0
          /\ Len(Tail(buffer[p].other)) = Len(buffer[p].other) - 1
      BY <1>1, <3>1
    <3>3. Len(buffer[p].other) - 1 \in Nat /\ (Len(buffer[p].other) - 1) + 1 = Len(buffer[p].other)
      BY <3>2
    <3> QED BY <3>2, <3>3
  <2>2. Used(p) = frame[p] /\ Used(p)' = frame[p] + 1
    BY <1>1, <1>4, <1>5 DEF Used
  <2>3. Lo(p) = frame[p] + (k + 1) - delay /\ Lo(p)' = (frame[p] + 1) + k - delay
    BY <1>4, <1>5, <2>1, <2>2 DEF Lo
  <2>4. Lo(q)' = Lo(q)
    BY <1>4, <1>5 DEF Lo, Used
  <2>5. frame[p] + (k + 1) - delay = (frame[p] + 1) + k - delay
    BY <1>2
  <2> QED BY <2>3, <2>4, <2>5
<1>7. /\ \A m \in Nat : Entry(m)' = Entry(m)
      /\ Held(p)' = Held(p) /\ Held(q)' = Held(q)
  BY <1>4 DEF Held, Entry, ChecksumRoom
<1>8. OwnSums(p)' /\ OtherSums(p)'
  BY <1>1, <1>2, <1>4, <1>5, <1>6, <1>7 DEF OwnSums, OtherSums, Checked
<1>9. pc[q] # "left" => OwnSums(q)' /\ OtherSums(q)'
  BY <1>1, <1>4, <1>5, <1>6, <1>7 DEF SumsInv, OwnSums, OtherSums, Checked
<1> QED BY <1>1, <1>4, <1>5, <1>8, <1>9 DEF SumsInv

LEMMA SumTakeInput ==
  ASSUME Inv, SumsInv, NEW p \in Party, Arrives(p, "BATTLEINPUT"), pc[p] # "left",
         buffer' = [buffer EXCEPT ![p].other = Append(@, Incoming(p).frame + 1)],
         chan' = Taken(p), UNCHANGED <<delay, pc, frame, sums>>
  PROVE  SumsInv'
<1> DEFINE q == Peer(p)
<1>1. /\ q \in Party /\ q # p /\ Peer(q) = p /\ (\A r \in Party : r = p \/ r = q) /\ CoreType
      /\ Head(chan[q]).type = "BATTLEINPUT" /\ chan[q] # <<>>
  BY PeerFacts DEF Inv, Arrives, Incoming
<1>2. /\ frame[p] \in Nat /\ delay \in Nat /\ frame[q] \in Nat /\ Lo(p) \in Nat
      /\ chan[q] \in Seq(Packet) /\ OwnSums(p) /\ OtherSums(p)
  BY LoFacts DEF SumsInv
<1>3. PICK hi \in Nat : Holds(chan[q], Lo(p), hi)
  BY LoFacts
<1>4. Input(Head(chan[q])) /\ ~Sum(Head(chan[q])) /\ Head(chan[q]).frame = Lo(p)
  <2>1. Input(Head(chan[q])) /\ ~Sum(Head(chan[q]))
    BY <1>1 DEF Input, Sum
  <2> QED BY <1>1, <1>2, <1>3, <2>1, HoldsTail
<1>5. /\ buffer'[q] = buffer[q] /\ chan'[p] = chan[p] /\ chan'[q] = Tail(chan[q])
      /\ buffer'[p].other = Append(buffer[p].other, Incoming(p).frame + 1)
  BY <1>1 DEF CoreType, Taken
<1>6. Lo(p)' = Lo(p) + 1 /\ Lo(q)' = Lo(q)
  <2>1. PICK k \in Nat : k = Len(buffer[p].other) /\ Len(buffer'[p].other) = k + 1
    <3>1. buffer[p].other \in Seq(Nat)
      BY <1>1, Types
    <3>2. Incoming(p).frame + 1 \in Nat
      BY <1>1, IncomingType
    <3>3. PICK s \in Seq(Nat), v \in Nat : s = buffer[p].other /\ buffer'[p].other = Append(s, v)
      BY <1>5, <3>1, <3>2
    <3>4. Len(s) \in Nat /\ Len(Append(s, v)) = Len(s) + 1
      OBVIOUS
    <3> QED BY <3>3, <3>4
  <2>2. Used(p)' = Used(p) /\ Used(q)' = Used(q) /\ Used(p) \in Nat
    BY <1>2 DEF Used
  <2>3. Lo(p) = Used(p) + k - delay /\ Lo(p)' = Used(p) + (k + 1) - delay
    BY <2>1, <2>2 DEF Lo
  <2>4. Lo(q)' = Lo(q)
    BY <1>5, <2>2 DEF Lo
  <2>5. \A u, l, c \in Nat : u + (l + 1) - c = (u + l - c) + 1
    OBVIOUS
  <2> QED BY <1>2, <2>2, <2>3, <2>4, <2>5
<1>7. /\ \A m \in Nat : Entry(m)' = Entry(m)
      /\ Held(p)' = Held(p) /\ Held(q)' = Held(q)
  BY DEF Held, Entry, ChecksumRoom
<1>8. /\ Follows(Tail(chan[q]), Lo(p) + 1, frame[q], Held(p)) /\ (Checked(Lo(p)) => Lo(p) \in Held(p))
      /\ \A n : Comes(chan[q], n, Len(chan[q])) => Comes(Tail(chan[q]), n, Len(Tail(chan[q])))
  BY <1>1, <1>2, <1>4, FollowsTail DEF OtherSums
<1>9. \A n \in Nat : Checked(n) /\ n < Lo(p) + 1 /\ frame[p] <= n + delay => n \in Held(p)
  <2>1. \A n \in Nat : n < Lo(p) + 1 => n < Lo(p) \/ n = Lo(p)
    BY <1>2
  <2> QED BY <1>2, <1>8, <2>1 DEF OtherSums
<1>10. OwnSums(p)'
  BY <1>2, <1>7 DEF OwnSums, Checked
<1>11. OtherSums(p)'
  BY <1>1, <1>2, <1>5, <1>6, <1>7, <1>8, <1>9 DEF OtherSums, Checked
<1>12. pc[q] # "left" => OwnSums(q)' /\ OtherSums(q)'
  BY <1>1, <1>5, <1>6, <1>7 DEF SumsInv, OwnSums, OtherSums, Checked
<1> QED BY <1>1, <1>10, <1>11, <1>12 DEF SumsInv

LEMMA SumTakeSum ==
  ASSUME Inv, SumsOK, SumsInv, NEW p \in Party, Arrives(p, "CHECKSUM"), pc[p] # "left",
         sums' = IF Incoming(p).frame % Interval = 0 /\ InWindow(p, Incoming(p).frame)
                 THEN [sums EXCEPT ![p].other[Entry(Incoming(p).frame)] = Incoming(p).frame]
                 ELSE sums,
         chan' = Taken(p), UNCHANGED <<delay, pc, frame, buffer>>
  PROVE  SumsInv'
<1> DEFINE q == Peer(p)
<1>1. /\ q \in Party /\ q # p /\ Peer(q) = p /\ (\A r \in Party : r = p \/ r = q) /\ CoreType
      /\ Head(chan[q]).type = "CHECKSUM" /\ chan[q] # <<>>
  BY PeerFacts DEF Inv, Arrives, Incoming
<1>2. /\ frame[p] \in Nat /\ delay \in Nat /\ frame[q] \in Nat /\ Lo(p) \in Nat
      /\ chan[q] \in Seq(Packet) /\ OwnSums(p) /\ OtherSums(p)
      /\ frame[p] <= Lo(p) + delay /\ frame[q] <= frame[p] + delay + 1
  BY LoFacts DEF SumsInv
<1>3. PICK n \in Nat : n = Incoming(p).frame
  BY <1>1, IncomingType
<1>4. Sum(Head(chan[q])) /\ Head(chan[q]).frame = n
  BY <1>1, <1>3 DEF Sum, Incoming
<1>5. /\ Checked(n) /\ Lo(p) <= n /\ n <= frame[q]
      /\ Follows(Tail(chan[q]), Lo(p), frame[q], Held(p) \cup {n})
      /\ \A m : Comes(chan[q], m, Len(chan[q])) =>
           Comes(Tail(chan[q]), m, Len(Tail(chan[q]))) \/ m = n
  BY <1>1, <1>2, <1>4, FollowsTail DEF OtherSums
<1>6. sums' = [sums EXCEPT ![p].other[Entry(n)] = n]
  <2>1. InWindow(p, n)
    BY <1>2, <1>5 DEF InWindow
  <2> QED BY <1>3, <1>5, <2>1 DEF Checked
<1>7. /\ \A m \in Nat : sums'[p].other[Entry(m)] =
           IF Entry(m) = Entry(n) THEN n ELSE sums[p].other[Entry(m)]
      /\ sums'[p].own = sums[p].own /\ sums'[q] = sums[q]
  <2>1. delay \in Nat
    BY <1>2
  <2> QED BY <1>6, <2>1, OtherKept
<1>8. \A m \in Nat : Entry(m)' = Entry(m)
  BY DEF Entry, ChecksumRoom
<1>9. /\ n \in Held(p)'
      /\ \A m \in Held(p) : Checked(m) /\ m < n + 2 * delay + 2 /\ n < m + 2 * delay + 2
           => m \in Held(p)'
  <2>1. ASSUME NEW m \in Held(p), Checked(m), m < n + 2 * delay + 2, n < m + 2 * delay + 2
        PROVE  m \in Held(p)'
    <3>1. m \in Nat /\ sums[p].other[Entry(m)] = m
      BY DEF Held
    <3>2. Entry(m) = Entry(n) => m = n
      <4>1. m <= n \/ n <= m
        BY <3>1
      <4> QED BY <1>2, <1>5, <2>1, <3>1, <4>1, EntryApart
    <3> QED BY <1>7, <1>8, <3>1, <3>2 DEF Held
  <2> QED BY <1>7, <1>8, <2>1 DEF Held
<1>10. /\ Lo(p)' = Lo(p) /\ Lo(q)' = Lo(q) /\ Held(q)' = Held(q)
       /\ chan'[p] = chan[p] /\ chan'[q] = Tail(chan[q])
  BY <1>1, <1>7, <1>8 DEF Held, Lo, Used, CoreType, Taken
<1>11. ASSUME NEW m \in Nat, Checked(m), m < Lo(p), frame[p] <= m + delay PROVE m \in Held(p)'
  <2>1. m \in Held(p)
    BY <1>2, <1>11 DEF OtherSums
  <2>2. m < n + 2 * delay + 2 /\ n < m + 2 * delay + 2
    BY <1>2, <1>5, <1>11, SMTT(30)
  <2> QED BY <1>9, <1>11, <2>1, <2>2
<1>12. Follows(Tail(chan[q]), Lo(p), frame[q], Held(p)')
  <2>1. PICK hi \in Nat : Holds(chan[q], Lo(p), hi) /\ hi <= frame[q] + 1
    <3>1. PICK hi \in Nat : MaySent(q, hi) /\ Holds(chan[q], Lo(p), hi)
      BY LoFacts
    <3> QED BY <1>2, <3>1 DEF MaySent, Sent
  <2>2. Holds(Tail(chan[q]), Lo(p), hi) /\ Tail(chan[q]) \in Seq(Packet)
    <3>1. ~Input(Head(chan[q]))
      BY <1>4 DEF Input, Sum
    <3> QED BY <1>1, <1>2, <2>1, <3>1, HoldsTail
  <2>3. ASSUME NEW i \in 1 .. Len(Tail(chan[q])), Input(Tail(chan[q])[i]),
               Checked(Tail(chan[q])[i].frame), Tail(chan[q])[i].frame \in Held(p) \cup {n}
        PROVE  Tail(chan[q])[i].frame \in Held(p)'
    <3>1. PICK m \in Nat : m = Tail(chan[q])[i].frame
      BY <2>3 DEF Held
    <3>2. Lo(p) <= m /\ m < hi
      BY <2>2, <2>3, <3>1 DEF Holds
    <3>3. m <= frame[q] /\ frame[q] \in Nat
      BY <1>2, <2>1, <3>2
    <3>4. \A a, b \in Nat : Lo(p) <= a /\ b <= frame[q] => b < a + 2 * delay + 2
      <4>1. PICK l, f, g, d \in Nat :
              l = Lo(p) /\ f = frame[p] /\ g = frame[q] /\ d = delay /\ f <= l + d /\ g <= f + d + 1
        BY <1>2
      <4> QED BY <4>1, SMTT(30)
    <3>5. Lo(p) <= n /\ n <= frame[q]
      BY <1>5
    <3>6. m < n + 2 * delay + 2 /\ n < m + 2 * delay + 2
      BY <3>2, <3>3, <3>4, <3>5
    <3> QED BY <1>9, <2>3, <3>1, <3>6
  <2>4. frame[q] <= frame[q]
    BY <1>2
  <2> QED BY <1>2, <1>5, <2>2, <2>3, <2>4, FollowsMore
<1>13. pc[q] = "input" /\ Checked(frame[q]) =>
         frame[q] \in Held(p)' \/ Comes(Tail(chan[q]), frame[q], Len(Tail(chan[q])))
  <2>1. SUFFICES ASSUME pc[q] = "input", Checked(frame[q]), frame[q] \in Held(p)
                 PROVE  frame[q] \in Held(p)'
    BY <1>2, <1>5, <1>9 DEF OtherSums
  <2>2. frame[q] < n + 2 * delay + 2 /\ n < frame[q] + 2 * delay + 2
    BY <1>2, <1>5
  <2> QED BY <1>9, <2>1, <2>2
<1>14. OwnSums(p)'
  BY <1>2, <1>7, <1>8 DEF OwnSums, Checked
<1>15. OtherSums(p)'
  BY <1>1, <1>10, <1>11, <1>12, <1>13 DEF OtherSums, Checked
<1>16. pc[q] # "left" => OwnSums(q)' /\ OtherSums(q)'
  BY <1>1, <1>7, <1>8, <1>10 DEF SumsInv, OwnSums, OtherSums, Checked
<1> QED BY <1>1, <1>14, <1>15, <1>16 DEF SumsInv

LEMMA SumRefuse ==
  ASSUME Inv, SumsInv, NEW p \in Party, pc[p] # "left", RefusePacket(p)
  PROVE  SumsInv'
<1>1. CoreType /\ Peer(p) \in Party /\ Peer(p) # p
  BY PeerFacts DEF Inv
<1>2. UNCHANGED <<delay, buffer, sums, frame, chan>> /\ pc'[p] = "left" /\ pc'[Peer(p)] = pc[Peer(p)]
  BY <1>1 DEF RefusePacket, CoreType
<1>3. Still(p)
  BY <1>2 DEF Still
<1> QED BY <1>3, StillStep

LEMMA SumHear ==
  ASSUME Inv, SumsOK, SumsInv, NEW p \in Party, HandleBattleInput(p) \/ HandleChecksum(p)
  PROVE  SumsInv'
<1>1. pc[p] # "left"
  BY DEF HandleBattleInput, HandleChecksum, Arrives, Polls, Meeting
<1>2. CASE RefusePacket(p)
  BY <1>1, <1>2, SumRefuse
<1>3. CASE HandleBattleInput(p) /\ ~RefusePacket(p)
  BY <1>1, <1>3, SumTakeInput DEF HandleBattleInput
<1>4. CASE HandleChecksum(p) /\ ~RefusePacket(p)
  BY <1>1, <1>4, SumTakeSum DEF HandleChecksum
<1> QED BY <1>2, <1>3, <1>4

-----------------------------------------------------------------------------
(* The whole battle.                                                       *)

LEMMA SumInit == Init => SumsInv /\ NoFalseSyncLoss
<1> SUFFICES ASSUME Init PROVE SumsInv /\ NoFalseSyncLoss
  OBVIOUS
<1>1. delay \in Nat
  BY DelayAssumption DEF Init
<1>2. ASSUME NEW p \in Party PROVE OwnSums(p) /\ OtherSums(p) /\ fault[p] # "sync"
  <2>1. /\ Peer(p) \in Party /\ pc[p] = "frame" /\ frame[p] = 0 /\ fault[p] = "none"
        /\ pc[Peer(p)] = "frame" /\ chan[Peer(p)] = <<>> /\ Len(chan[Peer(p)]) = 0
        /\ buffer[p].other = [i \in 1..delay |-> 0]
    BY PeerFacts DEF Init
  <2>2. Lo(p) = 0
    <3>1. PICK k \in Nat : k = Len(buffer[p].other) /\ k = delay
      BY <1>1, <2>1, RightFiller
    <3>2. Used(p) = 0
      BY <2>1 DEF Used
    <3> QED BY <3>1, <3>2 DEF Lo
  <2>3. OwnSums(p)
    BY <2>1 DEF OwnSums
  <2>4. Follows(chan[Peer(p)], Lo(p), frame[Peer(p)], Held(p))
    BY <2>1 DEF Follows
  <2> QED BY <2>1, <2>2, <2>3, <2>4 DEF OtherSums
<1> QED BY <1>2 DEF SumsInv, NoFalseSyncLoss

LEMMA SumStep ==
  ASSUME Inv, MoreType, SumsOK, SumsInv, [Next]_vars
  PROVE  SumsInv' /\ (NoFalseSyncLoss => NoFalseSyncLoss')
<1>1. fault' = fault => (NoFalseSyncLoss => NoFalseSyncLoss')
  BY DEF NoFalseSyncLoss
<1>2. ASSUME NEW p \in Party, Play(p) PROVE SumsInv' /\ (NoFalseSyncLoss => NoFalseSyncLoss')
  <2>1. CASE SendChecksum(p)
    BY <1>1, <2>1, SumSendChecksum DEF SendChecksum
  <2>2. CASE LocalInput(p)
    BY <1>1, <2>2, SumLocalInput DEF LocalInput
  <2>3. CASE UseInputs(p)
    BY <1>1, <2>3, SumUseInputs
  <2>4. CASE SignalEnd(p) \/ Negotiate(p)
    <3>1. fault' = fault
      BY <2>4 DEF SignalEnd, Negotiate
    <3> QED BY <1>1, <2>4, <3>1, StillSpeak, StillStep
  <2>5. CASE \/ Stall(p) \/ PlayOn(p) \/ ReachEndFrame(p) \/ AwaitFrameCount(p) \/ Awaited(p)
             \/ EndBattle(p)
    <3>1. fault' = fault /\ pc[p] # "left"
      BY <2>5 DEF Stall, PlayOn, ReachEndFrame, AwaitFrameCount, Awaited, EndBattle, WantsEnd
    <3> QED BY <1>1, <2>5, <3>1, StillPlay, StillStep
  <2> QED BY <1>2, <2>1, <2>2, <2>3, <2>4, <2>5 DEF Play
<1>3. ASSUME NEW p \in Party, Receive(p) PROVE SumsInv' /\ (NoFalseSyncLoss => NoFalseSyncLoss')
  <2>1. SumsInv'
    BY <1>3, SumHear, StillHear, StillStep DEF Receive
  <2>2. fault' = fault \/ RefusePacket(p)
    BY <1>3 DEF Receive, HandleBattleInput, HandleChecksum, HandleReady, HandleFrameCount, TakeReady
  <2>3. RefusePacket(p) => (NoFalseSyncLoss => NoFalseSyncLoss')
    <3>1. Incoming(p).type # "sync"
      <4>1. \E t : Arrives(p, t)
        BY <1>3 DEF Receive, HandleBattleInput, HandleChecksum, HandleReady, HandleFrameCount
      <4> QED BY <4>1, IncomingType DEF Inv, PacketType
    <3> QED BY <3>1 DEF RefusePacket, NoFalseSyncLoss, MoreType
  <2> QED BY <1>1, <2>1, <2>2, <2>3
<1>4. ASSUME NEW p \in Party, PeerLost(p) \/ Lose(p)
      PROVE  SumsInv' /\ (NoFalseSyncLoss => NoFalseSyncLoss')
  <2>1. Lose(p) /\ pc[p] # "left" /\ fault' = fault
    BY <1>4 DEF PeerLost, Lose
  <2> QED BY <1>1, <2>1, StillPlay, StillStep
<1>5. CASE UNCHANGED vars
  <2>1. UNCHANGED <<delay, pc, frame, buffer, sums, chan, fault>>
    BY <1>5 DEF vars
  <2>2. \A p \in Party : (OwnSums(p) => OwnSums(p)') /\ (OtherSums(p) => OtherSums(p)')
    BY <2>1 DEF OwnSums, OtherSums, Held, Lo, Used, Entry, ChecksumRoom, Checked
  <2> QED BY <1>1, <2>1, <2>2 DEF SumsInv
<1> QED BY <1>2, <1>3, <1>4, <1>5 DEF Next, Done

LEMMA SumsThere == Spec => [](SumsInv /\ NoFalseSyncLoss)
<1> DEFINE Base == Inv /\ MoreType /\ SumsOK /\ MeetInv /\ NoPacketRefused
<1>1. Init => SumsInv /\ NoFalseSyncLoss
  BY SumInit
<1>2. Base /\ SumsInv /\ NoFalseSyncLoss /\ [Next]_vars => SumsInv' /\ NoFalseSyncLoss'
  BY SumStep
<1>3. Spec => []Base
  BY Together
<1> QED BY <1>1, <1>2, <1>3, PTL DEF Spec

(* No battle is aborted for a loss of synchronisation while the machines   *)
(* use the same inputs: both checksums of a frame are in their ring        *)
(* buffers when verifyChecksums compares them, for any input delay, any    *)
(* interval between checksums and any order of the steps (checkbuf.c, and  *)
(* the window of PacketHandler_Checksum).                                  *)
THEOREM SumsMatch == Spec => []NoFalseSyncLoss
BY SumsThere, PTL

(* The input buffers, the ring buffers of the checksums and the window of  *)
(* frames are large enough for every input delay and interval: nothing     *)
(* that arrives is refused, overwritten too early or discarded wrongly.    *)
THEOREM RoomForAll == Spec => []BuffersSuffice
<1>1. Inv /\ MoreType /\ SumsOK /\ NoPacketRefused /\ NoFalseSyncLoss => BuffersSuffice
  <2>1. \A m, n, d \in Nat : m <= n + d + 1 => m - n <= d + 1
    OBVIOUS
  <2>2. Inv => NeverFarAhead
    BY <2>1 DEF Inv, CoreType, NotFar, NeverFarAhead
  <2>3. Inv /\ MoreType /\ SumsOK => TypeOK
    BY TypeParts DEF Inv
  <2> QED BY <2>2, <2>3 DEF BuffersSuffice
<1> QED BY <1>1, Together, SumsThere, PTL
=============================================================================
