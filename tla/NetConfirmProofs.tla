--------------------------- MODULE NetConfirmProofs ---------------------------
(***************************************************************************)
(* Proofs about NetConfirm: type correctness; the inductive invariant of   *)
(* NetConfirmInv, with what is left of it once a CANCEL has come too late; *)
(* the safety properties that follow from it; and that the negotiation     *)
(* implements Agreement.                                                   *)
(***************************************************************************)
EXTENDS NetConfirmInv, SequenceTheorems, TLAPS

-----------------------------------------------------------------------------
(* Parties and packets.                                                    *)

(* Two parties: each is the peer of the other.                             *)
LEMMA PeerFacts ==
  ASSUME NEW p \in Party
  PROVE  /\ Peer(p) \in Party
         /\ Peer(p) # p
         /\ Peer(Peer(p)) = p
         /\ \A q \in Party : q = p \/ q = Peer(p)
<1>1. PICK a \in Party, b \in Party : a # b /\ Party = {a, b}
  BY PartyAssumption
<1>2. Peer(p) \in Party /\ Peer(p) # p
  <2>1. \E q \in Party : q # p
    BY <1>1
  <2> QED BY <2>1 DEF Peer
<1>3. Peer(Peer(p)) \in Party /\ Peer(Peer(p)) # Peer(p)
  <2>1. \E q \in Party : q # Peer(p)
    BY <1>1
  <2> QED BY <2>1 DEF Peer
<1> QED BY <1>1, <1>2, <1>3

(* The type of a packet; settings packets are no control packets.          *)
LEMMA PacketType ==
  /\ \A x \in Packet : x.type \in ControlType \cup UpdateType
  /\ \A x \in UpdatePacket : x \in Packet /\ x.type \in UpdateType
  /\ \A t \in ControlType : Just(t) \in Seq(Packet)
  /\ \A t \in ControlType : t \notin UpdateType
  /\ Seq(UpdatePacket) \subseteq Seq(Packet)
<1>1. \A x \in [type : ControlType] : x.type \in ControlType
  OBVIOUS
<1>2. \A t \in ControlType : [type |-> t] \in Packet
  BY DEF Packet
<1>3. Seq(UpdatePacket) \subseteq Seq(Packet)
  BY SeqMonotonic, UpdatePacket \subseteq Packet DEF Packet
<1> QED BY <1>1, <1>2, <1>3, UpdateAssumption DEF Packet, UpdateType, ControlType, Just

(* What a handler sends in answer to settings is a sequence of settings.   *)
LEMMA ReplyIsSeq == \A r \in Replies : r \in Seq(UpdatePacket)
<1> SUFFICES ASSUME NEW n \in 0..MaxReply, NEW r \in [1..n -> UpdatePacket]
             PROVE  r \in Seq(UpdatePacket)
  BY DEF Replies
<1> QED BY BoundAssumption, SeqDef

-----------------------------------------------------------------------------
(* Channels: what remains after a packet is taken, what is added.          *)

LEMMA TailOfChannel ==
  ASSUME NEW s \in Seq(Packet), s # <<>>
  PROVE  /\ Head(s) \in Packet /\ Head(s) = s[1]
         /\ Tail(s) \in Seq(Packet)
         /\ Len(s) \in Nat \ {0} /\ Len(Tail(s)) = Len(s) - 1
         /\ DOMAIN s = 1..Len(s) /\ DOMAIN Tail(s) = 1..(Len(s) - 1)
         /\ \A i \in DOMAIN Tail(s) : i + 1 \in DOMAIN s /\ Tail(s)[i] = s[i + 1]
         /\ \A i \in DOMAIN s : i = 1 \/ i - 1 \in DOMAIN Tail(s)
<1>1. Len(s) \in Nat \ {0}
  BY EmptySeq
<1>2. Tail(s) \in Seq(Packet) /\ Len(Tail(s)) = Len(s) - 1
      /\ Head(s) \in Packet
      /\ \A i \in 1 .. Len(Tail(s)) : Tail(s)[i] = s[i+1]
  BY HeadTailProperties
<1>3. DOMAIN s = 1..Len(s) /\ DOMAIN Tail(s) = 1..Len(Tail(s))
  BY <1>2, LenProperties
<1>4. Head(s) = s[1]
  OBVIOUS
<1> QED BY <1>1, <1>2, <1>3, <1>4

(* A packet of a type is the first one or among the rest.                  *)
LEMMA HasTail ==
  ASSUME NEW s \in Seq(Packet), s # <<>>, NEW t
  PROVE  Has(s, t) <=> Head(s).type = t \/ Has(Tail(s), t)
<1>1. Has(s, t) => Head(s).type = t \/ Has(Tail(s), t)
  <2> SUFFICES ASSUME NEW i \in DOMAIN s, s[i].type = t, i # 1
               PROVE  Has(Tail(s), t)
    BY TailOfChannel DEF Has
  <2>1. i - 1 \in DOMAIN Tail(s) /\ Tail(s)[i - 1] = s[(i - 1) + 1] /\ (i - 1) + 1 = i
    BY TailOfChannel
  <2> QED BY <2>1 DEF Has
<1>2. Head(s).type = t => Has(s, t)
  BY TailOfChannel, 1 \in DOMAIN s DEF Has
<1>3. Has(Tail(s), t) => Has(s, t)
  BY TailOfChannel DEF Has
<1> QED BY <1>1, <1>2, <1>3

LEMMA ConcatOfChannels ==
  ASSUME NEW s \in Seq(Packet), NEW r \in Seq(Packet)
  PROVE  /\ s \o r \in Seq(Packet)
         /\ Len(s) \in Nat /\ Len(r) \in Nat
         /\ DOMAIN s = 1..Len(s) /\ DOMAIN r = 1..Len(r)
         /\ DOMAIN (s \o r) = 1..(Len(s) + Len(r))
         /\ \A i \in DOMAIN s : i \in DOMAIN (s \o r) /\ (s \o r)[i] = s[i]
         /\ \A i \in DOMAIN r : /\ Len(s) + i \in DOMAIN (s \o r)
                                /\ (s \o r)[Len(s) + i] = r[i]
         /\ \A i \in DOMAIN (s \o r) : i \in DOMAIN s \/ i - Len(s) \in DOMAIN r
<1>1. s \o r \in Seq(Packet) /\ Len(s \o r) = Len(s) + Len(r)
      /\ \A i \in 1 .. Len(s) + Len(r) :
           (s \o r)[i] = IF i <= Len(s) THEN s[i] ELSE r[i - Len(s)]
  BY ConcatProperties
<1>2. Len(s) \in Nat /\ Len(r) \in Nat /\ DOMAIN s = 1..Len(s) /\ DOMAIN r = 1..Len(r)
      /\ DOMAIN (s \o r) = 1..Len(s \o r)
  BY <1>1, LenProperties
<1> QED BY <1>1, <1>2

LEMMA HasConcat ==
  ASSUME NEW s \in Seq(Packet), NEW r \in Seq(Packet), NEW t
  PROVE  Has(s \o r, t) <=> Has(s, t) \/ Has(r, t)
<1>1. ASSUME NEW i \in DOMAIN (s \o r), (s \o r)[i].type = t
      PROVE  Has(s, t) \/ Has(r, t)
  <2>1. CASE i \in DOMAIN s
    BY <1>1, <2>1, ConcatOfChannels DEF Has
  <2>2. CASE i - Len(s) \in DOMAIN r
    BY <1>1, <2>2, ConcatOfChannels, Len(s) + (i - Len(s)) = i DEF Has
  <2> QED BY <2>1, <2>2, ConcatOfChannels
<1>2. Has(s, t) => Has(s \o r, t)
  BY ConcatOfChannels DEF Has
<1>3. ASSUME NEW i \in DOMAIN r, r[i].type = t
      PROVE  Has(s \o r, t)
  <2>1. Len(s) + i \in DOMAIN (s \o r) /\ (s \o r)[Len(s) + i] = r[i]
    BY ConcatOfChannels
  <2> QED BY <1>3, <2>1 DEF Has
<1> QED BY <1>1, <1>2, <1>3 DEF Has

LEMMA HasBasics ==
  /\ \A t : ~Has(<<>>, t)
  /\ \A x \in ControlType : \A t : Has(Just(x), t) <=> t = x
  /\ \A r \in Seq(UpdatePacket) : \A t \in ControlType : ~Has(r, t)
  /\ \A s \in Seq(Packet) :
       (\A t \in ControlType \cup UpdateType : ~Has(s, t)) => s = <<>>
<1>1. \A t : ~Has(<<>>, t)
  BY DEF Has
<1>2. \A x \in ControlType : \A t : Has(Just(x), t) <=> t = x
  BY DEF Has, Just
<1>3. ASSUME NEW r \in Seq(UpdatePacket), NEW t \in ControlType
      PROVE  ~Has(r, t)
  <2>1. \A i \in DOMAIN r : r[i] \in UpdatePacket
    BY LenProperties, ElementOfSeq
  <2> QED BY <2>1, PacketType DEF Has
<1>4. ASSUME NEW s \in Seq(Packet), s # <<>>
      PROVE  \E t \in ControlType \cup UpdateType : Has(s, t)
  BY <1>4, TailOfChannel, HasTail, PacketType
<1> QED BY <1>1, <1>2, <1>3, <1>4

LEMMA ConcatOfThree ==
  \A s, k, r \in Seq(Packet) : (s \o k) \o r = s \o (k \o r)
<1> SUFFICES ASSUME NEW s \in Seq(Packet), NEW k \in Seq(Packet), NEW r \in Seq(Packet)
             PROVE  (s \o k) \o r = s \o (k \o r)
  OBVIOUS
<1> DEFINE S == Packet
<1> HIDE DEF S
<1>1. s \in Seq(S) /\ k \in Seq(S) /\ r \in Seq(S)
  BY DEF S
<1> QED BY <1>1, ConcatAssociative

LEMMA TailOfJust ==
  ASSUME NEW x \in ControlType
  PROVE  Tail(Just(x)) = <<>>
<1>1. Just(x) \in Seq(Packet) /\ Just(x) # <<>> /\ Len(Just(x)) = 1
  BY PacketType DEF Just
<1>2. Tail(Just(x)) \in Seq(Packet) /\ Len(Tail(Just(x))) = 0
  BY <1>1, HeadTailProperties
<1> QED BY <1>2, EmptySeq

-----------------------------------------------------------------------------
(* The order of the packets in a channel.                                  *)

LEMMA BeforeTail ==
  ASSUME NEW s \in Seq(Packet), s # <<>>, NEW t, NEW u, Before(s, t, u)
  PROVE  /\ Before(Tail(s), t, u)
         /\ Head(s).type = u => ~Has(s, t)
<1>1. Before(Tail(s), t, u)
  <2> SUFFICES ASSUME NEW i \in DOMAIN Tail(s), NEW j \in DOMAIN Tail(s),
                      Tail(s)[i].type = t, Tail(s)[j].type = u
               PROVE  i < j
    BY DEF Before
  <2>1. s[i + 1].type = t /\ s[j + 1].type = u
        /\ i + 1 \in DOMAIN s /\ j + 1 \in DOMAIN s
    BY TailOfChannel
  <2>2. i + 1 < j + 1
    BY <2>1 DEF Before
  <2> QED BY <2>2, TailOfChannel
<1>2. ASSUME Head(s).type = u, NEW i \in DOMAIN s, s[i].type = t
      PROVE  FALSE
  <2>1. 1 \in DOMAIN s /\ s[1].type = u
    BY <1>2, TailOfChannel
  <2>2. i < 1
    BY <1>2, <2>1 DEF Before
  <2> QED BY <2>2, TailOfChannel
<1> QED BY <1>1, <1>2 DEF Has

LEMMA BeforeConcat ==
  ASSUME NEW s \in Seq(Packet), NEW r \in Seq(Packet), NEW t, NEW u,
         Before(s, t, u), ~Has(r, t)
  PROVE  Before(s \o r, t, u)
<1> SUFFICES ASSUME NEW i \in DOMAIN (s \o r), NEW j \in DOMAIN (s \o r),
                    (s \o r)[i].type = t, (s \o r)[j].type = u
             PROVE  i < j
  BY DEF Before
<1>1. i \in DOMAIN s
  <2> SUFFICES ASSUME i - Len(s) \in DOMAIN r
               PROVE  FALSE
    BY ConcatOfChannels
  <2>1. (s \o r)[Len(s) + (i - Len(s))] = r[i - Len(s)] /\ Len(s) + (i - Len(s)) = i
    BY ConcatOfChannels
  <2> QED BY <2>1 DEF Has
<1>2. CASE j \in DOMAIN s
  BY <1>1, <1>2, ConcatOfChannels DEF Before
<1>3. CASE j - Len(s) \in DOMAIN r
  BY <1>1, <1>3, ConcatOfChannels
<1> QED BY <1>2, <1>3, ConcatOfChannels

(* The other way to extend a channel: no packet that must come first is in *)
(* it yet.                                                                 *)
LEMMA BeforeConcatFirst ==
  ASSUME NEW s \in Seq(Packet), NEW x \in ControlType, NEW u,
         ~Has(s, u), u # x
  PROVE  Before(s \o Just(x), x, u)
<1> SUFFICES ~Has(s \o Just(x), u)
  BY DEF Before, Has
<1> QED BY HasConcat, HasBasics, PacketType

LEMMA OnceTail ==
  ASSUME NEW s \in Seq(Packet), s # <<>>, Once(s)
  PROVE  /\ Once(Tail(s))
         /\ \A t \in ControlType : Head(s).type = t => ~Has(Tail(s), t)
<1>1. Once(Tail(s))
  <2> SUFFICES ASSUME NEW i \in DOMAIN Tail(s), NEW j \in DOMAIN Tail(s),
                      Tail(s)[i].type = Tail(s)[j].type,
                      Tail(s)[i].type \in ControlType
               PROVE  i = j
    BY DEF Once
  <2>1. s[i + 1].type = s[j + 1].type /\ s[i + 1].type \in ControlType
        /\ i + 1 \in DOMAIN s /\ j + 1 \in DOMAIN s
    BY TailOfChannel
  <2>2. i + 1 = j + 1
    BY <2>1 DEF Once
  <2> QED BY <2>2, TailOfChannel
<1>2. ASSUME NEW t \in ControlType, Head(s).type = t,
             NEW i \in DOMAIN Tail(s), Tail(s)[i].type = t
      PROVE  FALSE
  <2>1. 1 \in DOMAIN s /\ s[1].type = t /\ i + 1 \in DOMAIN s /\ s[i + 1].type = t
    BY <1>2, TailOfChannel
  <2>2. 1 = i + 1
    BY <2>1 DEF Once
  <2> QED BY <2>2, TailOfChannel
<1> QED BY <1>1, <1>2 DEF Has

LEMMA OnceConcat ==
  ASSUME NEW s \in Seq(Packet), NEW r \in Seq(Packet), Once(s), Once(r),
         \A t \in ControlType : Has(s, t) => ~Has(r, t)
  PROVE  Once(s \o r)
<1> DEFINE c == s \o r
<1> SUFFICES ASSUME NEW i \in DOMAIN c, NEW j \in DOMAIN c,
                    c[i].type = c[j].type, c[i].type \in ControlType
             PROVE  i = j
  BY DEF Once
<1>0. \A k \in DOMAIN c :
        \/ k \in DOMAIN s /\ c[k] = s[k]
        \/ k - Len(s) \in DOMAIN r /\ c[k] = r[k - Len(s)]
  <2> SUFFICES ASSUME NEW k \in DOMAIN c, k - Len(s) \in DOMAIN r
               PROVE  c[k] = r[k - Len(s)]
    BY ConcatOfChannels
  <2>1. c[Len(s) + (k - Len(s))] = r[k - Len(s)] /\ Len(s) + (k - Len(s)) = k
    BY ConcatOfChannels
  <2> QED BY <2>1
<1> HIDE DEF c
<1>1. CASE i \in DOMAIN s /\ j \in DOMAIN s /\ c[i] = s[i] /\ c[j] = s[j]
  BY <1>1 DEF Once
<1>2. CASE i - Len(s) \in DOMAIN r /\ j - Len(s) \in DOMAIN r
           /\ c[i] = r[i - Len(s)] /\ c[j] = r[j - Len(s)]
  <2>1. i - Len(s) = j - Len(s)
    BY <1>2 DEF Once
  <2>2. i \in Int /\ j \in Int /\ Len(s) \in Nat
    BY ConcatOfChannels DEF c
  <2> QED BY <2>1, <2>2
<1>3. CASE i \in DOMAIN s /\ c[i] = s[i] /\ j - Len(s) \in DOMAIN r /\ c[j] = r[j - Len(s)]
  BY <1>3 DEF Has
<1>4. CASE j \in DOMAIN s /\ c[j] = s[j] /\ i - Len(s) \in DOMAIN r /\ c[i] = r[i - Len(s)]
  BY <1>4 DEF Has
<1> QED BY <1>0, <1>1, <1>2, <1>3, <1>4

LEMMA OrderedTail ==
  ASSUME NEW s \in Seq(Packet), s # <<>>, Ordered(s)
  PROVE  Ordered(Tail(s))
BY BeforeTail, OnceTail DEF Ordered

(* A control packet may follow what is on its way when its type is not     *)
(* there yet and none of the packets it must come before is.               *)
LEMMA OrderedSend ==
  ASSUME NEW s \in Seq(Packet), Ordered(s),
         NEW x \in ControlType \ {"INIT"}, ~Has(s, x),
         x = "HANDSHAKE0" => ~Has(s, "HANDSHAKE1") /\ ~Has(s, "HANDSHAKECANCEL"),
         x = "HANDSHAKE1" => ~Has(s, "HANDSHAKECANCEL") /\ ~Has(s, "HANDSHAKECANCELACK")
  PROVE  Ordered(s \o Just(x))
<1>0. Just(x) \in Seq(Packet) /\ \A t : Has(Just(x), t) <=> t = x
  BY PacketType, HasBasics
<1>1. Once(s \o Just(x))
  <2>1. Once(Just(x))
    BY DEF Once, Just
  <2> QED BY <1>0, <2>1, OnceConcat DEF Ordered
<1>2. \A t \in ControlType \cup UpdateType : \A u :
        Before(s, t, u) /\ t # x => Before(s \o Just(x), t, u)
  BY <1>0, BeforeConcat
<1>3. Before(s \o Just(x), "HANDSHAKE0", "HANDSHAKE1")
      /\ Before(s \o Just(x), "HANDSHAKE0", "HANDSHAKECANCEL")
  <2>1. CASE x = "HANDSHAKE0"
    BY <2>1, BeforeConcatFirst
  <2>2. CASE x # "HANDSHAKE0"
    BY <2>2, <1>2 DEF Ordered, ControlType
  <2> QED BY <2>1, <2>2
<1>4. Before(s \o Just(x), "HANDSHAKE1", "HANDSHAKECANCEL")
      /\ Before(s \o Just(x), "HANDSHAKE1", "HANDSHAKECANCELACK")
  <2>1. CASE x = "HANDSHAKE1"
    BY <2>1, BeforeConcatFirst
  <2>2. CASE x # "HANDSHAKE1"
    BY <2>2, <1>2 DEF Ordered, ControlType
  <2> QED BY <2>1, <2>2
<1>5. \A u : Before(s, "INIT", u) => Before(s \o Just(x), "INIT", u)
  BY <1>2 DEF ControlType
<1> QED BY <1>1, <1>3, <1>4, <1>5 DEF Ordered

(* Settings may follow anything.                                           *)
LEMMA OrderedReply ==
  ASSUME NEW s \in Seq(Packet), Ordered(s), NEW r \in Seq(UpdatePacket)
  PROVE  Ordered(s \o r)
<1>0. r \in Seq(Packet) /\ \A t \in ControlType : ~Has(r, t)
  BY PacketType, HasBasics
<1>1. Once(s \o r)
  <2>1. Once(r)
    BY <1>0 DEF Once, Has
  <2> QED BY <1>0, <2>1, OnceConcat DEF Ordered
<1>2. \A t \in ControlType : \A u : Before(s, t, u) => Before(s \o r, t, u)
  BY <1>0, BeforeConcat
<1> QED BY <1>1, <1>2 DEF Ordered, ControlType

-----------------------------------------------------------------------------
(* Settings packets among the confirmations.                               *)

(* remote changes to remoteNew when the receiver handles the head of s.    *)
LEMMA CoveredTail ==
  ASSUME NEW s \in Seq(Packet), s # <<>>, Ordered(s),
         NEW remote \in BOOLEAN, NEW remoteNew \in BOOLEAN, Covered(s, remote),
         Head(s).type = "HANDSHAKECANCEL" => ~remoteNew,
         Head(s).type \notin {"HANDSHAKE0", "HANDSHAKE1", "HANDSHAKECANCEL"} =>
           (remoteNew => remote)
  PROVE  Covered(Tail(s), remoteNew)
<1> DEFINE c == Tail(s)
<1> SUFFICES ASSUME NEW i \in DOMAIN c, c[i].type \in UpdateType
             PROVE  \/ \E j \in DOMAIN c : j < i /\ c[j].type = "HANDSHAKECANCEL"
                    \/ /\ ~remoteNew
                       /\ \A j \in DOMAIN c :
                            j < i => c[j].type \notin {"HANDSHAKE0", "HANDSHAKE1"}
  BY DEF Covered
<1>1. /\ \A k \in DOMAIN c : k \in Nat /\ k + 1 \in DOMAIN s /\ c[k] = s[k + 1]
      /\ \A k \in DOMAIN s : k \in Nat /\ (k = 1 \/ (k - 1 \in DOMAIN c /\ c[k - 1] = s[k]))
      /\ 1 \in DOMAIN s /\ Head(s) = s[1]
      /\ \A k \in DOMAIN c : 1 < k + 1
  <2>1. \A k \in DOMAIN s : k - 1 \in DOMAIN c => c[k - 1] = s[(k - 1) + 1] /\ (k - 1) + 1 = k
    BY TailOfChannel
  <2> QED BY <2>1, TailOfChannel
<1> HIDE DEF c
<1>2. \/ \E j \in DOMAIN s : j < i + 1 /\ s[j].type = "HANDSHAKECANCEL"
      \/ /\ ~remote
         /\ \A j \in DOMAIN s :
              j < i + 1 => s[j].type \notin {"HANDSHAKE0", "HANDSHAKE1"}
  BY <1>1 DEF Covered
<1>3. CASE \E j \in DOMAIN s : j # 1 /\ j < i + 1 /\ s[j].type = "HANDSHAKECANCEL"
  <2>1. PICK j \in DOMAIN s : j # 1 /\ j < i + 1 /\ s[j].type = "HANDSHAKECANCEL"
    BY <1>3
  <2>2. j - 1 \in DOMAIN c /\ c[j - 1] = s[j] /\ j \in Nat /\ i \in Nat
    BY <1>1, <2>1
  <2>3. j - 1 < i
    BY <2>1, <2>2
  <2> QED BY <2>1, <2>2, <2>3
<1>4. CASE Head(s).type = "HANDSHAKECANCEL"
  <2>1. ~Has(s, "HANDSHAKE0") /\ ~Has(s, "HANDSHAKE1")
    BY <1>4, BeforeTail DEF Ordered
  <2>2. \A j \in DOMAIN c : c[j].type \notin {"HANDSHAKE0", "HANDSHAKE1"}
    BY <1>1, <2>1 DEF Has
  <2> QED BY <1>4, <2>2
<1>5. CASE /\ ~remote /\ Head(s).type # "HANDSHAKECANCEL"
           /\ \A j \in DOMAIN s :
                j < i + 1 => s[j].type \notin {"HANDSHAKE0", "HANDSHAKE1"}
  <2>1. Head(s).type \notin {"HANDSHAKE0", "HANDSHAKE1", "HANDSHAKECANCEL"}
    BY <1>1, <1>5
  <2>2. ~remoteNew
    BY <1>5, <2>1
  <2>3. ASSUME NEW j \in DOMAIN c, j < i
        PROVE  c[j].type \notin {"HANDSHAKE0", "HANDSHAKE1"}
    <3>1. j + 1 < i + 1 /\ j + 1 \in DOMAIN s /\ c[j] = s[j + 1]
      BY <1>1, <2>3
    <3> QED BY <1>5, <3>1
  <2> QED BY <2>2, <2>3
<1> QED BY <1>1, <1>2, <1>3, <1>4, <1>5

(* A settings packet is handled only by a side that knows of no standing   *)
(* confirmation of the sender.                                             *)
LEMMA CoveredHead ==
  ASSUME NEW s \in Seq(Packet), s # <<>>, NEW remote, Covered(s, remote),
         Head(s).type \in UpdateType
  PROVE  ~remote
<1>1. 1 \in DOMAIN s /\ s[1].type \in UpdateType /\ \A j \in DOMAIN s : ~(j < 1)
  BY TailOfChannel
<1> QED BY <1>1 DEF Covered

LEMMA CoveredSend ==
  ASSUME NEW s \in Seq(Packet), NEW remote, Covered(s, remote),
         NEW x \in ControlType
  PROVE  Covered(s \o Just(x), remote)
<1> DEFINE c == s \o Just(x)
<1>1. Just(x) \in Seq(Packet) /\ x \notin UpdateType
      /\ \A i \in DOMAIN Just(x) : Just(x)[i].type = x
  BY PacketType DEF Just
<1>2. \A i \in DOMAIN s : i \in DOMAIN c /\ c[i] = s[i]
  BY <1>1, ConcatOfChannels
<1> SUFFICES ASSUME NEW i \in DOMAIN c, c[i].type \in UpdateType
             PROVE  \/ \E j \in DOMAIN c : j < i /\ c[j].type = "HANDSHAKECANCEL"
                    \/ /\ ~remote
                       /\ \A j \in DOMAIN c :
                            j < i => c[j].type \notin {"HANDSHAKE0", "HANDSHAKE1"}
  BY DEF Covered
<1>3. i \in DOMAIN s
  <2> SUFFICES ASSUME i - Len(s) \in DOMAIN Just(x)
               PROVE  FALSE
    BY <1>1, ConcatOfChannels
  <2>1. c[Len(s) + (i - Len(s))] = Just(x)[i - Len(s)] /\ Len(s) + (i - Len(s)) = i
    BY <1>1, ConcatOfChannels
  <2> QED BY <1>1, <2>1
<1>4. \A j \in DOMAIN c : j < i => j \in DOMAIN s
  BY <1>1, <1>3, ConcatOfChannels
<1> HIDE DEF c
<1> QED BY <1>2, <1>3, <1>4 DEF Covered

LEMMA CoveredReply ==
  ASSUME NEW s \in Seq(Packet), NEW remote, Covered(s, remote),
         NEW r \in Seq(UpdatePacket),
         \/ Has(s, "HANDSHAKECANCEL")
         \/ ~remote /\ ~Has(s, "HANDSHAKE0") /\ ~Has(s, "HANDSHAKE1")
  PROVE  Covered(s \o r, remote)
<1> DEFINE c == s \o r
<1>1. r \in Seq(Packet) /\ ~Has(r, "HANDSHAKE0") /\ ~Has(r, "HANDSHAKE1")
  BY PacketType, HasBasics DEF ControlType
<1>2. \A i \in DOMAIN s : i \in DOMAIN c /\ c[i] = s[i]
  BY <1>1, ConcatOfChannels
<1> SUFFICES ASSUME NEW i \in DOMAIN c, c[i].type \in UpdateType
             PROVE  \/ \E j \in DOMAIN c : j < i /\ c[j].type = "HANDSHAKECANCEL"
                    \/ /\ ~remote
                       /\ \A j \in DOMAIN c :
                            j < i => c[j].type \notin {"HANDSHAKE0", "HANDSHAKE1"}
  BY DEF Covered
<1>3. CASE i \in DOMAIN s
  <2>1. \A j \in DOMAIN c : j < i => j \in DOMAIN s
    BY <1>1, <1>3, ConcatOfChannels
  <2> HIDE DEF c
  <2> QED BY <1>2, <1>3, <2>1 DEF Covered
<1>4. CASE i - Len(s) \in DOMAIN r /\ Has(s, "HANDSHAKECANCEL")
  <2>1. PICK j \in DOMAIN s : s[j].type = "HANDSHAKECANCEL"
    BY <1>4 DEF Has
  <2>2. j < i
    BY <1>1, <1>4, ConcatOfChannels
  <2> QED BY <1>2, <2>1, <2>2
<1>5. CASE ~remote /\ ~Has(s, "HANDSHAKE0") /\ ~Has(s, "HANDSHAKE1")
  <2>1. ~Has(c, "HANDSHAKE0") /\ ~Has(c, "HANDSHAKE1")
    BY <1>1, <1>5, HasConcat
  <2> HIDE DEF c
  <2> QED BY <1>5, <2>1 DEF Has
<1> QED BY <1>1, <1>3, <1>4, <1>5, ConcatOfChannels

-----------------------------------------------------------------------------
(* What the actions do to the channels.                                    *)

LEMMA SendEffect ==
  ASSUME chan \in [Party -> Seq(Packet)], NEW p \in Party,
         NEW r \in Seq(Packet), Send(p, r)
  PROVE  /\ chan' \in [Party -> Seq(Packet)]
         /\ chan'[p] = chan[p] \o r
         /\ chan'[Peer(p)] = chan[Peer(p)]
<1>1. chan[p] \o r \in Seq(Packet)
  BY ConcatOfChannels
<1> QED BY <1>1, PeerFacts DEF Send

LEMMA AnswerEffect ==
  ASSUME chan \in [Party -> Seq(Packet)], NEW p \in Party,
         NEW r \in Seq(Packet), chan[Peer(p)] # <<>>, Answer(p, r)
  PROVE  /\ chan' \in [Party -> Seq(Packet)]
         /\ chan'[p] = chan[p] \o r
         /\ chan'[Peer(p)] = Tail(chan[Peer(p)])
<1>1. chan[p] \o r \in Seq(Packet) /\ Tail(chan[Peer(p)]) \in Seq(Packet)
  BY ConcatOfChannels, TailOfChannel, PeerFacts
<1> QED BY <1>1, PeerFacts DEF Answer

LEMMA PacketsAreSeq ==
  /\ <<>> \in Seq(Packet)
  /\ Just("HANDSHAKE0") \in Seq(Packet)
  /\ Just("HANDSHAKE1") \in Seq(Packet)
  /\ Just("HANDSHAKECANCEL") \in Seq(Packet)
  /\ Just("HANDSHAKECANCELACK") \in Seq(Packet)
  /\ \A p \in Party :
       /\ CancelPacket(p) \in Seq(Packet)
       /\ ConfirmPacket(p) \in Seq(Packet)
       /\ Handshake0Answer(p) \in Seq(Packet)
       /\ Handshake1Answer(p) \in Seq(Packet)
       /\ CancelAckAnswer(p) \in Seq(Packet)
  /\ \A r \in Replies : r \in Seq(Packet)
  /\ \A p \in Party, r \in Replies :
       (IF localOk[p] THEN CancelPacket(p) ELSE <<>>) \o r \in Seq(Packet)
<1>1. <<>> \in Seq(Packet) /\ Just("HANDSHAKE0") \in Seq(Packet)
      /\ Just("HANDSHAKE1") \in Seq(Packet)
      /\ Just("HANDSHAKECANCEL") \in Seq(Packet)
      /\ Just("HANDSHAKECANCELACK") \in Seq(Packet)
  BY PacketType, EmptySeq DEF ControlType
<1>2. \A p \in Party :
        /\ CancelPacket(p) \in Seq(Packet)
        /\ ConfirmPacket(p) \in Seq(Packet)
        /\ Handshake0Answer(p) \in Seq(Packet)
        /\ Handshake1Answer(p) \in Seq(Packet)
        /\ CancelAckAnswer(p) \in Seq(Packet)
  BY <1>1 DEF CancelPacket, ConfirmPacket, Handshake0Answer, Handshake1Answer, CancelAckAnswer
<1>3. \A r \in Replies : r \in Seq(Packet)
  BY ReplyIsSeq, PacketType
<1>4. \A p \in Party, r \in Replies :
        (IF localOk[p] THEN CancelPacket(p) ELSE <<>>) \o r \in Seq(Packet)
  BY <1>1, <1>2, <1>3, ConcatOfChannels
<1> QED BY <1>1, <1>2, <1>3, <1>4

-----------------------------------------------------------------------------
(* Type correctness.                                                       *)

LEMMA TypeInit == Init => TypeOK
BY PacketType DEF Init, TypeOK, NetState, ControlType

(* What a handler takes is acceptable to it.                               *)
LEMMA HandlersReceive == \A p \in Party : Handle(p) => Receive(p)
BY ZenonT(30) DEF Handle, Receive, Refusable, Acceptable, Arrives, Incoming, HandleInit, HandleUpdate,
       HandleHandshake0, HandleHandshake1, HandleHandshakeCancel, HandleHandshakeCancelAck

LEMMA TypeStep == TypeOK /\ [Next]_vars => TypeOK'
<1> SUFFICES ASSUME TypeOK, [Next]_vars
             PROVE  TypeOK'
  OBVIOUS
<1> USE DEF TypeOK, NetState
<1>1. CASE UNCHANGED vars
  BY <1>1 DEF vars
<1>2. ASSUME NEW p \in Party, Confirm(p)
      PROVE  TypeOK'
  <2>1. chan' \in [Party -> Seq(Packet)]
    BY <1>2, SendEffect, PacketsAreSeq DEF Confirm
  <2> QED BY <1>2, <2>1 DEF Confirm
<1>3. ASSUME NEW p \in Party, Cancel(p)
      PROVE  TypeOK'
  <2>1. chan' \in [Party -> Seq(Packet)]
    BY <1>3, SendEffect, PacketsAreSeq DEF Cancel
  <2> QED BY <1>3, <2>1 DEF Cancel, CancelFlags
<1>4. ASSUME NEW p \in Party, LocalChange(p)
      PROVE  TypeOK'
  <2>1. \A u \in UpdatePacket : <<u>> \in Seq(Packet)
    BY PacketType
  <2>2. chan' \in [Party -> Seq(Packet)]
    BY <1>4, <2>1, SendEffect DEF LocalChange
  <2> QED BY <1>4, <2>2 DEF LocalChange
<1>5. ASSUME NEW p \in Party, HandleInit(p)
      PROVE  TypeOK'
  <2>1. chan' \in [Party -> Seq(Packet)]
    BY <1>5, AnswerEffect, PacketsAreSeq DEF HandleInit, Arrives
  <2> QED BY <1>5, <2>1 DEF HandleInit
<1>6. ASSUME NEW p \in Party, HandleUpdate(p)
      PROVE  TypeOK'
  <2>1. chan' \in [Party -> Seq(Packet)]
    BY <1>6, AnswerEffect, PacketsAreSeq DEF HandleUpdate, Arrives
  <2> QED BY <1>6, <2>1 DEF HandleUpdate, CancelFlags
<1>7. ASSUME NEW p \in Party, HandleHandshake0(p)
      PROVE  TypeOK'
  <2>1. chan' \in [Party -> Seq(Packet)]
    BY <1>7, AnswerEffect, PacketsAreSeq DEF HandleHandshake0, Arrives
  <2> QED BY <1>7, <2>1 DEF HandleHandshake0
<1>8. ASSUME NEW p \in Party, HandleHandshake1(p)
      PROVE  TypeOK'
  <2>1. chan' \in [Party -> Seq(Packet)]
    BY <1>8, AnswerEffect, PacketsAreSeq DEF HandleHandshake1, Arrives
  <2> QED BY <1>8, <2>1 DEF HandleHandshake1
<1>9. ASSUME NEW p \in Party, HandleHandshakeCancel(p)
      PROVE  TypeOK'
  <2>1. chan' \in [Party -> Seq(Packet)]
    BY <1>9, AnswerEffect, PacketsAreSeq DEF HandleHandshakeCancel, Arrives
  <2> QED BY <1>9, <2>1 DEF HandleHandshakeCancel
<1>10. ASSUME NEW p \in Party, HandleHandshakeCancelAck(p)
       PROVE  TypeOK'
  <2>1. chan' \in [Party -> Seq(Packet)]
    BY <1>10, AnswerEffect, PacketsAreSeq DEF HandleHandshakeCancelAck, Arrives
  <2> QED BY <1>10, <2>1 DEF HandleHandshakeCancelAck
<1>11. ASSUME NEW p \in Party, RefusePacket(p)
       PROVE  TypeOK'
  <2>1. chan' \in [Party -> Seq(Packet)]
    BY <1>11, AnswerEffect, PacketsAreSeq DEF RefusePacket, Refusable
  <2>2. Incoming(p).type \in ControlType \cup {"FLEET", "TEAMNAME", "none"}
    BY <1>11, PeerFacts, TailOfChannel, PacketType
       DEF RefusePacket, Refusable, Incoming, UpdateType
  <2> QED BY <1>11, <2>1, <2>2 DEF RefusePacket, Close
<1>12. ASSUME NEW p \in Party, PeerClosed(p) \/ Disconnect(p)
       PROVE  TypeOK'
  BY <1>12 DEF PeerClosed, Disconnect, Close
<1> QED BY <1>1, <1>2, <1>3, <1>4, <1>5, <1>6, <1>7, <1>8, <1>9, <1>10, <1>11, <1>12
       DEF Next, Receive, Handle

(* Every variable stays in its type: flags are Booleans, only packets of   *)
(* the protocol are on their way, the state is one the menu can be in.     *)
THEOREM TypeCorrect == Spec => []TypeOK
<1> QED BY TypeInit, TypeStep, PTL DEF Spec

-----------------------------------------------------------------------------
(* The inductive invariant.                                                *)

LEMMA InvInit == Init => IInv
<1> SUFFICES ASSUME Init
             PROVE  IInv
  OBVIOUS
<1>1. TypeOK
  BY TypeInit
<1>2. NoPacketRefused /\ WaitingIffConfirmed
  BY DEF Init, NoPacketRefused, WaitingIffConfirmed
<1>3. \A p \in Party : chan[p] = Just("INIT")
  BY DEF Init
<1>4. \A t : Has(Just("INIT"), t) <=> t = "INIT"
  BY HasBasics DEF ControlType
<1>5. Ordered(Just("INIT")) /\ Covered(Just("INIT"), FALSE)
  <2>1. Once(Just("INIT"))
    BY DEF Once, Just
  <2>2. Covered(Just("INIT"), FALSE)
    BY DEF Covered, Just, UpdateType
  <2>3. \A t, u : t # u => Before(Just("INIT"), t, u)
    BY DEF Before, Just
  <2> QED BY <2>1, <2>2, <2>3 DEF Ordered, UpdateType
<1>6. ChannelsOrdered
  BY <1>3, <1>5 DEF ChannelsOrdered
<1>7. ASSUME NEW p \in Party
      PROVE  InitPart(p) /\ CancelPart(p) /\ ConfirmPart(p) /\ SettingsPart(p) /\ StartPart(p)
  BY <1>3, <1>4, <1>5, PeerFacts
     DEF Init, InitPart, CancelPart, ConfirmPart, SettingsPart, StartPart
<1> QED BY <1>1, <1>2, <1>6, <1>7 DEF IInv

(* The side that acts, its peer and their channels.                        *)
LEMMA Sides ==
  ASSUME IInv, NEW p \in Party
  PROVE  /\ Peer(p) \in Party /\ Peer(p) # p /\ Peer(Peer(p)) = p
         /\ Ordered(chan[p]) /\ Ordered(chan[Peer(p)])
         /\ chan[p] \in Seq(Packet) /\ chan[Peer(p)] \in Seq(Packet)
         /\ TypeOK
         /\ InitPart(p) /\ InitPart(Peer(p))
         /\ CancelPart(p) /\ CancelPart(Peer(p))
         /\ ConfirmPart(p) /\ ConfirmPart(Peer(p))
         /\ Covered(chan[p], remoteOk[Peer(p)])
         /\ Covered(chan[Peer(p)], remoteOk[p])
         /\ StartPart(p) /\ StartPart(Peer(p))
BY PeerFacts DEF IInv, ChannelsOrdered, TypeOK, SettingsPart

(* What is on its way after p has sent r.                                  *)
LEMMA SendHas ==
  ASSUME IInv, NEW p \in Party, NEW r \in Seq(Packet), Send(p, r)
  PROVE  /\ chan'[p] = chan[p] \o r
         /\ chan'[Peer(p)] = chan[Peer(p)]
         /\ \A t : Has(chan'[p], t) <=> Has(chan[p], t) \/ Has(r, t)
<1>1. chan'[p] = chan[p] \o r /\ chan'[Peer(p)] = chan[Peer(p)]
  BY SendEffect, Sides DEF TypeOK
<1>2. \A t : Has(chan[p] \o r, t) <=> Has(chan[p], t) \/ Has(r, t)
  BY HasConcat, Sides
<1> QED BY <1>1, <1>2

(* The same when p has also taken the head of the peer's channel.          *)
LEMMA AnswerHas ==
  ASSUME IInv, NEW p \in Party, NEW r \in Seq(Packet),
         chan[Peer(p)] # <<>>, Answer(p, r)
  PROVE  /\ chan'[p] = chan[p] \o r
         /\ chan'[Peer(p)] = Tail(chan[Peer(p)])
         /\ Ordered(chan'[Peer(p)])
         /\ \A t : Has(chan'[p], t) <=> Has(chan[p], t) \/ Has(r, t)
         /\ \A t \in ControlType :
              Has(chan'[Peer(p)], t) <=>
                (Has(chan[Peer(p)], t) /\ Head(chan[Peer(p)]).type # t)
         /\ Has(chan[Peer(p)], Head(chan[Peer(p)]).type)
<1> DEFINE q == Peer(p)
<1>1. chan'[p] = chan[p] \o r /\ chan'[q] = Tail(chan[q])
  BY AnswerEffect, Sides DEF TypeOK
<1>2. Ordered(Tail(chan[q])) /\ Once(chan[q])
  BY OrderedTail, Sides DEF Ordered
<1>3. \A t : Has(chan[p] \o r, t) <=> Has(chan[p], t) \/ Has(r, t)
  BY HasConcat, Sides
<1>4. \A t : Has(chan[q], t) <=> Head(chan[q]).type = t \/ Has(Tail(chan[q]), t)
  BY HasTail, Sides
<1>5. \A t \in ControlType : Head(chan[q]).type = t => ~Has(Tail(chan[q]), t)
  BY <1>2, OnceTail, Sides
<1> QED BY <1>1, <1>2, <1>3, <1>4, <1>5

(* It suffices to look at the side that acts and at its peer.              *)
LEMMA InvOfBoth ==
  ASSUME NEW p \in Party,
         TypeOK', NoPacketRefused', WaitingIffConfirmed',
         Ordered(chan'[p]), Ordered(chan'[Peer(p)]),
         InitPart(p)', InitPart(Peer(p))',
         CancelPart(p)', CancelPart(Peer(p))',
         ConfirmPart(p)', ConfirmPart(Peer(p))',
         Covered(chan'[p], remoteOk'[Peer(p)]),
         Covered(chan'[Peer(p)], remoteOk'[p]),
         StartPart(p)', StartPart(Peer(p))'
  PROVE  IInv'
<1>1. SettingsPart(p)' /\ SettingsPart(Peer(p))'
  BY PeerFacts DEF SettingsPart
<1>2. \A r \in Party : r = p \/ r = Peer(p)
  BY PeerFacts
<1>3. ASSUME NEW r \in Party
      PROVE  (InitPart(r) /\ CancelPart(r) /\ ConfirmPart(r) /\ SettingsPart(r) /\ StartPart(r))'
  <2>1. CASE r = p
    BY <1>1, <2>1
  <2>2. CASE r = Peer(p)
    BY <1>1, <2>2
  <2> QED BY <1>2, <2>1, <2>2
<1>4. ChannelsOrdered'
  BY <1>2 DEF ChannelsOrdered
<1> QED BY <1>3, <1>4 DEF IInv

LEMMA ConfirmKeepsInv ==
  ASSUME IInv, NEW p \in Party, Confirm(p)
  PROVE  IInv'
<1> DEFINE q == Peer(p)
           s == chan[p]
           x == IF remoteOk[p] THEN "HANDSHAKE1" ELSE "HANDSHAKE0"
           r == IF canceling[p] THEN <<>>
                ELSE IF remoteOk[p] THEN Just("HANDSHAKE1") ELSE Just("HANDSHAKE0")
<1>1. TypeOK'
  BY TypeStep DEF Next, IInv
<1>2. /\ Send(p, r) /\ state[p] = "inSetup" /\ ~localOk[p] /\ connected[p]
      /\ UNCHANGED <<connected, state, remoteOk, canceling, badPacket>>
      /\ localOk'[p] /\ localOk'[q] = localOk[q]
      /\ inputFunc'[p] = "DoConfirmSettings" /\ inputFunc'[q] = inputFunc[q]
  BY Sides DEF Confirm, ConfirmPacket, HandshakeMeaningful, TypeOK
<1>3. r \in Seq(Packet) /\ \A t : Has(r, t) <=> (~canceling[p] /\ t = x)
  BY PacketsAreSeq, HasBasics DEF ControlType
<1> HIDE DEF r
<1>4. /\ chan'[p] = s \o r /\ chan'[q] = chan[q]
      /\ \A t : Has(chan'[p], t) <=> (Has(s, t) \/ (~canceling[p] /\ t = x))
  BY <1>2, <1>3, SendHas
<1>5. state[q] # "preBattle"
  BY <1>2, Sides DEF StartPart, ok
<1>6. ~canceling[p] =>
        /\ ~Has(s, "HANDSHAKECANCEL") /\ ~Has(s, "HANDSHAKE0") /\ ~Has(s, "HANDSHAKE1")
        /\ Has(s, "HANDSHAKECANCELACK") => ~remoteOk[p]
        /\ ~remoteOk[q]
  BY <1>2, <1>5, Sides DEF CancelPart, ConfirmPart, InitPart, ok, TypeOK, NetState
<1>7. Ordered(chan'[p]) /\ Ordered(chan'[q])
  <2>1. CASE ~canceling[p]
    <3>1. Ordered(s \o Just(x))
      BY <2>1, <1>6, Sides, OrderedSend DEF ControlType
    <3> QED BY <2>1, <3>1, <1>4, Sides DEF r
  <2>2. CASE canceling[p]
    BY <2>2, <1>4, Sides, ConcatEmptySeq DEF r
  <2> QED BY <2>1, <2>2
<1>8. InitPart(p)' /\ InitPart(q)'
  <2>1. Has(chan'[p], "INIT") <=> Has(s, "INIT")
    BY <1>4
  <2>2. Has(chan'[p], "HANDSHAKECANCELACK") <=> Has(s, "HANDSHAKECANCELACK")
    BY <1>4
  <2> QED BY <1>2, <1>4, <2>1, <2>2, Sides DEF InitPart
<1>9. CancelPart(p)' /\ CancelPart(q)'
  BY <1>2, <1>4, <1>5, <1>6, Sides DEF CancelPart
<1>10. ConfirmPart(p)' /\ ConfirmPart(q)'
  BY <1>2, <1>4, <1>5, <1>6, Sides DEF ConfirmPart, ok
<1>11. Covered(chan'[p], remoteOk'[q]) /\ Covered(chan'[q], remoteOk'[p])
  <2>1. \A y \in ControlType : Covered(s \o Just(y), remoteOk[q])
    BY Sides, CoveredSend
  <2> QED BY <2>1, <1>2, <1>4, Sides, ConcatEmptySeq DEF r, ControlType
<1>12. StartPart(p)' /\ StartPart(q)'
  BY <1>2, <1>5, Sides DEF StartPart
<1>13. NoPacketRefused' /\ WaitingIffConfirmed'
  BY <1>2, PeerFacts DEF IInv, NoPacketRefused, WaitingIffConfirmed
<1> QED BY <1>1, <1>7, <1>8, <1>9, <1>10, <1>11, <1>12, <1>13, InvOfBoth

(* A CANCEL keeps the invariant as long as the peer has not started.       *)
LEMMA CancelKeepsInv ==
  ASSUME IInv, NEW p \in Party, Cancel(p), state[Peer(p)] # "preBattle"
  PROVE  IInv'
<1> DEFINE q == Peer(p)
           s == chan[p]
           r == CancelPacket(p)
<1>1. TypeOK'
  BY TypeStep DEF Next, IInv
<1>2. /\ Send(p, r) /\ state[p] = "inSetup" /\ localOk[p] /\ connected[p]
      /\ UNCHANGED <<connected, state, remoteOk, badPacket>>
      /\ ~localOk'[p] /\ localOk'[q] = localOk[q]
      /\ canceling'[p] /\ canceling'[q] = canceling[q]
      /\ inputFunc'[p] = "DoMelee" /\ inputFunc'[q] = inputFunc[q]
  BY Sides DEF Cancel, CancelFlags, HandshakeMeaningful, TypeOK
<1>3. r \in Seq(Packet) /\ \A t : Has(r, t) <=> (~canceling[p] /\ t = "HANDSHAKECANCEL")
  BY PacketsAreSeq, HasBasics DEF ControlType, CancelPacket
<1> HIDE DEF r
<1>4. /\ chan'[p] = s \o r /\ chan'[q] = chan[q]
      /\ \A t : Has(chan'[p], t) <=>
                (Has(s, t) \/ (~canceling[p] /\ t = "HANDSHAKECANCEL"))
  BY <1>2, <1>3, SendHas
<1>5. state[q] # "preBattle"
  OBVIOUS
<1>6. ~canceling[p] => ~Has(s, "HANDSHAKECANCEL")
  BY <1>2, Sides DEF CancelPart
<1>7. Ordered(chan'[p]) /\ Ordered(chan'[q])
  <2>1. CASE ~canceling[p]
    <3>1. Ordered(s \o Just("HANDSHAKECANCEL"))
      BY <2>1, <1>6, Sides, OrderedSend DEF ControlType
    <3> QED BY <2>1, <3>1, <1>4, Sides DEF r, CancelPacket
  <2>2. CASE canceling[p]
    BY <2>2, <1>4, Sides, ConcatEmptySeq DEF r, CancelPacket
  <2> QED BY <2>1, <2>2
<1>8. InitPart(p)' /\ InitPart(q)'
  <2>1. Has(chan'[p], "INIT") <=> Has(s, "INIT")
    BY <1>4
  <2>2. Has(chan'[p], "HANDSHAKECANCELACK") <=> Has(s, "HANDSHAKECANCELACK")
    BY <1>4
  <2> QED BY <1>2, <1>4, <2>1, <2>2, Sides DEF InitPart
<1>9. CancelPart(p)' /\ CancelPart(q)'
  BY <1>2, <1>4, <1>5, <1>6, Sides DEF CancelPart
<1>10. ConfirmPart(p)' /\ ConfirmPart(q)'
  <2>1. ConfirmPart(p)'
    <3>1. ~ok(p)' /\ (ok(p) \/ Has(s, "HANDSHAKECANCEL") <=> Has(chan'[p], "HANDSHAKECANCEL"))
      BY <1>2, <1>4, <1>6 DEF ok
    <3>2. /\ Has(chan'[p], "HANDSHAKE0") <=> Has(s, "HANDSHAKE0")
          /\ Has(chan'[p], "HANDSHAKE1") <=> Has(s, "HANDSHAKE1")
          /\ Has(chan'[p], "HANDSHAKECANCELACK") <=> Has(s, "HANDSHAKECANCELACK")
      BY <1>4
    <3> QED BY <1>2, <3>1, <3>2, Sides DEF ConfirmPart
  <2>2. ConfirmPart(q)'
    BY <1>2, <1>4, Sides DEF ConfirmPart, ok
  <2> QED BY <2>1, <2>2
<1>11. Covered(chan'[p], remoteOk'[q]) /\ Covered(chan'[q], remoteOk'[p])
  <2>1. \A y \in ControlType : Covered(s \o Just(y), remoteOk[q])
    BY Sides, CoveredSend
  <2> QED BY <2>1, <1>2, <1>4, Sides, ConcatEmptySeq DEF r, CancelPacket, ControlType
<1>12. StartPart(p)' /\ StartPart(q)'
  BY <1>2, <1>5, Sides DEF StartPart
<1>13. NoPacketRefused' /\ WaitingIffConfirmed'
  BY <1>2, PeerFacts DEF IInv, NoPacketRefused, WaitingIffConfirmed
<1> QED BY <1>1, <1>7, <1>8, <1>9, <1>10, <1>11, <1>12, <1>13, InvOfBoth

(* When the peer has started, the CANCEL is one of a committed             *)
(* confirmation, and comes too late.                                       *)
LEMMA CancelComesLate ==
  ASSUME IInv, NEW p \in Party, Cancel(p), state[Peer(p)] = "preBattle"
  PROVE  LateCancel(Peer(p))' /\ WaitingIffConfirmed'
<1> DEFINE q == Peer(p)
<1>1. /\ Send(p, CancelPacket(p)) /\ state[p] = "inSetup"
      /\ UNCHANGED <<connected, state, remoteOk, badPacket>>
      /\ ~localOk'[p] /\ localOk'[q] = localOk[q]
      /\ canceling'[p] /\ canceling'[q] = canceling[q]
      /\ inputFunc'[p] = "DoMelee" /\ inputFunc'[q] = inputFunc[q]
  BY Sides DEF Cancel, CancelFlags, HandshakeMeaningful, TypeOK
<1>2. /\ ~localOk[q] /\ ~remoteOk[q] /\ ~canceling[q] /\ chan[p] = <<>>
      /\ ok(p) /\ remoteOk[p] /\ chan[q] = Just("HANDSHAKE1")
  BY <1>1, Sides DEF StartPart
<1>3. CancelPacket(p) = Just("HANDSHAKECANCEL")
  BY <1>2 DEF CancelPacket, ok
<1>4. chan'[p] = Just("HANDSHAKECANCEL") /\ chan'[q] = Just("HANDSHAKE1")
  <2>1. chan'[p] = chan[p] \o CancelPacket(p) /\ chan'[q] = chan[q]
    BY <1>1, SendHas, PacketsAreSeq
  <2>2. <<>> \o Just("HANDSHAKECANCEL") = Just("HANDSHAKECANCEL")
    BY PacketsAreSeq, ConcatEmptySeq
  <2> QED BY <1>2, <1>3, <2>1, <2>2
<1>5. chan'[p] # <<>> /\ Head(chan'[p]).type = "HANDSHAKECANCEL"
  BY <1>4, Sides DEF Just
<1>6. badPacket'[p] = "none" /\ badPacket'[q] = "none"
  BY <1>1, Sides DEF IInv, NoPacketRefused
<1>7. LateCancel(q)'
  BY <1>1, <1>2, <1>4, <1>5, <1>6, Sides DEF LateCancel, ok
<1>8. WaitingIffConfirmed'
  BY <1>1, PeerFacts DEF IInv, WaitingIffConfirmed
<1> QED BY <1>7, <1>8

LEMMA LocalChangeKeepsInv ==
  ASSUME IInv, NEW p \in Party, LocalChange(p)
  PROVE  IInv'
<1> DEFINE q == Peer(p)
           s == chan[p]
<1>1. TypeOK'
  BY TypeStep DEF Next, IInv
<1>2. PICK u \in UpdatePacket : Send(p, <<u>>)
  BY DEF LocalChange
<1> DEFINE r == <<u>>
<1>3. /\ state[p] = "inSetup" /\ ~localOk[p]
      /\ UNCHANGED <<connected, state, localOk, remoteOk, canceling, inputFunc, badPacket>>
  BY DEF LocalChange, IInv, WaitingIffConfirmed
<1>4. r \in Seq(UpdatePacket) /\ r \in Seq(Packet) /\ Send(p, r)
      /\ \A t \in ControlType : ~Has(r, t)
  <2>1. <<u>> \in Seq(UpdatePacket)
    OBVIOUS
  <2> QED BY <1>2, <2>1, HasBasics, PacketType
<1> HIDE DEF r
<1>5. /\ chan'[p] = s \o r /\ chan'[q] = chan[q]
      /\ \A t \in ControlType : Has(chan'[p], t) <=> Has(s, t)
  BY <1>4, SendHas
<1>6. state[q] # "preBattle"
  BY <1>3, Sides DEF StartPart, ok
<1>7. Ordered(chan'[p]) /\ Ordered(chan'[q])
  BY <1>4, <1>5, Sides, OrderedReply
<1>8. InitPart(p)' /\ InitPart(q)'
  BY <1>3, <1>5, Sides DEF InitPart, ControlType
<1>9. CancelPart(p)' /\ CancelPart(q)'
  BY <1>3, <1>5, Sides DEF CancelPart, ControlType
<1>10. ConfirmPart(p)' /\ ConfirmPart(q)'
  BY <1>3, <1>5, Sides DEF ConfirmPart, ControlType, ok
<1>11. Covered(chan'[p], remoteOk'[q]) /\ Covered(chan'[q], remoteOk'[p])
  <2>1. \/ Has(s, "HANDSHAKECANCEL")
        \/ ~remoteOk[q] /\ ~Has(s, "HANDSHAKE0") /\ ~Has(s, "HANDSHAKE1")
    BY <1>3, Sides DEF ConfirmPart, ok
  <2>2. Covered(s \o r, remoteOk[q])
    BY <2>1, <1>4, Sides, CoveredReply
  <2> QED BY <2>2, <1>3, <1>5, Sides
<1>12. StartPart(p)' /\ StartPart(q)'
  BY <1>3, <1>6, Sides DEF StartPart
<1>13. NoPacketRefused' /\ WaitingIffConfirmed'
  BY <1>3 DEF IInv, NoPacketRefused, WaitingIffConfirmed
<1> QED BY <1>1, <1>7, <1>8, <1>9, <1>10, <1>11, <1>12, <1>13, InvOfBoth

(* The first packet an initialised side handles is the peer's INIT.        *)
LEMMA InitKeepsInv ==
  ASSUME IInv, NEW p \in Party, HandleInit(p)
  PROVE  IInv'
<1> DEFINE q == Peer(p)
           s == chan[p]
           c == chan[q]
<1>1. TypeOK'
  BY TypeStep, HandlersReceive DEF Next, Handle, IInv
<1>2. PICK r \in Replies : Answer(p, r)
  BY DEF HandleInit
<1>3. /\ c # <<>> /\ Head(c).type = "INIT" /\ state[p] = "init"
      /\ UNCHANGED <<connected, localOk, remoteOk, canceling, inputFunc, badPacket>>
      /\ state'[p] = "inSetup" /\ state'[q] = state[q]
  BY Sides DEF HandleInit, Arrives, Incoming, TypeOK
<1>4. r \in Seq(UpdatePacket) /\ r \in Seq(Packet) /\ \A t \in ControlType : ~Has(r, t)
  BY ReplyIsSeq, HasBasics, PacketType
<1>5. /\ chan'[p] = s \o r /\ chan'[q] = Tail(c) /\ Ordered(chan'[q])
      /\ \A t \in ControlType : Has(chan'[p], t) <=> Has(s, t)
      /\ \A t \in ControlType : Has(chan'[q], t) <=> (Has(c, t) /\ t # "INIT")
      /\ Has(c, "INIT")
  BY <1>2, <1>3, <1>4, AnswerHas
<1>6. state[q] # "preBattle"
  BY <1>3, Sides DEF StartPart
<1>7. /\ ~Has(s, "HANDSHAKE0") /\ ~Has(s, "HANDSHAKE1")
      /\ ~Has(s, "HANDSHAKECANCEL") /\ ~Has(s, "HANDSHAKECANCELACK")
      /\ ~Has(c, "HANDSHAKECANCELACK")
      /\ ~localOk[p] /\ ~remoteOk[p] /\ ~canceling[p] /\ ~remoteOk[q]
      /\ inputFunc[p] = "DoMelee"
  BY <1>3, Sides, HasBasics DEF InitPart, ControlType
<1>8. Ordered(chan'[p])
  BY <1>4, <1>5, Sides, OrderedReply
<1>9. InitPart(p)' /\ InitPart(q)'
  <2>1. state[q] = "init" => chan'[q] = <<>>
    <3>1. state[q] = "init" => c = Just("INIT")
      BY <1>3, Sides DEF InitPart
    <3> QED BY <3>1, <1>5, TailOfJust DEF ControlType
  <2> QED BY <1>3, <1>5, <1>7, <2>1, Sides DEF InitPart, ControlType
<1>10. CancelPart(p)' /\ CancelPart(q)'
  BY <1>3, <1>5, <1>7, Sides DEF CancelPart, ControlType
<1>11. ConfirmPart(p)' /\ ConfirmPart(q)'
  BY <1>3, <1>5, <1>7, Sides DEF ConfirmPart, ControlType, ok
<1>12. Covered(chan'[p], remoteOk'[q]) /\ Covered(chan'[q], remoteOk'[p])
  <2>1. Covered(s \o r, remoteOk[q])
    BY <1>4, <1>7, Sides, CoveredReply
  <2>2. Covered(Tail(c), remoteOk[p])
    BY <1>3, Sides, CoveredTail DEF TypeOK
  <2> QED BY <2>1, <2>2, <1>3, <1>5
<1>13. StartPart(p)' /\ StartPart(q)'
  BY <1>3, <1>6, Sides DEF StartPart
<1>14. NoPacketRefused' /\ WaitingIffConfirmed'
  BY <1>3, <1>7, PeerFacts DEF IInv, NoPacketRefused, WaitingIffConfirmed
<1> QED BY <1>1, <1>5, <1>8, <1>9, <1>10, <1>11, <1>12, <1>13, <1>14, InvOfBoth

LEMMA UpdateKeepsInv ==
  ASSUME IInv, NEW p \in Party, HandleUpdate(p)
  PROVE  IInv'
<1> DEFINE q == Peer(p)
           s == chan[p]
           c == chan[q]
           k == IF localOk[p] THEN CancelPacket(p) ELSE <<>>
<1>1. TypeOK'
  BY TypeStep, HandlersReceive DEF Next, Handle, IInv
<1>2. PICK r \in Replies : Answer(p, k \o r)
  BY DEF HandleUpdate
<1>3. /\ c # <<>> /\ Head(c).type \in UpdateType /\ state[p] = "inSetup"
      /\ UNCHANGED <<connected, state, remoteOk, badPacket>>
      /\ ~localOk'[p] /\ localOk'[q] = localOk[q]
      /\ canceling'[p] = (canceling[p] \/ localOk[p]) /\ canceling'[q] = canceling[q]
      /\ inputFunc'[p] = (IF localOk[p] THEN "DoMelee" ELSE inputFunc[p])
      /\ inputFunc'[q] = inputFunc[q]
  <2>1. /\ c # <<>> /\ Head(c).type \in UpdateType /\ state[p] = "inSetup"
        /\ UNCHANGED <<connected, state, remoteOk, badPacket>>
    BY DEF HandleUpdate, Arrives, Incoming, UpdateType
  <2>2. CASE localOk[p]
    BY <2>1, <2>2, Sides DEF HandleUpdate, TypeOK, CancelFlags
  <2>3. CASE ~localOk[p]
    BY <2>1, <2>3, Sides DEF HandleUpdate, TypeOK
  <2> QED BY <2>2, <2>3
<1>4. r \in Seq(UpdatePacket) /\ r \in Seq(Packet) /\ \A t \in ControlType : ~Has(r, t)
  BY ReplyIsSeq, HasBasics, PacketType
<1>5. k \in Seq(Packet) /\ k \o r \in Seq(Packet)
      /\ \A t : Has(k, t) <=> (ok(p) /\ t = "HANDSHAKECANCEL")
  <2>1. k \in Seq(Packet) /\ k \o r \in Seq(Packet)
    BY PacketsAreSeq
  <2>2. \A t : Has(k, t) <=> (ok(p) /\ t = "HANDSHAKECANCEL")
    BY HasBasics DEF ControlType, CancelPacket, ok
  <2> QED BY <2>1, <2>2
<1> HIDE DEF k
<1>6. /\ chan'[p] = s \o (k \o r) /\ chan'[q] = Tail(c) /\ Ordered(chan'[q])
      /\ \A t \in ControlType : Has(chan'[p], t) <=>
           (Has(s, t) \/ (ok(p) /\ t = "HANDSHAKECANCEL"))
      /\ \A t \in ControlType : Has(chan'[q], t) <=> Has(c, t)
      /\ Has(c, Head(c).type)
  <2>1. \A t : Has(k \o r, t) <=> Has(k, t) \/ Has(r, t)
    BY <1>4, <1>5, HasConcat
  <2>2. \A t \in ControlType : Head(c).type # t
    BY <1>3, PacketType
  <2> QED BY <1>2, <1>3, <1>4, <1>5, <2>1, <2>2, AnswerHas
<1>7. ~remoteOk[p]
  BY <1>3, Sides, CoveredHead
<1>8. state[q] = "inSetup"
  <2>1. state[q] # "init"
    BY <1>3, <1>6, Sides, HasBasics, PacketType DEF InitPart, ControlType, UpdateType
  <2>2. state[q] # "preBattle"
    BY <1>3, <1>7, Sides DEF StartPart
  <2> QED BY <2>1, <2>2, Sides DEF TypeOK, NetState
<1>9. /\ ok(p) => /\ ~Has(s, "HANDSHAKECANCEL") /\ ~Has(c, "HANDSHAKECANCELACK")
                  /\ Has(s, "HANDSHAKE1") => Has(s, "HANDSHAKECANCELACK")
      /\ ~ok(p) => \/ Has(s, "HANDSHAKECANCEL")
                   \/ ~remoteOk[q] /\ ~Has(s, "HANDSHAKE0") /\ ~Has(s, "HANDSHAKE1")
  BY <1>3, <1>7, Sides DEF CancelPart, ConfirmPart, ok
<1>10. /\ s \o k \in Seq(Packet) /\ chan'[p] = (s \o k) \o r
       /\ Ordered(s \o k) /\ Covered(s \o k, remoteOk[q])
       /\ \/ Has(s \o k, "HANDSHAKECANCEL")
          \/ ~remoteOk[q] /\ ~Has(s \o k, "HANDSHAKE0") /\ ~Has(s \o k, "HANDSHAKE1")
  <2>1. s \o k \in Seq(Packet) /\ chan'[p] = (s \o k) \o r
    <3>1. s \in Seq(Packet)
      BY Sides
    <3>2. (s \o k) \o r = s \o (k \o r)
      BY <3>1, <1>4, <1>5, ConcatOfThree
    <3> QED BY <3>1, <3>2, <1>5, <1>6, ConcatOfChannels
  <2>2. \A t : Has(s \o k, t) <=> Has(s, t) \/ Has(k, t)
    BY <1>5, Sides, HasConcat
  <2>3. CASE ok(p)
    <3>1. k = Just("HANDSHAKECANCEL")
      BY <2>3 DEF k, CancelPacket, ok
    <3>2. Ordered(s \o Just("HANDSHAKECANCEL"))
      BY <2>3, <1>9, Sides, OrderedSend DEF ControlType
    <3>3. Covered(s \o Just("HANDSHAKECANCEL"), remoteOk[q])
      BY Sides, CoveredSend DEF ControlType
    <3> QED BY <2>1, <2>2, <2>3, <3>1, <3>2, <3>3, <1>5
  <2>4. CASE ~ok(p)
    <3>1. k = <<>>
      BY <2>4 DEF k, CancelPacket, ok
    <3>2. s \o k = s
      BY <3>1, Sides, ConcatEmptySeq
    <3> QED BY <2>1, <2>2, <2>4, <3>2, <1>5, <1>9, Sides
  <2> QED BY <2>3, <2>4
<1>11. Ordered(chan'[p])
  BY <1>4, <1>10, OrderedReply
<1>12. InitPart(p)' /\ InitPart(q)'
  BY <1>3, <1>6, <1>8, Sides DEF InitPart, ControlType
<1>13. CancelPart(p)' /\ CancelPart(q)'
  BY <1>3, <1>6, <1>8, <1>9, Sides DEF CancelPart, ControlType, ok
<1>14. ConfirmPart(p)' /\ ConfirmPart(q)'
  <2>1. ConfirmPart(p)'
    <3>1. ~ok(p)' /\ (ok(p) \/ Has(s, "HANDSHAKECANCEL") <=> Has(chan'[p], "HANDSHAKECANCEL"))
      BY <1>3, <1>6 DEF ok, ControlType
    <3>2. /\ Has(chan'[p], "HANDSHAKE0") <=> Has(s, "HANDSHAKE0")
          /\ Has(chan'[p], "HANDSHAKE1") <=> Has(s, "HANDSHAKE1")
          /\ Has(chan'[p], "HANDSHAKECANCELACK") <=> Has(s, "HANDSHAKECANCELACK")
      BY <1>6 DEF ControlType
    <3> QED BY <1>3, <3>1, <3>2, Sides DEF ConfirmPart
  <2>2. ConfirmPart(q)'
    BY <1>3, <1>6, <1>8, Sides DEF ConfirmPart, ok, ControlType
  <2> QED BY <2>1, <2>2
<1>15. Covered(chan'[p], remoteOk'[q]) /\ Covered(chan'[q], remoteOk'[p])
  <2> DEFINE sk == s \o k
  <2>0. /\ sk \in Seq(Packet) /\ Covered(sk, remoteOk[q])
        /\ \/ Has(sk, "HANDSHAKECANCEL")
           \/ ~remoteOk[q] /\ ~Has(sk, "HANDSHAKE0") /\ ~Has(sk, "HANDSHAKE1")
    BY <1>10
  <2> HIDE DEF sk
  <2>1. Covered(sk \o r, remoteOk[q])
    BY <1>4, <2>0, CoveredReply
  <2>2. Head(c).type \notin {"HANDSHAKE0", "HANDSHAKE1", "HANDSHAKECANCEL"}
    BY <1>3 DEF UpdateType
  <2>3. Covered(Tail(c), remoteOk[p])
    BY <1>3, <2>2, Sides, CoveredTail DEF TypeOK
  <2> QED BY <2>1, <2>3, <1>3, <1>6, <1>10 DEF sk
<1>16. StartPart(p)' /\ StartPart(q)'
  BY <1>3, <1>8, Sides DEF StartPart
<1>17. NoPacketRefused' /\ WaitingIffConfirmed'
  BY <1>3, PeerFacts DEF IInv, NoPacketRefused, WaitingIffConfirmed
<1> QED BY <1>1, <1>6, <1>11, <1>12, <1>13, <1>14, <1>15, <1>16, <1>17, InvOfBoth

LEMMA Handshake0KeepsInv ==
  ASSUME IInv, NEW p \in Party, HandleHandshake0(p)
  PROVE  IInv'
<1> DEFINE q == Peer(p)
           s == chan[p]
           c == chan[q]
           r == IF localOk[p] /\ ~canceling[p] THEN Just("HANDSHAKE1") ELSE <<>>
<1>1. TypeOK'
  BY TypeStep, HandlersReceive DEF Next, Handle, IInv
<1>2. /\ c # <<>> /\ Head(c).type = "HANDSHAKE0" /\ Answer(p, r)
      /\ state[p] = "inSetup" /\ ~remoteOk[p]
      /\ UNCHANGED <<connected, state, localOk, canceling, inputFunc, badPacket>>
      /\ remoteOk'[p] /\ remoteOk'[q] = remoteOk[q]
  BY Sides DEF HandleHandshake0, Handshake0Answer, Arrives, Incoming, HandshakeMeaningful, TypeOK
<1>3. r \in Seq(Packet) /\ \A t : Has(r, t) <=> (ok(p) /\ t = "HANDSHAKE1")
  BY PacketsAreSeq, HasBasics DEF ControlType, ok
<1> HIDE DEF r
<1>4. ~Has(c, "INIT")
  BY <1>2, Sides DEF InitPart
<1>5. /\ chan'[p] = s \o r /\ chan'[q] = Tail(c) /\ Ordered(chan'[q])
      /\ \A t : Has(chan'[p], t) <=> (Has(s, t) \/ (ok(p) /\ t = "HANDSHAKE1"))
      /\ \A t \in ControlType : Has(chan'[q], t) <=> (Has(c, t) /\ t # "HANDSHAKE0")
      /\ Has(c, "HANDSHAKE0")
  BY <1>2, <1>3, AnswerHas
<1>6. state[q] = "inSetup"
  <2>1. state[q] # "init"
    BY <1>5, Sides, HasBasics DEF InitPart, ControlType
  <2>2. state[q] # "preBattle"
    BY <1>2, Sides DEF StartPart
  <2> QED BY <2>1, <2>2, Sides DEF TypeOK, NetState
<1>7. ok(p) => /\ ~Has(s, "HANDSHAKE1") /\ ~Has(s, "HANDSHAKECANCELACK")
               /\ ~Has(s, "HANDSHAKECANCEL")
  BY <1>2, <1>5, <1>6, Sides DEF CancelPart, ConfirmPart, ok
<1>8. Ordered(chan'[p])
  <2>1. CASE ok(p)
    <3>1. Ordered(s \o Just("HANDSHAKE1"))
      BY <2>1, <1>7, Sides, OrderedSend DEF ControlType
    <3> QED BY <2>1, <3>1, <1>5 DEF r, ok
  <2>2. CASE ~ok(p)
    BY <2>2, <1>5, Sides, ConcatEmptySeq DEF r, ok
  <2> QED BY <2>1, <2>2
<1>9. InitPart(p)' /\ InitPart(q)'
  <2>1. Has(chan'[p], "INIT") <=> Has(s, "INIT")
    BY <1>5
  <2> QED BY <1>2, <1>5, <1>6, <2>1, Sides DEF InitPart, ControlType
<1>10. CancelPart(p)' /\ CancelPart(q)'
  BY <1>2, <1>5, <1>6, Sides DEF CancelPart, ControlType
<1>11. ConfirmPart(p)' /\ ConfirmPart(q)'
  BY <1>2, <1>5, <1>6, <1>7, Sides DEF ConfirmPart, ControlType, ok
<1>12. Covered(chan'[p], remoteOk'[q]) /\ Covered(chan'[q], remoteOk'[p])
  <2>1. Covered(s \o Just("HANDSHAKE1"), remoteOk[q])
    BY Sides, CoveredSend DEF ControlType
  <2>2. Covered(Tail(c), remoteOk'[p])
    BY <1>1, <1>2, Sides, CoveredTail, ZenonT(60) DEF TypeOK
  <2> QED BY <2>1, <2>2, <1>2, <1>5, Sides, ConcatEmptySeq DEF r
<1>13. StartPart(p)' /\ StartPart(q)'
  BY <1>2, <1>6, Sides DEF StartPart
<1>14. NoPacketRefused' /\ WaitingIffConfirmed'
  BY <1>2 DEF IInv, NoPacketRefused, WaitingIffConfirmed
<1> QED BY <1>1, <1>5, <1>8, <1>9, <1>10, <1>11, <1>12, <1>13, <1>14, InvOfBoth

LEMMA HandshakeCancelKeepsInv ==
  ASSUME IInv, NEW p \in Party, HandleHandshakeCancel(p)
  PROVE  IInv'
<1> DEFINE q == Peer(p)
           s == chan[p]
           c == chan[q]
           r == Just("HANDSHAKECANCELACK")
<1>1. TypeOK'
  BY TypeStep, HandlersReceive DEF Next, Handle, IInv
<1>2. /\ c # <<>> /\ Head(c).type = "HANDSHAKECANCEL" /\ Answer(p, r)
      /\ state[p] = "inSetup" /\ remoteOk[p]
      /\ UNCHANGED <<connected, state, localOk, canceling, inputFunc, badPacket>>
      /\ ~remoteOk'[p] /\ remoteOk'[q] = remoteOk[q]
  BY Sides DEF HandleHandshakeCancel, Arrives, Incoming, HandshakeMeaningful, TypeOK
<1>3. r \in Seq(Packet) /\ \A t : Has(r, t) <=> t = "HANDSHAKECANCELACK"
  BY PacketsAreSeq, HasBasics DEF ControlType
<1> HIDE DEF r
<1>4. ~Has(c, "HANDSHAKE0") /\ ~Has(c, "HANDSHAKE1")
  BY <1>2, Sides, BeforeTail DEF Ordered
<1>5. /\ chan'[p] = s \o r /\ chan'[q] = Tail(c) /\ Ordered(chan'[q])
      /\ \A t : Has(chan'[p], t) <=> (Has(s, t) \/ t = "HANDSHAKECANCELACK")
      /\ \A t \in ControlType :
           Has(chan'[q], t) <=> (Has(c, t) /\ t # "HANDSHAKECANCEL")
      /\ Has(c, "HANDSHAKECANCEL")
  BY <1>2, <1>3, AnswerHas, ZenonT(30)
<1>6. state[q] = "inSetup"
  <2>1. state[q] # "init"
    BY <1>5, Sides, HasBasics DEF InitPart, ControlType
  <2>2. state[q] # "preBattle"
    BY <1>2, <1>5, Sides, HasBasics DEF StartPart, ControlType
  <2> QED BY <2>1, <2>2, Sides DEF TypeOK, NetState
<1>7. canceling[q] /\ ~Has(s, "HANDSHAKECANCELACK")
  BY <1>2, <1>5, <1>6, Sides DEF CancelPart
<1>8. Ordered(chan'[p])
  BY <1>5, <1>7, Sides, OrderedSend DEF ControlType, r
<1>9. InitPart(p)' /\ InitPart(q)'
  BY <1>2, <1>5, <1>6, Sides DEF InitPart, ControlType
<1>10. CancelPart(p)' /\ CancelPart(q)'
  BY <1>2, <1>5, <1>6, <1>7, Sides DEF CancelPart, ControlType
<1>11. ConfirmPart(p)' /\ ConfirmPart(q)'
  BY <1>2, <1>4, <1>5, <1>6, <1>7, Sides DEF ConfirmPart, ControlType, ok
<1>12. Covered(chan'[p], remoteOk'[q]) /\ Covered(chan'[q], remoteOk'[p])
  <2>1. Covered(s \o Just("HANDSHAKECANCELACK"), remoteOk[q])
    BY Sides, CoveredSend DEF ControlType
  <2>2. Covered(Tail(c), remoteOk'[p])
    BY <1>1, <1>2, Sides, CoveredTail DEF TypeOK
  <2> QED BY <2>1, <2>2, <1>2, <1>5 DEF r
<1>13. StartPart(p)' /\ StartPart(q)'
  BY <1>2, <1>6, Sides DEF StartPart
<1>14. NoPacketRefused' /\ WaitingIffConfirmed'
  BY <1>2 DEF IInv, NoPacketRefused, WaitingIffConfirmed
<1> QED BY <1>1, <1>5, <1>8, <1>9, <1>10, <1>11, <1>12, <1>13, <1>14, InvOfBoth

LEMMA HandshakeCancelAckKeepsInv ==
  ASSUME IInv, NEW p \in Party, HandleHandshakeCancelAck(p)
  PROVE  IInv'
<1> DEFINE q == Peer(p)
           s == chan[p]
           c == chan[q]
           x == IF remoteOk[p] THEN "HANDSHAKE1" ELSE "HANDSHAKE0"
           r == IF ~localOk[p] THEN <<>>
                ELSE IF remoteOk[p] THEN Just("HANDSHAKE1") ELSE Just("HANDSHAKE0")
<1>1. TypeOK'
  BY TypeStep, HandlersReceive DEF Next, Handle, IInv
<1>2. /\ c # <<>> /\ Head(c).type = "HANDSHAKECANCELACK" /\ Answer(p, r)
      /\ state[p] = "inSetup" /\ canceling[p]
      /\ UNCHANGED <<connected, state, localOk, remoteOk, inputFunc, badPacket>>
      /\ ~canceling'[p] /\ canceling'[q] = canceling[q]
  BY Sides DEF HandleHandshakeCancelAck, CancelAckAnswer, Arrives, Incoming, HandshakeMeaningful, TypeOK
<1>3. r \in Seq(Packet) /\ \A t : Has(r, t) <=> (localOk[p] /\ t = x)
  BY PacketsAreSeq, HasBasics DEF ControlType
<1> HIDE DEF r
<1>4. ~Has(c, "HANDSHAKE1")
  BY <1>2, Sides, BeforeTail DEF Ordered
<1>5. /\ chan'[p] = s \o r /\ chan'[q] = Tail(c) /\ Ordered(chan'[q])
      /\ \A t : Has(chan'[p], t) <=> (Has(s, t) \/ (localOk[p] /\ t = x))
      /\ \A t \in ControlType :
           Has(chan'[q], t) <=> (Has(c, t) /\ t # "HANDSHAKECANCELACK")
      /\ Has(c, "HANDSHAKECANCELACK")
  BY <1>2, <1>3, AnswerHas
<1>6. state[q] = "inSetup"
  <2>1. state[q] # "init"
    BY <1>5, Sides, HasBasics DEF InitPart, ControlType
  <2>2. state[q] # "preBattle"
    BY <1>2, Sides DEF StartPart, ok
  <2> QED BY <2>1, <2>2, Sides DEF TypeOK, NetState
<1>7. /\ ~Has(s, "HANDSHAKECANCEL") /\ ~Has(s, "HANDSHAKE0") /\ ~Has(s, "HANDSHAKE1")
      /\ Has(s, "HANDSHAKECANCELACK") => ~remoteOk[p]
      /\ ~remoteOk[q]
  BY <1>2, <1>5, <1>6, Sides DEF CancelPart, ConfirmPart, ok
<1>8. Ordered(chan'[p])
  <2>1. CASE localOk[p]
    <3>1. Ordered(s \o Just(x))
      BY <1>7, Sides, OrderedSend DEF ControlType
    <3> QED BY <2>1, <3>1, <1>5 DEF r
  <2>2. CASE ~localOk[p]
    BY <2>2, <1>5, Sides, ConcatEmptySeq DEF r
  <2> QED BY <2>1, <2>2
<1>9. InitPart(p)' /\ InitPart(q)'
  BY <1>2, <1>5, <1>6, Sides DEF InitPart, ControlType
<1>10. CancelPart(p)' /\ CancelPart(q)'
  BY <1>2, <1>5, <1>6, <1>7, Sides DEF CancelPart, ControlType
<1>11. ConfirmPart(p)' /\ ConfirmPart(q)'
  BY <1>2, <1>4, <1>5, <1>6, <1>7, Sides DEF ConfirmPart, ControlType, ok
<1>12. Covered(chan'[p], remoteOk'[q]) /\ Covered(chan'[q], remoteOk'[p])
  <2>1. \A y \in ControlType : Covered(s \o Just(y), remoteOk[q])
    BY Sides, CoveredSend
  <2>2. Covered(Tail(c), remoteOk[p])
    BY <1>2, Sides, CoveredTail DEF TypeOK
  <2> QED BY <2>1, <2>2, <1>2, <1>5, Sides, ConcatEmptySeq DEF r, ControlType
<1>13. StartPart(p)' /\ StartPart(q)'
  BY <1>2, <1>6, Sides DEF StartPart
<1>14. NoPacketRefused' /\ WaitingIffConfirmed'
  BY <1>2 DEF IInv, NoPacketRefused, WaitingIffConfirmed
<1> QED BY <1>1, <1>5, <1>8, <1>9, <1>10, <1>11, <1>12, <1>13, <1>14, InvOfBoth

(* A HANDSHAKE1 that neither a CANCEL nor an acknowledgement of one        *)
(* follows is the last packet of its channel.                              *)
LEMMA Handshake1IsLast ==
  ASSUME NEW s \in Seq(Packet), s # <<>>, Ordered(s),
         NEW remote, Covered(s, remote),
         Head(s).type = "HANDSHAKE1", ~Has(s, "HANDSHAKECANCELACK"),
         ~Has(s, "HANDSHAKECANCEL")
  PROVE  Tail(s) = <<>>
<1>1. ~Has(s, "INIT") /\ ~Has(s, "HANDSHAKE0") /\ ~Has(Tail(s), "HANDSHAKE1")
  BY BeforeTail, OnceTail DEF Ordered, ControlType
<1>2. 1 \in DOMAIN s /\ s[1].type = "HANDSHAKE1" /\ \A i \in DOMAIN s : i = 1 \/ 1 < i
  BY TailOfChannel
<1>3. ~Has(s, "HANDSHAKECANCEL")
  OBVIOUS
<1>4. ASSUME NEW u \in UpdateType
      PROVE  ~Has(s, u)
  <2> SUFFICES ASSUME NEW i \in DOMAIN s, s[i].type = u
               PROVE  FALSE
    BY DEF Has
  <2>1. i # 1
    BY <1>2 DEF UpdateType
  <2> QED BY <1>2, <1>3, <2>1 DEF Covered, Has
<1>5. \A t : Has(Tail(s), t) => Has(s, t)
  BY HasTail
<1>6. \A t \in ControlType \cup UpdateType : ~Has(Tail(s), t)
  BY <1>1, <1>3, <1>4, <1>5 DEF ControlType
<1> QED BY <1>6, HasBasics, TailOfChannel

LEMMA OnlyHandshake1 ==
  ASSUME NEW s \in Seq(Packet), Once(s), Has(s, "HANDSHAKE1"),
         \A t \in ControlType \cup UpdateType : Has(s, t) => t = "HANDSHAKE1"
  PROVE  s = Just("HANDSHAKE1")
<1>1. Len(s) \in Nat /\ DOMAIN s = 1..Len(s)
  BY LenProperties
<1>2. \A i \in DOMAIN s : s[i] \in Packet /\ s[i].type = "HANDSHAKE1"
  <2>1. \A i \in DOMAIN s : s[i] \in Packet
    BY <1>1, ElementOfSeq
  <2> QED BY <2>1, PacketType DEF Has
<1>3. \A i, j \in DOMAIN s : i = j
  BY <1>2 DEF Once, ControlType
<1>4. Len(s) = 1
  <2>1. Len(s) # 0
    BY <1>1 DEF Has
  <2>2. Len(s) > 1 => 1 \in DOMAIN s /\ 2 \in DOMAIN s
    BY <1>1
  <2> QED BY <1>1, <1>3, <2>1, <2>2
<1>5. s[1] = [type |-> "HANDSHAKE1"]
  <2>1. s[1] \in [type : ControlType]
    BY <1>1, <1>2, <1>4, PacketType DEF Packet, UpdateType
  <2> QED BY <1>1, <1>2, <1>4, <2>1
<1>6. Just("HANDSHAKE1") \in Seq(Packet) /\ Len(Just("HANDSHAKE1")) = 1
      /\ Just("HANDSHAKE1")[1] = [type |-> "HANDSHAKE1"]
  BY PacketType DEF Just, ControlType
<1> QED BY <1>4, <1>5, <1>6, SeqEqual

(* Behind a HANDSHAKE1 with no acknowledgement the next packet is the      *)
(* CANCEL: what settings there are come after it.                          *)
LEMMA CancelIsNext ==
  ASSUME NEW s \in Seq(Packet), s # <<>>, Ordered(s),
         NEW remote, Covered(s, remote),
         Head(s).type = "HANDSHAKE1", ~Has(s, "HANDSHAKECANCELACK"),
         Has(s, "HANDSHAKECANCEL")
  PROVE  Tail(s) # <<>> /\ Head(Tail(s)).type = "HANDSHAKECANCEL"
<1>1. ~Has(s, "INIT") /\ ~Has(s, "HANDSHAKE0") /\ ~Has(Tail(s), "HANDSHAKE1")
  BY BeforeTail, OnceTail DEF Ordered, ControlType
<1>2. 1 \in DOMAIN s /\ s[1].type = "HANDSHAKE1" /\ Len(s) \in Nat /\ DOMAIN s = 1..Len(s)
  BY TailOfChannel
<1>3. Has(Tail(s), "HANDSHAKECANCEL")
  BY HasTail
<1>4. Tail(s) # <<>> /\ Tail(s) \in Seq(Packet)
  <2>1. Tail(s) \in Seq(Packet)
    BY TailOfChannel
  <2>2. ~Has(<<>>, "HANDSHAKECANCEL")
    BY HasBasics
  <2> QED BY <1>3, <2>1, <2>2
<1>5. Head(Tail(s)) \in Packet /\ Head(Tail(s)) = s[2] /\ 2 \in DOMAIN s
  <2>1. Head(Tail(s)) \in Packet /\ Head(Tail(s)) = Tail(s)[1] /\ 1 \in DOMAIN Tail(s)
    BY <1>4, TailOfChannel
  <2> QED BY <2>1, TailOfChannel
<1>6. s[2].type \notin UpdateType
  <2> SUFFICES ASSUME s[2].type \in UpdateType
               PROVE  FALSE
    OBVIOUS
  <2>1. PICK j \in DOMAIN s : j < 2 /\ s[j].type = "HANDSHAKECANCEL"
    BY <1>2, <1>5 DEF Covered
  <2> QED BY <1>2, <2>1
<1>7. Has(s, s[2].type) /\ Has(Tail(s), s[2].type)
  <2>1. Has(s, s[2].type)
    BY <1>5 DEF Has
  <2>2. Has(Tail(s), Head(Tail(s)).type) <=>
          Head(Tail(s)).type = Head(Tail(s)).type \/ Has(Tail(Tail(s)), Head(Tail(s)).type)
    BY <1>4, HasTail
  <2> QED BY <1>5, <2>1, <2>2
<1> QED BY <1>1, <1>4, <1>5, <1>6, <1>7, PacketType DEF ControlType

(* A HANDSHAKE1 keeps the invariant unless its sender has cancelled what   *)
(* the receiver takes to stand.                                            *)
LEMMA Handshake1KeepsInv ==
  ASSUME IInv, NEW p \in Party, HandleHandshake1(p),
         canceling[p] \/ ~Has(chan[Peer(p)], "HANDSHAKECANCEL")
  PROVE  IInv'
<1> DEFINE q == Peer(p)
           s == chan[p]
           c == chan[q]
<1>1. TypeOK'
  BY TypeStep, HandlersReceive DEF Next, Handle, IInv
<1>2. /\ c # <<>> /\ Head(c).type = "HANDSHAKE1" /\ state[p] = "inSetup"
      /\ localOk[p] \/ canceling[p]
      /\ UNCHANGED <<connected, canceling, inputFunc, badPacket>>
      /\ state'[q] = state[q] /\ localOk'[q] = localOk[q] /\ remoteOk'[q] = remoteOk[q]
  BY Sides DEF HandleHandshake1, Arrives, Incoming, HandshakeMeaningful, TypeOK
<1>3. /\ ~Has(c, "HANDSHAKE0") /\ ~Has(c, "INIT") /\ Has(c, "HANDSHAKE1")
  BY <1>2, Sides, BeforeTail, HasTail DEF Ordered, ControlType
<1>4. state[q] # "init"
  BY <1>3, Sides, HasBasics DEF InitPart, ControlType
<1>5. CASE canceling[p]
  <2>1. /\ Answer(p, <<>>) /\ UNCHANGED <<state, localOk>> /\ remoteOk'[p]
    BY <1>5, Sides DEF HandleHandshake1, TypeOK
  <2>2. /\ chan'[p] = s /\ chan'[q] = Tail(c) /\ Ordered(chan'[q])
        /\ \A t \in ControlType : Has(chan'[q], t) <=> (Has(c, t) /\ t # "HANDSHAKE1")
    BY <1>2, <2>1, AnswerHas, PacketsAreSeq, ConcatEmptySeq, Sides, ZenonT(60)
  <2>3. state[q] = "inSetup"
    BY <1>4, <1>5, Sides DEF StartPart, ok, TypeOK, NetState
  <2>4. InitPart(p)' /\ InitPart(q)'
    BY <1>2, <2>1, <2>2, <2>3, Sides DEF InitPart, ControlType
  <2>5. CancelPart(p)' /\ CancelPart(q)'
    BY <1>2, <2>1, <2>2, <2>3, Sides DEF CancelPart, ControlType
  <2>6. ConfirmPart(p)' /\ ConfirmPart(q)'
    BY <1>2, <1>3, <1>5, <2>1, <2>2, <2>3, Sides DEF CancelPart, ConfirmPart, ControlType, ok
  <2>7. Covered(chan'[p], remoteOk'[q]) /\ Covered(chan'[q], remoteOk'[p])
    <3>1. Covered(Tail(c), remoteOk'[p])
      BY <1>1, <1>2, Sides, CoveredTail DEF TypeOK
    <3> QED BY <1>2, <2>2, <3>1, Sides
  <2>8. StartPart(p)' /\ StartPart(q)'
    BY <1>2, <2>1, <2>3, Sides DEF StartPart
  <2>9. NoPacketRefused' /\ WaitingIffConfirmed'
    BY <1>2, <2>1 DEF IInv, NoPacketRefused, WaitingIffConfirmed
  <2> QED BY <1>1, <2>2, <2>4, <2>5, <2>6, <2>7, <2>8, <2>9, Sides, InvOfBoth
<1>6. CASE ~canceling[p]
  <2> DEFINE r == IF remoteOk[p] THEN <<>> ELSE Just("HANDSHAKE1")
  <2>1. /\ Answer(p, r) /\ state'[p] = "preBattle" /\ ~localOk'[p] /\ ~remoteOk'[p]
    BY <1>6, Sides DEF HandleHandshake1, Handshake1Answer, TypeOK
  <2>2. ok(p) /\ ~Has(c, "HANDSHAKECANCELACK") /\ ~Has(s, "HANDSHAKECANCEL")
    BY <1>2, <1>6, Sides DEF CancelPart, ok
  <2>3. r \in Seq(Packet)
    BY PacketsAreSeq
  <2> HIDE DEF r
  <2>4. chan'[p] = s \o r /\ chan'[q] = <<>>
    <3>1. Tail(c) = <<>>
      BY <1>2, <1>6, <2>2, Sides, Handshake1IsLast
    <3> QED BY <1>2, <2>1, <2>3, <3>1, AnswerHas
  <2>5. \A t : Has(c, t) => t = "HANDSHAKE1"
    <3>1. Tail(c) = <<>>
      BY <1>2, <1>6, <2>2, Sides, Handshake1IsLast
    <3>2. \A t : Has(c, t) <=> Head(c).type = t \/ Has(Tail(c), t)
      BY <1>2, HasTail, Sides
    <3>3. \A t : ~Has(Tail(c), t)
      BY <3>1, HasBasics
    <3> QED BY <1>2, <3>2, <3>3
  <2>6. ASSUME state[q] = "inSetup"
        PROVE  ok(q) /\ remoteOk[q] /\ chan'[p] = Just("HANDSHAKE1")
    <3>1. ok(q) /\ remoteOk[q]
      BY <1>3, <2>2, <2>5, <2>6, Sides DEF ConfirmPart
    <3>2. ~Has(s, "INIT") /\ ~Has(s, "HANDSHAKE0") /\ ~Has(s, "HANDSHAKECANCELACK")
      BY <1>2, <2>6, <3>1, Sides DEF InitPart, ConfirmPart, CancelPart, ok
    <3>3. \A u \in UpdateType : ~Has(s, u)
      BY <2>2, <3>1, Sides DEF Covered, Has
    <3>4. \A t \in ControlType \cup UpdateType : Has(s, t) => t = "HANDSHAKE1"
      BY <2>2, <3>2, <3>3 DEF ControlType
    <3>5. CASE remoteOk[p]
      <4>1. Has(s, "HANDSHAKE1")
        BY <1>2, <2>2, <2>5, <2>6, <3>5, Sides DEF ConfirmPart
      <4>2. s = Just("HANDSHAKE1")
        BY <3>4, <4>1, Sides, OnlyHandshake1 DEF Ordered
      <4> QED BY <3>1, <3>5, <2>4, <4>2, Sides, ConcatEmptySeq DEF r
    <3>6. CASE ~remoteOk[p]
      <4>1. ~Has(s, "HANDSHAKE1")
        BY <1>2, <3>2, <3>6, Sides DEF ConfirmPart
      <4>2. s = <<>>
        BY <3>4, <4>1, Sides, HasBasics
      <4> QED BY <3>1, <3>6, <2>3, <2>4, <4>2, ConcatEmptySeq DEF r
    <3> QED BY <3>5, <3>6
  <2>7. ASSUME state[q] = "preBattle"
        PROVE  chan'[p] = <<>> /\ ~localOk[q] /\ ~remoteOk[q] /\ ~canceling[q]
    <3>1. s = <<>> /\ remoteOk[p] /\ ~localOk[q] /\ ~remoteOk[q] /\ ~canceling[q]
      BY <1>2, <2>7, Sides DEF StartPart
    <3> QED BY <2>4, <3>1, Sides, ConcatEmptySeq DEF r
  <2>8. state[q] = "inSetup" \/ state[q] = "preBattle"
    BY <1>4, Sides DEF TypeOK, NetState
  <2>9. StartPart(p)' /\ StartPart(q)'
    BY <1>2, <1>6, <2>1, <2>4, <2>6, <2>7, <2>8, Sides DEF StartPart, ok
  <2>10. Ordered(chan'[p]) /\ Ordered(chan'[q])
    <3>1. Ordered(<<>>)
      BY DEF Ordered, Once, Before
    <3>2. Ordered(<<>> \o Just("HANDSHAKE1"))
      BY <3>1, PacketsAreSeq, HasBasics, OrderedSend DEF ControlType
    <3>3. Ordered(Just("HANDSHAKE1"))
      BY <3>2, PacketsAreSeq, ConcatEmptySeq
    <3> QED BY <2>4, <2>6, <2>7, <2>8, <3>1, <3>3
  <2>11. \A t : ~Has(chan'[q], t) /\ (Has(chan'[p], t) => t = "HANDSHAKE1")
    BY <2>4, <2>6, <2>7, <2>8, HasBasics DEF ControlType
  <2>12. InitPart(p)' /\ InitPart(q)'
    BY <1>2, <2>1, <2>8, <2>11, Sides DEF InitPart
  <2>13. CancelPart(p)' /\ CancelPart(q)'
    BY <1>2, <2>1, <2>6, <2>8, <2>11, Sides DEF CancelPart, ok
  <2>14. ConfirmPart(p)' /\ ConfirmPart(q)'
    BY <1>2, <2>1, <2>11, Sides DEF ConfirmPart
  <2>15. Covered(chan'[p], remoteOk'[q]) /\ Covered(chan'[q], remoteOk'[p])
    <3>1. \A x : x = <<>> \/ x = Just("HANDSHAKE1") => Covered(x, remoteOk'[q])
      BY DEF Covered, Just, UpdateType
    <3>2. Covered(<<>>, remoteOk'[p])
      BY DEF Covered
    <3> QED BY <2>4, <2>6, <2>7, <2>8, <3>1, <3>2
  <2>16. NoPacketRefused' /\ WaitingIffConfirmed'
    BY <1>2, <2>1, PeerFacts DEF IInv, NoPacketRefused, WaitingIffConfirmed
  <2> QED BY <1>1, <2>9, <2>10, <2>12, <2>13, <2>14, <2>15, <2>16, InvOfBoth
<1> QED BY <1>5, <1>6

(* When it has, its CANCEL is the next packet, and comes too late.         *)
LEMMA Handshake1BeforeCancel ==
  ASSUME IInv, NEW p \in Party, HandleHandshake1(p),
         ~canceling[p], Has(chan[Peer(p)], "HANDSHAKECANCEL")
  PROVE  LateCancel(p)' /\ WaitingIffConfirmed'
<1> DEFINE q == Peer(p)
           s == chan[p]
           c == chan[q]
           r == IF remoteOk[p] THEN <<>> ELSE Just("HANDSHAKE1")
<1>1. /\ c # <<>> /\ Head(c).type = "HANDSHAKE1" /\ state[p] = "inSetup" /\ localOk[p]
      /\ UNCHANGED <<connected, canceling, inputFunc, badPacket>>
      /\ state'[q] = state[q] /\ localOk'[q] = localOk[q] /\ remoteOk'[q] = remoteOk[q]
      /\ Answer(p, r) /\ state'[p] = "preBattle" /\ ~localOk'[p] /\ ~remoteOk'[p]
  BY Sides DEF HandleHandshake1, Handshake1Answer, Arrives, Incoming, HandshakeMeaningful, TypeOK
<1>2. r \in Seq(Packet)
  BY PacketsAreSeq
<1> HIDE DEF r
<1>3. ~Has(c, "INIT") /\ ~Has(c, "HANDSHAKE0") /\ Has(c, "HANDSHAKE1")
  BY <1>1, Sides, BeforeTail, HasTail DEF Ordered, ControlType
<1>4. state[q] = "inSetup" /\ canceling[q]
  <2>1. state[q] # "init"
    BY <1>3, Sides, HasBasics DEF InitPart, ControlType
  <2>2. state[q] # "preBattle"
    BY <1>1, <1>3, Sides, HasBasics DEF StartPart, ControlType
  <2>3. state[q] = "inSetup"
    BY <2>1, <2>2, Sides DEF TypeOK, NetState
  <2> QED BY <2>3, Sides DEF CancelPart
<1>5. /\ ~Has(c, "HANDSHAKECANCELACK") /\ ~Has(s, "HANDSHAKECANCEL") /\ ~Has(s, "HANDSHAKECANCELACK")
      /\ remoteOk[q] /\ ~Has(s, "INIT") /\ ~Has(s, "HANDSHAKE0")
  BY <1>1, <1>3, <1>4, Sides DEF CancelPart, ConfirmPart, InitPart
<1>7. chan'[p] = s \o r /\ chan'[q] = Tail(c)
  BY <1>1, <1>2, AnswerHas
<1>8. chan'[p] \in {<<>>, Just("HANDSHAKE1")}
  <2>1. \A u \in UpdateType : ~Has(s, u)
    BY <1>5, Sides DEF Covered, Has
  <2>2. \A t \in ControlType \cup UpdateType : Has(s, t) => t = "HANDSHAKE1"
    BY <1>5, <2>1 DEF ControlType
  <2>3. CASE Has(s, "HANDSHAKE1")
    <3>1. remoteOk[p]
      BY <1>1, <1>5, <2>3, Sides DEF ConfirmPart
    <3>2. s = Just("HANDSHAKE1")
      BY <2>2, <2>3, Sides, OnlyHandshake1 DEF Ordered
    <3> QED BY <1>7, <3>1, <3>2, Sides, ConcatEmptySeq DEF r
  <2>4. CASE ~Has(s, "HANDSHAKE1")
    <3>1. s = <<>>
      BY <2>2, <2>4, Sides, HasBasics
    <3> QED BY <1>2, <1>7, <3>1, ConcatEmptySeq DEF r
  <2> QED BY <2>3, <2>4
<1>9. Tail(c) # <<>> /\ Head(Tail(c)).type = "HANDSHAKECANCEL"
  BY <1>1, <1>3, <1>5, Sides, CancelIsNext
<1>10. badPacket'[p] = "none" /\ badPacket'[q] = "none"
  BY <1>1, Sides DEF IInv, NoPacketRefused
<1>11. LateCancel(p)'
  BY <1>1, <1>4, <1>7, <1>8, <1>9, <1>10, Sides DEF LateCancel
<1>12. WaitingIffConfirmed'
  BY <1>1, PeerFacts DEF IInv, WaitingIffConfirmed
<1> QED BY <1>11, <1>12

(* With the invariant no packet is refused.                                *)
LEMMA HeadIsAcceptable ==
  ASSUME IInv, NEW p \in Party, chan[Peer(p)] # <<>>
  PROVE  Acceptable(p, Incoming(p).type)
<1> DEFINE q == Peer(p)
           s == chan[p]
           c == chan[q]
           h == Head(c).type
<1>1. c \in Seq(Packet) /\ c # <<>> /\ Has(c, h) /\ h \in ControlType \cup UpdateType
  BY Sides, TailOfChannel, HasTail, PacketType
<1>2. state[p] # "preBattle"
  BY <1>1, Sides DEF StartPart
<1>3. h # "INIT" => state[p] = "inSetup"
  <2>1. h # "INIT" => ~Has(c, "INIT")
    BY <1>1, Sides, BeforeTail DEF Ordered
  <2> QED BY <1>2, <2>1, Sides DEF InitPart, TypeOK, NetState
<1>4. CASE h = "INIT"
  <2>1. state[p] = "init"
    BY <1>1, <1>4, Sides DEF InitPart
  <2> QED BY <1>4, <2>1 DEF Acceptable, Incoming
<1>5. CASE h \in UpdateType
  BY <1>3, <1>5 DEF Acceptable, Incoming, UpdateType
<1>6. CASE h = "HANDSHAKE0"
  <2>1. state[q] = "inSetup"
    BY <1>1, <1>3, <1>6, Sides, HasBasics
       DEF InitPart, StartPart, TypeOK, NetState, ControlType
  <2> QED BY <1>1, <1>3, <1>6, <2>1, Sides
          DEF ConfirmPart, Acceptable, Incoming, HandshakeMeaningful
<1>7. CASE h = "HANDSHAKE1"
  <2>1. state[q] # "init"
    BY <1>1, <1>7, Sides, HasBasics DEF InitPart, ControlType
  <2>2. localOk[p] \/ canceling[p]
    BY <1>1, <1>3, <1>7, <2>1, Sides
       DEF ConfirmPart, CancelPart, StartPart, ok, TypeOK, NetState
  <2> QED BY <1>3, <1>7, <2>2 DEF Acceptable, Incoming, HandshakeMeaningful
<1>8. CASE h = "HANDSHAKECANCEL"
  <2>1. state[q] = "inSetup"
    BY <1>1, <1>3, <1>8, Sides, HasBasics
       DEF InitPart, StartPart, TypeOK, NetState, ControlType
  <2>2. ~Has(c, "HANDSHAKE0") /\ ~Has(c, "HANDSHAKE1")
    BY <1>1, <1>8, Sides, BeforeTail DEF Ordered
  <2>3. remoteOk[p]
    BY <1>1, <1>2, <1>8, <2>1, <2>2, Sides DEF ConfirmPart
  <2> QED BY <1>3, <1>8, <2>3 DEF Acceptable, Incoming, HandshakeMeaningful
<1>9. CASE h = "HANDSHAKECANCELACK"
  BY <1>1, <1>3, <1>9, Sides DEF CancelPart, Acceptable, Incoming, HandshakeMeaningful
<1> QED BY <1>1, <1>4, <1>5, <1>6, <1>7, <1>8, <1>9 DEF ControlType

LEMMA CloseKeepsInv ==
  ASSUME IInv, NEW p \in Party, Close(p), UNCHANGED <<chan, badPacket>>
  PROVE  IInv'
<1>1. TypeOK'
  BY DEF Close, IInv, TypeOK
<1>2. UNCHANGED <<state, localOk, remoteOk, canceling, chan, badPacket>>
  BY DEF Close
<1>3. \A r \in Party : inputFunc'[r] = "DoMelee" \/ inputFunc'[r] = inputFunc[r]
  BY DEF Close, IInv, TypeOK
<1>4. WaitingIffConfirmed'
  BY DEF Close, IInv, TypeOK, WaitingIffConfirmed
<1>5. NoPacketRefused' /\ ChannelsOrdered'
  BY <1>2 DEF IInv, NoPacketRefused, ChannelsOrdered
<1>6. ASSUME NEW r \in Party
      PROVE  (InitPart(r) /\ CancelPart(r) /\ ConfirmPart(r) /\ SettingsPart(r) /\ StartPart(r))'
  <2>1. InitPart(r) /\ CancelPart(r) /\ ConfirmPart(r) /\ SettingsPart(r) /\ StartPart(r)
    BY DEF IInv
  <2>2. InitPart(r)'
    BY <1>2, <1>3, <2>1 DEF InitPart
  <2>3. CancelPart(r)' /\ ConfirmPart(r)'
    BY <1>2, <2>1 DEF CancelPart, ConfirmPart, ok
  <2>4. SettingsPart(r)' /\ StartPart(r)'
    BY <1>2, <2>1 DEF SettingsPart, StartPart, ok
  <2> QED BY <2>2, <2>3, <2>4
<1> QED BY <1>1, <1>4, <1>5, <1>6 DEF IInv

LEMMA StutterKeepsInv ==
  ASSUME IInv, UNCHANGED vars
  PROVE  IInv'
BY DEF vars, IInv, TypeOK, NoPacketRefused, WaitingIffConfirmed, ChannelsOrdered,
       InitPart, CancelPart, ConfirmPart, SettingsPart, StartPart, ok

(* A step of the negotiation keeps the invariant, or is the one that makes *)
(* a CANCEL come too late.                                                 *)
LEMMA InvOrLate ==
  ASSUME IInv, [Next]_vars
  PROVE  IInv' \/ (WaitingIffConfirmed' /\ \E r \in Party : LateCancel(r)')
<1>1. CASE UNCHANGED vars
  BY <1>1, StutterKeepsInv
<1>2. ASSUME NEW p \in Party,
             Confirm(p) \/ Cancel(p) \/ LocalChange(p) \/ Receive(p)
               \/ PeerClosed(p) \/ Disconnect(p)
      PROVE  IInv' \/ (WaitingIffConfirmed' /\ \E r \in Party : LateCancel(r)')
  <2>1. CASE Confirm(p)
    BY <2>1, ConfirmKeepsInv
  <2>2. CASE Cancel(p)
    BY <2>2, CancelKeepsInv, CancelComesLate, PeerFacts
  <2>3. CASE LocalChange(p)
    BY <2>3, LocalChangeKeepsInv
  <2>4. CASE HandleInit(p)
    BY <2>4, InitKeepsInv
  <2>5. CASE HandleUpdate(p)
    BY <2>5, UpdateKeepsInv
  <2>6. CASE HandleHandshake0(p)
    BY <2>6, Handshake0KeepsInv
  <2>7. CASE HandleHandshake1(p)
    BY <2>7, Handshake1KeepsInv, Handshake1BeforeCancel
  <2>8. CASE HandleHandshakeCancel(p)
    BY <2>8, HandshakeCancelKeepsInv
  <2>9. CASE HandleHandshakeCancelAck(p)
    BY <2>9, HandshakeCancelAckKeepsInv
  <2>10. CASE RefusePacket(p)
    BY <2>10, HeadIsAcceptable DEF RefusePacket, Refusable
  <2>11. CASE PeerClosed(p) \/ Disconnect(p)
    BY <2>11, CloseKeepsInv DEF PeerClosed, Disconnect
  <2> QED BY <1>2, <2>1, <2>2, <2>3, <2>4, <2>5, <2>6, <2>7, <2>8, <2>9, <2>10, <2>11
          DEF Receive, Handle
<1> QED BY <1>1, <1>2 DEF Next

(* What is left once a CANCEL has come too late: the side that has started *)
(* only refuses it, the other one waits for an acknowledgement.            *)
LEMMA LateStep ==
  ASSUME TypeOK, WaitingIffConfirmed, NEW p \in Party, LateCancel(p), [Next]_vars
  PROVE  LateCancel(p)' /\ WaitingIffConfirmed'
<1> DEFINE q == Peer(p)
<1>0. q \in Party /\ q # p /\ Peer(q) = p /\ \A r \in Party : r = p \/ r = q
  BY PeerFacts
<1>1. /\ state[p] = "preBattle" /\ ~localOk[p] /\ ~remoteOk[p] /\ ~canceling[p]
      /\ state[q] = "inSetup" /\ canceling[q] /\ badPacket[q] = "none"
      /\ chan[p] \in {<<>>, Just("HANDSHAKE1")}
      /\ connected[p] => /\ badPacket[p] = "none" /\ chan[q] # <<>>
                         /\ Head(chan[q]).type = "HANDSHAKECANCEL"
      /\ badPacket[p] \in {"none", "HANDSHAKECANCEL"}
  BY DEF LateCancel
<1>2. Just("HANDSHAKE1") # <<>> /\ Head(Just("HANDSHAKE1")).type = "HANDSHAKE1"
      /\ Tail(Just("HANDSHAKE1")) = <<>>
  BY TailOfJust DEF Just, ControlType
<1>3. chan[p] \in Seq(Packet) /\ chan[q] \in Seq(Packet)
  BY <1>0 DEF TypeOK
<1>4. ASSUME UNCHANGED <<state, remoteOk, canceling, badPacket, connected>>,
             localOk'[p] = localOk[p], chan'[p] = chan[p],
             NEW r \in Seq(Packet), chan'[q] = chan[q] \o r
      PROVE  LateCancel(p)'
  <2>1. chan[q] # <<>> => chan'[q] # <<>> /\ Head(chan'[q]) = Head(chan[q])
    <3>1. ASSUME chan[q] # <<>>
          PROVE  chan'[q] # <<>> /\ Head(chan'[q]) = Head(chan[q])
      <4>1. chan'[q] \in Seq(Packet) /\ 1 \in DOMAIN chan[q] /\ 1 \in DOMAIN chan'[q]
            /\ chan'[q][1] = chan[q][1] /\ Head(chan[q]) = chan[q][1]
        BY <1>3, <1>4, <3>1, ConcatOfChannels, TailOfChannel
      <4>2. chan'[q] # <<>>
        BY <4>1
      <4> QED BY <4>1, <4>2, TailOfChannel
    <3> QED BY <3>1
  <2> QED BY <1>0, <1>1, <1>4, <2>1 DEF LateCancel
<1>5. ASSUME NEW r \in Party, Confirm(r)
      PROVE  LateCancel(p)' /\ WaitingIffConfirmed'
  <2>1. r = q
    BY <1>0, <1>1, <1>5 DEF Confirm, HandshakeMeaningful
  <2>2. /\ UNCHANGED <<connected, state, remoteOk, canceling, badPacket>>
        /\ localOk'[q] /\ localOk'[p] = localOk[p]
        /\ inputFunc'[q] = "DoConfirmSettings" /\ inputFunc'[p] = inputFunc[p]
        /\ Send(q, ConfirmPacket(q))
    BY <1>0, <1>5, <2>1 DEF Confirm, TypeOK
  <2>3. chan'[p] = chan[p] /\ chan'[q] = chan[q] \o ConfirmPacket(q)
    BY <1>0, <2>2, SendEffect, PacketsAreSeq DEF TypeOK
  <2>4. WaitingIffConfirmed'
    BY <1>0, <2>2 DEF WaitingIffConfirmed
  <2> QED BY <1>0, <1>4, <2>2, <2>3, <2>4, PacketsAreSeq
<1>6. ASSUME NEW r \in Party, Cancel(r)
      PROVE  LateCancel(p)' /\ WaitingIffConfirmed'
  <2>1. r = q
    BY <1>0, <1>1, <1>6 DEF Cancel, HandshakeMeaningful
  <2>2. /\ UNCHANGED <<connected, state, remoteOk, badPacket>>
        /\ ~localOk'[q] /\ localOk'[p] = localOk[p] /\ canceling' = canceling
        /\ inputFunc'[q] = "DoMelee" /\ inputFunc'[p] = inputFunc[p]
        /\ Send(q, CancelPacket(q))
    BY <1>0, <1>1, <1>6, <2>1 DEF Cancel, CancelFlags, TypeOK
  <2>3. chan'[p] = chan[p] /\ chan'[q] = chan[q] \o CancelPacket(q)
    BY <1>0, <2>2, SendEffect, PacketsAreSeq DEF TypeOK
  <2>4. WaitingIffConfirmed'
    BY <1>0, <2>2 DEF WaitingIffConfirmed
  <2> QED BY <1>0, <1>4, <2>2, <2>3, <2>4, PacketsAreSeq
<1>7. ASSUME NEW r \in Party, LocalChange(r)
      PROVE  LateCancel(p)' /\ WaitingIffConfirmed'
  <2>1. r = q
    BY <1>0, <1>1, <1>7 DEF LocalChange
  <2>2. PICK u \in UpdatePacket : Send(q, <<u>>)
    BY <1>7, <2>1 DEF LocalChange
  <2>3. <<u>> \in Seq(Packet)
    BY PacketType
  <2>4. chan'[p] = chan[p] /\ chan'[q] = chan[q] \o <<u>>
    BY <1>0, <2>2, <2>3, SendEffect DEF TypeOK
  <2>5. UNCHANGED <<connected, state, localOk, remoteOk, canceling, inputFunc, badPacket>>
    BY <1>7 DEF LocalChange
  <2> QED BY <1>4, <2>3, <2>4, <2>5 DEF WaitingIffConfirmed
<1>8. ASSUME NEW r \in Party, HandleHandshake1(r)
      PROVE  LateCancel(p)' /\ WaitingIffConfirmed'
  <2>1. r = q
    BY <1>0, <1>1, <1>8 DEF HandleHandshake1, HandshakeMeaningful
  <2>2. /\ chan[p] = Just("HANDSHAKE1") /\ Answer(q, <<>>)
        /\ UNCHANGED <<connected, state, localOk, canceling, inputFunc, badPacket>>
        /\ remoteOk'[p] = remoteOk[p]
    BY <1>0, <1>1, <1>8, <2>1 DEF HandleHandshake1, Arrives, TypeOK
  <2>3. chan'[q] = chan[q] \o <<>> /\ chan'[p] = <<>>
    <3>1. chan[Peer(q)] # <<>> /\ <<>> \in Seq(Packet)
      BY <1>0, <1>2, <2>2, PacketsAreSeq
    <3>2. chan'[q] = chan[q] \o <<>> /\ chan'[p] = Tail(chan[p])
      BY <1>0, <2>2, <3>1, AnswerEffect DEF TypeOK
    <3> QED BY <1>2, <2>2, <3>2
  <2>4. chan'[q] = chan[q]
    BY <1>3, <2>3, ConcatEmptySeq
  <2> QED BY <1>0, <1>1, <2>2, <2>3, <2>4 DEF LateCancel, WaitingIffConfirmed
<1>9. ASSUME NEW r \in Party,
             \/ HandleInit(r) \/ HandleUpdate(r) \/ HandleHandshake0(r)
             \/ HandleHandshakeCancel(r) \/ HandleHandshakeCancelAck(r)
      PROVE  FALSE
  <2>1. state[r] # "preBattle" /\ chan[Peer(r)] # <<>>
        /\ Head(chan[Peer(r)]).type # "HANDSHAKE1"
    BY <1>9 DEF HandleInit, HandleUpdate, HandleHandshake0, HandleHandshakeCancel,
                HandleHandshakeCancelAck, Arrives, Incoming, HandshakeMeaningful
  <2>2. r = q
    BY <1>0, <1>1, <2>1
  <2> QED BY <1>0, <1>1, <1>2, <2>1, <2>2
<1>10. ASSUME NEW r \in Party, RefusePacket(r)
       PROVE  LateCancel(p)' /\ WaitingIffConfirmed'
  <2>1. r # q
    <3> SUFFICES ASSUME r = q
                 PROVE  FALSE
      OBVIOUS
    <3>1. chan[p] = Just("HANDSHAKE1") /\ ~Acceptable(q, "HANDSHAKE1")
      BY <1>0, <1>1, <1>2, <1>10 DEF RefusePacket, Refusable, Incoming
    <3> QED BY <1>1, <3>1 DEF Acceptable, HandshakeMeaningful
  <2>2. r = p
    BY <1>0, <2>1
  <2>3. /\ connected[p] /\ ~connected'[p] /\ connected'[q] = connected[q]
        /\ badPacket'[p] = "HANDSHAKECANCEL" /\ badPacket'[q] = badPacket[q]
        /\ UNCHANGED <<state, localOk, remoteOk, canceling>>
        /\ inputFunc'[q] = inputFunc[q]
        /\ Answer(p, <<>>) /\ chan[q] # <<>>
    BY <1>0, <1>1, <1>10, <2>2 DEF RefusePacket, Refusable, Incoming, Close, TypeOK
  <2>4. chan'[p] = chan[p]
    <3>1. chan'[p] = chan[p] \o <<>>
      BY <2>3, AnswerEffect, PacketsAreSeq DEF TypeOK
    <3> QED BY <1>3, <3>1, ConcatEmptySeq
  <2> QED BY <1>0, <1>1, <2>3, <2>4 DEF LateCancel, WaitingIffConfirmed
<1>11. ASSUME NEW r \in Party, PeerClosed(r) \/ Disconnect(r)
       PROVE  LateCancel(p)' /\ WaitingIffConfirmed'
  <2>1. /\ connected' = [connected EXCEPT ![r] = FALSE]
        /\ inputFunc' = [inputFunc EXCEPT ![r] = "DoMelee"]
        /\ UNCHANGED <<state, localOk, remoteOk, canceling, chan, badPacket>>
    BY <1>11 DEF PeerClosed, Disconnect, Close
  <2>2. \A x \in Party : connected'[x] => connected[x] /\ inputFunc'[x] = inputFunc[x]
    BY <2>1 DEF TypeOK
  <2> QED BY <1>0, <1>1, <2>1, <2>2 DEF LateCancel, WaitingIffConfirmed
<1>12. CASE UNCHANGED vars
  BY <1>0, <1>1, <1>12 DEF vars, LateCancel, WaitingIffConfirmed
<1> QED BY <1>5, <1>6, <1>7, <1>8, <1>9, <1>10, <1>11, <1>12 DEF Next, Receive, Handle

LEMMA NegotiationStep ==
  ASSUME NegotiationInv, [Next]_vars
  PROVE  NegotiationInv'
<1>1. TypeOK'
  BY TypeStep DEF NegotiationInv, IInv
<1>2. CASE IInv
  BY <1>1, <1>2, InvOrLate DEF NegotiationInv
<1>3. CASE TypeOK /\ WaitingIffConfirmed /\ \E p \in Party : LateCancel(p)
  BY <1>1, <1>3, LateStep DEF NegotiationInv
<1> QED BY <1>2, <1>3 DEF NegotiationInv

-----------------------------------------------------------------------------
(* What follows from the invariant.                                        *)

LEMMA HasSame == ASSUME NEW p PROVE \A T : HasPacket(p, T) <=> \E t \in T : Has(chan[p], t)
BY DEF HasPacket, Has

(* A side that may start by a HANDSHAKE1 has sent no settings that its     *)
(* peer has not seen.                                                      *)
LEMMA SettingsBeforeStart ==
  ASSUME IInv, NEW p \in Party, Has(chan[Peer(p)], "HANDSHAKE1"), ~canceling[p]
  PROVE  \A u \in UpdateType : ~Has(chan[p], u)
<1> DEFINE q == Peer(p)
<1>1. /\ q \in Party /\ Peer(q) = p /\ TypeOK
      /\ InitPart(p) /\ InitPart(q) /\ StartPart(p) /\ StartPart(q)
      /\ CancelPart(p) /\ ConfirmPart(q) /\ Covered(chan[p], remoteOk[q])
  BY Sides
<1>2. \A u \in UpdateType : u \notin ControlType
  BY DEF UpdateType, ControlType
<1>3. CASE state[p] = "init"
  <2>1. chan[p] = <<>> \/ chan[p] = Just("INIT")
    BY <1>1, <1>3 DEF InitPart
  <2> QED BY <1>2, <2>1, HasBasics DEF ControlType
<1>4. CASE state[p] = "preBattle"
  BY <1>1, <1>4, HasBasics DEF StartPart
<1>5. CASE state[p] = "inSetup"
  <2>1. ~Has(chan[p], "HANDSHAKECANCEL") /\ ~Has(chan[q], "HANDSHAKECANCELACK")
    BY <1>1, <1>5 DEF CancelPart
  <2>2. CASE state[q] = "init"
    <3>1. chan[q] = <<>> \/ chan[q] = Just("INIT")
      BY <1>1, <2>2 DEF InitPart
    <3> QED BY <3>1, HasBasics DEF ControlType
  <2>3. CASE state[q] = "preBattle"
    BY <1>1, <2>3, HasBasics DEF StartPart
  <2>4. CASE state[q] = "inSetup"
    <3>1. remoteOk[q]
      BY <1>1, <2>1, <2>4 DEF ConfirmPart
    <3> QED BY <1>1, <2>1, <3>1 DEF Covered, Has
  <2> QED BY <1>1, <2>2, <2>3, <2>4 DEF TypeOK, NetState
<1> QED BY <1>1, <1>3, <1>4, <1>5 DEF TypeOK, NetState

(* No HANDSHAKE1 follows an acknowledgement.                               *)
LEMMA AckIsLast ==
  ASSUME IInv, NEW p \in Party, chan[p] # <<>>,
         Head(chan[p]).type = "HANDSHAKECANCELACK"
  PROVE  ~Has(Tail(chan[p]), "HANDSHAKE1")
<1>1. chan[p] \in Seq(Packet) /\ Before(chan[p], "HANDSHAKE1", "HANDSHAKECANCELACK")
  BY Sides DEF Ordered
<1>2. /\ 1 \in DOMAIN chan[p] /\ Head(chan[p]) = chan[p][1]
      /\ \A k \in DOMAIN Tail(chan[p]) :
           k + 1 \in DOMAIN chan[p] /\ ~(k + 1 < 1) /\ Tail(chan[p])[k] = chan[p][k + 1]
  BY <1>1
<1> QED BY <1>1, <1>2 DEF Has, Before

LEMMA InvStart == IInv => CertainStart
<1> SUFFICES ASSUME IInv, NEW p \in Party, state[p] = "preBattle"
             PROVE  /\ \/ state[Peer(p)] = "preBattle"
                       \/ /\ localOk[Peer(p)] /\ ~canceling[Peer(p)]
                          /\ HasPacket(p, {"HANDSHAKE1"})
                    /\ ~HasPacket(p, UpdateType) /\ ~HasPacket(Peer(p), UpdateType)
  BY DEF CertainStart, StartIsCertain, NoUpdateInFlight, UpdateType
<1> DEFINE q == Peer(p)
<1>1. chan[q] = <<>>
  BY Sides DEF StartPart
<1>2. \/ state[q] = "preBattle" /\ chan[p] = <<>>
      \/ state[q] = "inSetup" /\ ok(q) /\ chan[p] = Just("HANDSHAKE1")
  BY Sides DEF StartPart
<1>3. ~HasPacket(p, UpdateType) /\ ~HasPacket(q, UpdateType)
  BY <1>1, <1>2, HasSame, HasBasics DEF ControlType, UpdateType
<1>4. \/ state[q] = "preBattle"
      \/ localOk[q] /\ ~canceling[q] /\ HasPacket(p, {"HANDSHAKE1"})
  BY <1>2, HasSame, HasBasics DEF ControlType, ok
<1> QED BY <1>3, <1>4

LEMMA LateStart ==
  ASSUME NEW p \in Party, LateCancel(p)
  PROVE  CertainStart
<1> DEFINE q == Peer(p)
<1>1. /\ q \in Party /\ \A r \in Party : r = p \/ r = q
      /\ state[q] = "inSetup" /\ canceling[q] /\ MeetsCancel(p)
  BY PeerFacts DEF LateCancel, MeetsCancel, Incoming
<1>2. chan[p] = <<>> \/ chan[p] = Just("HANDSHAKE1")
  BY DEF LateCancel
<1>3. ~HasPacket(p, {"HANDSHAKECANCELACK"}) /\ ~HasPacket(p, UpdateType)
  BY <1>2, HasSame, HasBasics DEF ControlType, UpdateType
<1>4. \A r \in Party : state[r] = "preBattle" => r = p
  BY <1>1
<1>5. StartIsCertain
  BY <1>1, <1>3, <1>4 DEF StartIsCertain
<1>6. NoUpdateInFlight
  BY <1>1, <1>3, <1>4 DEF NoUpdateInFlight, UpdateType
<1> QED BY <1>5, <1>6 DEF CertainStart

(* The inductive invariant of the negotiation: it relates the handshake    *)
(* flags of the two connections to the packets between them, until a       *)
(* player cancels a committed confirmation too late.                       *)
THEOREM Negotiation == Spec => []NegotiationInv
<1>1. Init => NegotiationInv
  BY InvInit DEF NegotiationInv
<1>2. NegotiationInv /\ [Next]_vars => NegotiationInv'
  BY NegotiationStep
<1> QED BY <1>1, <1>2, PTL DEF Spec

(* The menu of a connected player waits exactly while the confirmation     *)
(* stands.                                                                 *)
THEOREM Waiting == Spec => []WaitingIffConfirmed
<1>1. NegotiationInv => WaitingIffConfirmed
  BY DEF NegotiationInv, IInv
<1> QED BY <1>1, Negotiation, PTL

LEMMA NegotiationRefusesLate == NegotiationInv => OnlyLateCancelRefused
<1>1. IInv => OnlyLateCancelRefused
  BY DEF IInv, NoPacketRefused, OnlyLateCancelRefused
<1>2. ASSUME NEW p \in Party, LateCancel(p) PROVE OnlyLateCancelRefused
  BY <1>2, PeerFacts DEF LateCancel, OnlyLateCancelRefused
<1> QED BY <1>1, <1>2 DEF NegotiationInv

(* Whatever the players press, the only packet that a handler of the       *)
(* negotiation can refuse is the CANCEL of a committed confirmation, and   *)
(* only at the side that has gone to preBattle meanwhile.                  *)
THEOREM OnlyLateCancel == Spec => []OnlyLateCancelRefused
BY Negotiation, NegotiationRefusesLate, PTL

(* When one side has started, the other has started, or will by a packet  *)
(* that is on its way, or has withdrawn too late: then it never starts,    *)
(* and the CANCEL closes the connection before any settings are taken.     *)
THEOREM StartAgreed == Spec => []CertainStart
<1>1. NegotiationInv => CertainStart
  BY InvStart, LateStart DEF NegotiationInv
<1> QED BY <1>1, Negotiation, PTL

-----------------------------------------------------------------------------
(***************************************************************************)
(* Proof that the Confirm negotiation implements Agreement.                *)
(***************************************************************************)

LEMMA RefineInit == Init => Abstract!Init
BY DEF Init, Abstract!Init, phaseOf

(* The phase of a side depends on its own flags and on whether its peer    *)
(* has started.                                                            *)
LEMMA PhaseFrame ==
  ASSUME NEW p \in Party, NEW r \in Party,
         connected'[r] = connected[r], localOk'[r] = localOk[r],
         canceling'[r] = canceling[r],
         \A x \in Party : state'[x] = "preBattle" <=> state[x] = "preBattle"
  PROVE  phaseOf'[r] = phaseOf[r]
BY PeerFacts DEF phaseOf

LEMMA PhaseChange ==
  ASSUME NEW p \in Party, NEW new, phaseOf'[p] = new,
         \A r \in Party : r # p => phaseOf'[r] = phaseOf[r]
  PROVE  phaseOf' = [phaseOf EXCEPT ![p] = new]
<1>1. /\ phaseOf' = [r \in Party |-> phaseOf'[r]]
      /\ DOMAIN phaseOf = Party
  BY DEF phaseOf
<1> QED BY <1>1

LEMMA SamePeer == \A p \in Party : Abstract!Peer(p) = Peer(p)
BY DEF Abstract!Peer, Peer

(* An acknowledgement finds a withdrawal that was not too late.            *)
LEMMA AckInTime ==
  ASSUME NegotiationInv, NEW p \in Party, HandleHandshakeCancelAck(p)
  PROVE  state[Peer(p)] # "preBattle"
<1> DEFINE q == Peer(p)
<1>1. /\ q \in Party /\ Peer(q) = p /\ \A r \in Party : r = p \/ r = q
      /\ chan[q] # <<>> /\ Head(chan[q]).type = "HANDSHAKECANCELACK"
      /\ state[p] = "inSetup" /\ canceling[p]
  BY PeerFacts DEF HandleHandshakeCancelAck, Arrives, Incoming, HandshakeMeaningful
<1>2. CASE IInv
  BY <1>1, <1>2, Sides DEF StartPart, ok
<1>3. ASSUME NEW r \in Party, LateCancel(r)
      PROVE  FALSE
  <2>1. r = q
    BY <1>1, <1>3 DEF LateCancel
  <2> QED BY <1>1, <1>3, <2>1, TailOfJust DEF LateCancel, Just, ControlType
<1> QED BY <1>2, <1>3 DEF NegotiationInv

(* A side starts on a HANDSHAKE1 whose sender stands confirmed, has        *)
(* started, or has withdrawn since.                                        *)
LEMMA StartInTime ==
  ASSUME NegotiationInv, NEW p \in Party, HandleHandshake1(p), ~canceling[p]
  PROVE  \/ state[Peer(p)] = "preBattle"
         \/ state[Peer(p)] = "inSetup" /\ (localOk[Peer(p)] \/ canceling[Peer(p)])
<1> DEFINE q == Peer(p)
           c == chan[q]
<1>1. /\ c # <<>> /\ Head(c).type = "HANDSHAKE1" /\ state[p] = "inSetup"
      /\ q \in Party /\ Peer(q) = p /\ \A r \in Party : r = p \/ r = q
  BY PeerFacts DEF HandleHandshake1, Arrives, Incoming, HandshakeMeaningful
<1>2. CASE IInv
  <2>1. Has(c, "HANDSHAKE1") /\ state[q] # "init"
    BY <1>1, <1>2, Sides, HasTail, HasBasics DEF InitPart, ControlType
  <2>2. CASE state[q] = "inSetup"
    <3>1. ok(q) \/ Has(c, "HANDSHAKECANCEL")
      BY <1>2, <2>1, <2>2, Sides DEF ConfirmPart
    <3> QED BY <1>2, <2>2, <3>1, Sides DEF CancelPart, ok
  <2> QED BY <1>2, <2>1, <2>2, Sides DEF TypeOK, NetState
<1>3. ASSUME NEW r \in Party, LateCancel(r)
      PROVE  FALSE
  BY <1>1, <1>3 DEF LateCancel
<1> QED BY <1>2, <1>3 DEF NegotiationInv

(* A confirmation that is withdrawn, by the player or by settings that     *)
(* arrive.                                                                 *)
LEMMA WithdrawStep ==
  ASSUME TypeOK, NEW p \in Party, connected[p], state[p] = "inSetup", localOk[p],
         CancelFlags(p), UNCHANGED <<connected, state>>
  PROVE  Abstract!Withdraw(p) \/ UNCHANGED phaseOf
<1> DEFINE q == Peer(p)
<1>0. q \in Party /\ q # p /\ Peer(q) = p /\ Abstract!Peer(p) = q
      /\ \A r \in Party : r = p \/ r = q
  BY PeerFacts, SamePeer
<1>1. /\ canceling'[p] /\ canceling'[q] = canceling[q] /\ localOk'[q] = localOk[q]
  BY <1>0 DEF CancelFlags, TypeOK
<1>2. \A r \in Party : r # p => phaseOf'[r] = phaseOf[r]
  BY <1>0, <1>1, PhaseFrame
<1>3. CASE canceling[p]
  <2>1. phaseOf'[p] = phaseOf[p]
    BY <1>1, <1>3 DEF phaseOf
  <2>2. \A r \in Party : phaseOf'[r] = phaseOf[r]
    BY <1>2, <2>1
  <2> QED BY <2>2 DEF phaseOf
<1>4. CASE ~canceling[p] /\ state[q] = "preBattle"
  <2>1. phaseOf[p] = "confirmed" /\ phaseOf'[p] = "out"
    BY <1>1, <1>4 DEF phaseOf
  <2>2. phaseOf[q] \in {"started", "lost"}
    BY <1>0, <1>4 DEF phaseOf
  <2> QED BY <1>0, <1>2, <2>1, <2>2, PhaseChange DEF Abstract!Withdraw
<1>5. CASE ~canceling[p] /\ state[q] # "preBattle"
  <2>1. phaseOf[p] = "confirmed" /\ phaseOf'[p] = "withdrawn"
    BY <1>1, <1>5 DEF phaseOf
  <2>2. phaseOf[q] # "started"
    BY <1>0, <1>5 DEF phaseOf
  <2> QED BY <1>0, <1>2, <2>1, <2>2, PhaseChange DEF Abstract!Withdraw
<1> QED BY <1>3, <1>4, <1>5

LEMMA RefineStep ==
  ASSUME NegotiationInv, [Next]_vars
  PROVE  [Abstract!Next]_phaseOf
<1>0. TypeOK
  BY DEF NegotiationInv, IInv
<1>1. CASE UNCHANGED vars
  BY <1>1 DEF vars, phaseOf
<1>2. ASSUME NEW p \in Party, Confirm(p)
      PROVE  Abstract!Confirm(p) \/ UNCHANGED phaseOf
  <2>1. /\ UNCHANGED <<connected, state, canceling>> /\ state[p] = "inSetup"
        /\ ~localOk[p] /\ localOk'[p] /\ connected[p]
        /\ \A r \in Party : r # p => localOk'[r] = localOk[r]
    BY <1>0, <1>2 DEF Confirm, HandshakeMeaningful, TypeOK
  <2>2. \A r \in Party : r # p => phaseOf'[r] = phaseOf[r]
    BY <2>1, PhaseFrame
  <2>3. CASE canceling[p]
    <3>1. phaseOf'[p] = phaseOf[p]
      BY <2>1, <2>3 DEF phaseOf
    <3>2. \A r \in Party : phaseOf'[r] = phaseOf[r]
      BY <2>2, <3>1
    <3> QED BY <3>2 DEF phaseOf
  <2>4. CASE ~canceling[p]
    <3>1. phaseOf[p] = "editing" /\ phaseOf'[p] = "confirmed"
      BY <2>1, <2>4 DEF phaseOf
    <3> QED BY <2>2, <3>1, PhaseChange DEF Abstract!Confirm
  <2> QED BY <2>3, <2>4
<1>3. ASSUME NEW p \in Party, Cancel(p)
      PROVE  Abstract!Withdraw(p) \/ UNCHANGED phaseOf
  BY <1>0, <1>3, WithdrawStep DEF Cancel, HandshakeMeaningful
<1>4. ASSUME NEW p \in Party,
             \/ LocalChange(p) \/ HandleInit(p) \/ HandleHandshake0(p)
             \/ HandleHandshakeCancel(p)
      PROVE  UNCHANGED phaseOf
  <2>1. connected' = connected /\ localOk' = localOk /\ canceling' = canceling
        /\ \A r \in Party : state'[r] = "preBattle" <=> state[r] = "preBattle"
    BY <1>0, <1>4 DEF LocalChange, HandleInit, HandleHandshake0, HandleHandshakeCancel,
                      TypeOK
  <2> QED BY <2>1, PeerFacts DEF phaseOf
<1>5. ASSUME NEW p \in Party, HandleUpdate(p)
      PROVE  Abstract!Withdraw(p) \/ UNCHANGED phaseOf
  <2>1. CASE localOk[p]
    BY <1>0, <1>5, <2>1, WithdrawStep DEF HandleUpdate, Arrives
  <2>2. CASE ~localOk[p]
    BY <1>5, <2>2 DEF HandleUpdate, phaseOf
  <2> QED BY <2>1, <2>2
<1>6. ASSUME NEW p \in Party, HandleHandshakeCancelAck(p)
      PROVE  Abstract!Acknowledge(p)
  <2>1. /\ UNCHANGED <<connected, state, localOk>> /\ connected[p]
        /\ state[p] = "inSetup" /\ canceling[p] /\ ~canceling'[p]
        /\ \A r \in Party : r # p => canceling'[r] = canceling[r]
    BY <1>0, <1>6 DEF HandleHandshakeCancelAck, Arrives, HandshakeMeaningful, TypeOK
  <2>2. \A r \in Party : r # p => phaseOf'[r] = phaseOf[r]
    BY <2>1, PhaseFrame
  <2>3. phaseOf[p] = "withdrawn"
    BY <1>6, <2>1, AckInTime DEF phaseOf
  <2>4. phaseOf'[p] \in {"editing", "confirmed"}
    BY <2>1 DEF phaseOf
  <2>5. phaseOf' = [phaseOf EXCEPT ![p] = phaseOf'[p]]
    BY <2>2, PhaseChange
  <2> QED BY <2>3, <2>4, <2>5 DEF Abstract!Acknowledge
<1>7. ASSUME NEW p \in Party, HandleHandshake1(p)
      PROVE  Abstract!Start(p) \/ UNCHANGED phaseOf
  <2> DEFINE q == Peer(p)
  <2>0. q \in Party /\ q # p /\ Peer(q) = p /\ Abstract!Peer(p) = q
        /\ \A r \in Party : r = p \/ r = q
    BY PeerFacts, SamePeer
  <2>1. CASE canceling[p]
    BY <1>7, <2>1 DEF HandleHandshake1, phaseOf
  <2>2. CASE ~canceling[p]
    <3>1. /\ UNCHANGED <<connected, canceling>> /\ connected[p] /\ state[p] = "inSetup"
          /\ localOk[p] /\ state'[p] = "preBattle"
          /\ state'[q] = state[q] /\ localOk'[q] = localOk[q]
      BY <1>0, <1>7, <2>0, <2>2
         DEF HandleHandshake1, Arrives, HandshakeMeaningful, TypeOK
    <3>2. phaseOf[p] = "confirmed" /\ phaseOf'[p] = "started"
      BY <2>2, <3>1 DEF phaseOf
    <3>3. \/ state[q] = "preBattle"
          \/ state[q] = "inSetup" /\ (localOk[q] \/ canceling[q])
      BY <1>7, <2>2, StartInTime
    <3>4. CASE connected[q] /\ state[q] # "preBattle" /\ canceling[q]
      <4>1. phaseOf[q] = "withdrawn" /\ phaseOf'[q] = "out"
        BY <2>0, <3>1, <3>4 DEF phaseOf
      <4>2. phaseOf' = [r \in Party |-> phaseOf'[r]] /\ DOMAIN phaseOf = Party
        BY DEF phaseOf
      <4>3. phaseOf' = [phaseOf EXCEPT ![p] = "started", ![q] = "out"]
        BY <2>0, <3>2, <4>1, <4>2
      <4> QED BY <2>0, <3>2, <4>1, <4>3 DEF Abstract!Start
    <3>5. CASE ~(connected[q] /\ state[q] # "preBattle" /\ canceling[q])
      <4>1. phaseOf[q] \in {"confirmed", "started", "lost"} /\ phaseOf'[q] = phaseOf[q]
        BY <2>0, <3>1, <3>3, <3>5 DEF phaseOf
      <4>2. \A r \in Party : r # p => phaseOf'[r] = phaseOf[r]
        BY <2>0, <4>1
      <4> QED BY <2>0, <3>2, <4>1, <4>2, PhaseChange DEF Abstract!Start
    <3> QED BY <3>4, <3>5
  <2> QED BY <2>1, <2>2
<1>8. ASSUME NEW p \in Party, PeerClosed(p) \/ Disconnect(p) \/ RefusePacket(p)
      PROVE  Abstract!Lose(p)
  <2>1. /\ connected[p] /\ ~connected'[p] /\ UNCHANGED <<state, localOk, canceling>>
        /\ \A r \in Party : r # p => connected'[r] = connected[r]
    BY <1>0, <1>8 DEF PeerClosed, Disconnect, RefusePacket, Refusable, Close, TypeOK
  <2>2. phaseOf[p] # "lost" /\ phaseOf'[p] = "lost"
    BY <2>1 DEF phaseOf
  <2>3. \A r \in Party : r # p => phaseOf'[r] = phaseOf[r]
    BY <2>1, PhaseFrame
  <2> QED BY <2>2, <2>3, PhaseChange DEF Abstract!Lose
<1> QED BY <1>1, <1>2, <1>3, <1>4, <1>5, <1>6, <1>7, <1>8
        DEF Next, Receive, Handle, Abstract!Next

(* The negotiation implements Agreement for every pair of parties, every   *)
(* set of settings packets and every bound: no side starts on a            *)
(* confirmation that was withdrawn and acknowledged, and one that          *)
(* withdraws after its peer has started never starts.                      *)
THEOREM Refinement == Spec => ImplementsAgreement
<1>1. NegotiationInv /\ [Next]_vars => [Abstract!Next]_phaseOf
  BY RefineStep
<1> QED BY <1>1, Negotiation, RefineInit, PTL DEF Spec, ImplementsAgreement, Abstract!Spec
=============================================================================
