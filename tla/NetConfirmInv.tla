---------------------------- MODULE NetConfirmInv ----------------------------
(***************************************************************************)
(* The inductive invariant of NetConfirm. It is stated in terms of which   *)
(* packets a channel holds and in which order, and relates them to the     *)
(* flags of the two sides. Once a CANCEL has come too late (LateCancel)    *)
(* little of it is left. NetConfirmProofs proves it.                       *)
(***************************************************************************)
EXTENDS NetConfirm

UpdateType == {"FLEET", "TEAMNAME"}

(* Predicates of one channel s.                                            *)

Has(s, t) == \E i \in DOMAIN s : s[i].type = t

(* No two control packets of the same type.                                *)
Once(s) ==
  \A i, j \in DOMAIN s :
    s[i].type = s[j].type /\ s[i].type \in ControlType => i = j

Before(s, t, u) ==
  \A i, j \in DOMAIN s : s[i].type = t /\ s[j].type = u => i < j

(* Settings come after a CANCEL, or before any confirmation the receiver   *)
(* has seen; remote is the receiver's remoteOk.                            *)
Covered(s, remote) ==
  \A i \in DOMAIN s : s[i].type \in UpdateType =>
    \/ \E j \in DOMAIN s : j < i /\ s[j].type = "HANDSHAKECANCEL"
    \/ /\ ~remote
       /\ \A j \in DOMAIN s :
            j < i => s[j].type \notin {"HANDSHAKE0", "HANDSHAKE1"}

Ordered(s) ==
  /\ Once(s)
  /\ \A t \in ControlType \ {"INIT"} : Before(s, "INIT", t)
  /\ \A u \in UpdateType : Before(s, "INIT", u)
  /\ Before(s, "HANDSHAKE0", "HANDSHAKE1")
  /\ Before(s, "HANDSHAKE0", "HANDSHAKECANCEL")
  /\ Before(s, "HANDSHAKE1", "HANDSHAKECANCEL")
  /\ Before(s, "HANDSHAKE1", "HANDSHAKECANCELACK")

-----------------------------------------------------------------------------
(* Each part is about a side p, its peer q, and what is on its way from p  *)
(* (chan[p]) and to it (chan[q]).                                          *)

ok(p) == localOk[p] /\ ~canceling[p]

ChannelsOrdered == \A p \in Party : Ordered(chan[p])

(* The INIT of p is on its way exactly as long as its peer is in init; p   *)
(* itself has said nothing but INIT while it is in init, so the peer has   *)
(* nothing to note or to acknowledge.                                      *)
InitPart(p) ==
  /\ state[Peer(p)] = "init" <=> Has(chan[p], "INIT")
  /\ state[p] = "init" =>
       /\ chan[p] \in {<<>>, Just("INIT")}
       /\ ~localOk[p] /\ ~remoteOk[p] /\ ~canceling[p]
       /\ inputFunc[p] = "DoMelee"
       /\ ~remoteOk[Peer(p)] /\ ~Has(chan[Peer(p)], "HANDSHAKECANCELACK")

(* canceling: a CANCEL or its acknowledgement is on its way, not both.     *)
CancelPart(p) ==
  LET q == Peer(p)
  IN  state[p] = "inSetup" =>
        /\ canceling[p] <=> \/ Has(chan[p], "HANDSHAKECANCEL")
                            \/ Has(chan[q], "HANDSHAKECANCELACK")
        /\ ~ /\ Has(chan[p], "HANDSHAKECANCEL")
             /\ Has(chan[q], "HANDSHAKECANCELACK")

(* What the peer of p knows of the confirmation of p, or will learn.       *)
ConfirmPart(p) ==
  LET q == Peer(p)
      stands == ok(p) \/ Has(chan[p], "HANDSHAKECANCEL")
  IN  state[p] = "inSetup" =>
        /\ Has(chan[p], "HANDSHAKE0") => ~remoteOk[q] /\ stands
        /\ Has(chan[p], "HANDSHAKE1") =>
             stands /\ (remoteOk[p] \/ Has(chan[p], "HANDSHAKECANCELACK"))
        /\ remoteOk[q] => stands
        /\ stands => \/ remoteOk[q] \/ state[q] = "preBattle"
                     \/ Has(chan[p], "HANDSHAKE0") \/ Has(chan[p], "HANDSHAKE1")
        /\ ok(p) /\ remoteOk[p] =>
             \/ Has(chan[p], "HANDSHAKE1") \/ state[q] = "preBattle"
             \/ Has(chan[q], "HANDSHAKECANCEL")

SettingsPart(p) == Covered(chan[p], remoteOk[Peer(p)])

(* A side in preBattle has nothing left to receive.                        *)
StartPart(p) ==
  LET q == Peer(p)
  IN  state[p] = "preBattle" =>
        /\ ~localOk[p] /\ ~remoteOk[p] /\ ~canceling[p]
        /\ chan[q] = <<>>
        /\ \/ state[q] = "preBattle"
           \/ /\ state[q] = "inSetup" /\ ok(q) /\ remoteOk[q]
              /\ chan[p] = Just("HANDSHAKE1")

IInv ==
  /\ TypeOK
  /\ NoPacketRefused
  /\ WaitingIffConfirmed
  /\ ChannelsOrdered
  /\ \A p \in Party :
       /\ InitPart(p) /\ CancelPart(p) /\ ConfirmPart(p)
       /\ SettingsPart(p) /\ StartPart(p)

-----------------------------------------------------------------------------
(* p has started while the CANCEL of its peer q, which has heard of the    *)
(* confirmation of p or will, was on its way. p refuses it, and q is never *)
(* acknowledged, so that q does not start.                                 *)
LateCancel(p) ==
  LET q == Peer(p)
  IN  /\ state[p] = "preBattle" /\ ~localOk[p] /\ ~remoteOk[p] /\ ~canceling[p]
      /\ state[q] = "inSetup" /\ canceling[q] /\ badPacket[q] = "none"
      /\ chan[p] \in {<<>>, Just("HANDSHAKE1")}
      /\ connected[p] => /\ badPacket[p] = "none"
                         /\ chan[q] # <<>>
                         /\ Head(chan[q]).type = "HANDSHAKECANCEL"
      /\ badPacket[p] \in {"none", "HANDSHAKECANCEL"}

(* The inductive invariant of the negotiation as the code has it.          *)
NegotiationInv ==
  \/ IInv
  \/ TypeOK /\ WaitingIffConfirmed /\ \E p \in Party : LateCancel(p)
=============================================================================
