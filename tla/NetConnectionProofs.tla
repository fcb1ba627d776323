------------------------- MODULE NetConnectionProofs -------------------------
(***************************************************************************)
(* Proofs about the life of the NetConnections, for any number of players  *)
(* and of addresses.                                                       *)
(*                                                                         *)
(* Between two calls of the functions the structures are sound: each       *)
(* refers only to what is there, and to what refers back to it.  Within a  *)
(* call the attempt of one player may hang in the air, and a descriptor    *)
(* may be held by nobody but the caller; the lemmas say how each function  *)
(* mends that.                                                             *)
(***************************************************************************)
EXTENDS NetConnection, NetStream, FiniteSetTheorems, SequenceTheorems, TLAPS

(* The structures by their types.                                          *)
ConnType == [gen : Gens \cup {0}, connected : BOOLEAN, disconnected : BOOLEAN,
             nd : Descs \cup {0}]

AttemptType ==
  [gen : Gens \cup {0}, nd : Descs \cup {0}, left : 0 .. MaxAddresses,
   phase : {"none", "resolving", "connecting", "waiting", "listening"}]

AlarmType == [kind : {"none", "timeout", "retry"}, gen : Gens \cup {0}]

DescType == [status : {"gone", "open", "closing"},
             onClose : Players \X Gens \cup {<<>>}]

NetType ==
  [conn : [Players -> ConnType], attempt : [Players -> AttemptType],
   server : [Players -> BOOLEAN], alarm : [Players -> AlarmType],
   desc : [Descs -> DescType], callbacks : Seq(Callbacks), todo : Nat,
   bad : {""} \cup Faults]

(* The callbacks are all different, and todo is one of their numbers.      *)
Queue(n) ==
  /\ n.todo <= Len(n.callbacks)
  /\ \A j, k \in 1 .. Len(n.callbacks) : n.callbacks[j] = n.callbacks[k] => j = k

Pending(n) == {n.callbacks[k] : k \in 1 .. Len(n.callbacks)}
Resolve(p, g) == [kind |-> "resolve", of |-> <<p, g>>]
Close(i) == [kind |-> "close", of |-> i]

(* A connection that counts as connected has a socket that knows it, and   *)
(* an attempt belongs to a connection that neither is nor was connected.   *)
ConnSound(n, p) ==
  LET c == n.conn[p]
  IN  /\ c.gen = 0 => c = NoConn
      /\ c.connected <=> c.nd # 0
      /\ c.connected => ~c.disconnected /\ n.desc[c.nd].onClose = <<p, c.gen>>
      /\ n.attempt[p].gen # 0 =>
           n.attempt[p].gen = c.gen /\ ~c.connected /\ ~c.disconnected

(* The socket of an attempt is open and nobody else's.                     *)
Held(n, p) ==
  LET i == n.attempt[p].nd
  IN  i # 0 => /\ n.desc[i].status = "open" /\ n.desc[i].onClose = <<>>
               /\ \A q \in Players : n.attempt[q].nd = i => q = p

(* The attempt has what its phase needs: a callback, an alarm, a socket.   *)
AttemptSound(n, p) ==
  LET a == n.attempt[p]
  IN  /\ a.phase = "none" => a = NoAttempt
      /\ a.gen = 0 => a.phase = "none"
      /\ a.nd # 0 <=> a.phase \in {"connecting", "listening"}
      /\ n.alarm[p] = IF a.phase = "connecting" THEN [kind |-> "timeout", gen |-> a.gen]
                      ELSE IF a.phase = "waiting" THEN [kind |-> "retry", gen |-> a.gen]
                      ELSE NoAlarm
      /\ \A g \in Gens :
           Resolve(p, g) \in Pending(n) <=> a.phase = "resolving" /\ g = a.gen

(* A descriptor is open or waits for its callback, and its owner has it;   *)
(* a descriptor of S has no owner yet.                                     *)
DescSound(n, i, S) ==
  LET d == n.desc[i]
  IN  /\ d.status = "gone" => d = NoDesc
      /\ d.onClose # <<>> => n.conn[d.onClose[1]].nd = i
      /\ d.status = "closing" <=> Close(i) \in Pending(n)
      /\ d.status = "closing" => d.onClose # <<>>
      /\ d.status = "open" /\ d.onClose = <<>> =>
           i \in S \/ \E p \in Players : n.attempt[p].nd = i
      /\ i \in S => /\ d.status = "open" /\ d.onClose = <<>>
                    /\ \A p \in Players : n.attempt[p].nd # i

(* All is sound but the attempt of p.                                      *)
Around(n, p, S) ==
  /\ n \in NetType /\ Queue(n)
  /\ \A q \in Players : ConnSound(n, q) /\ Held(n, q)
  /\ \A q \in Players \ {p} : AttemptSound(n, q)
  /\ \A i \in Descs : DescSound(n, i, S)

Sound(n, S) ==
  /\ n \in NetType /\ Queue(n)
  /\ \A q \in Players : ConnSound(n, q) /\ Held(n, q) /\ AttemptSound(n, q)
  /\ \A i \in Descs : DescSound(n, i, S)

(* Callbacks are called before the queues are flushed or the player acts.  *)
Timely(n, at) ==
  /\ at # "select" =>
       \A k \in 1 .. Len(n.callbacks) : n.callbacks[k].kind = "close" => k <= n.todo
  /\ at \in {"menu", "flush", "select"} => n.todo = 0

LoopType == [at : DOMAIN After, ready : SUBSET Descs]

(* The inductive invariant.                                                *)
IInv ==
  /\ net \in NetType /\ Queue(net) /\ loop \in LoopType
  /\ NothingStale
  /\ Goes => /\ Sound(net, {}) /\ Timely(net, loop.at)
             /\ loop.ready # {} => loop.at = "select"

-----------------------------------------------------------------------------
(* Data.                                                                   *)

LEMMA DescsFacts == Descs \subseteq Nat /\ 0 \notin Descs /\ 0 \notin Gens
  BY FS_CardinalityType, ConnectionAssumption DEF Descs, Gens

LEMMA Names ==
  ASSUME NEW p \in Players, NEW q \in Players, NEW g \in Gens, NEW h \in Gens
  PROVE  /\ Resolve(p, g) = Resolve(q, h) <=> p = q /\ g = h
         /\ Resolve(p, g) \in Callbacks /\ Resolve(p, g).kind = "resolve"
         /\ Resolve(p, g).of = <<p, g>> /\ <<p, g>> # <<>>
  BY DEF Resolve, Callbacks

LEMMA CloseNames ==
  ASSUME NEW i \in Descs, NEW j \in Descs, NEW p \in Players, NEW g \in Gens
  PROVE  /\ Close(i) = Close(j) <=> i = j
         /\ Close(i) \in Callbacks /\ Close(i).kind = "close" /\ Close(i).of = i
         /\ Close(i) # Resolve(p, g)
  BY DEF Close, Resolve, Callbacks

LEMMA CallbackForms ==
  ASSUME NEW c \in Callbacks
  PROVE  \/ \E p \in Players, g \in Gens : c = Resolve(p, g)
         \/ \E i \in Descs : c = Close(i)
<1>1. CASE c \in [kind : {"resolve"}, of : Players \X Gens]
  <2>1. PICK p \in Players, g \in Gens : c.of = <<p, g>>
    BY <1>1
  <2>2. c = Resolve(p, g)
    BY <1>1, <2>1 DEF Resolve
  <2> QED BY <2>2
<1>2. CASE c \in [kind : {"close"}, of : Descs]
  <2>1. c.of \in Descs /\ c = Close(c.of)
    BY <1>2 DEF Close
  <2> QED BY <2>1
<1> QED BY <1>1, <1>2 DEF Callbacks

LEMMA EmptyRecords ==
  /\ NoConn \in ConnType /\ NoConn.gen = 0 /\ NoConn.nd = 0
  /\ ~NoConn.connected /\ ~NoConn.disconnected
  /\ NoAttempt \in AttemptType /\ NoAttempt.gen = 0 /\ NoAttempt.nd = 0
  /\ NoAttempt.phase = "none"
  /\ NoAlarm \in AlarmType /\ NoAlarm.kind = "none"
  /\ NoDesc \in DescType /\ NoDesc.status = "gone" /\ NoDesc.onClose = <<>>
  BY ConnectionAssumption
     DEF NoConn, NoAttempt, NoAlarm, NoDesc, ConnType, AttemptType, AlarmType, DescType

LEMMA NetFields ==
  ASSUME NEW n \in NetType
  PROVE  /\ n.conn \in [Players -> ConnType] /\ n.attempt \in [Players -> AttemptType]
         /\ n.server \in [Players -> BOOLEAN] /\ n.alarm \in [Players -> AlarmType]
         /\ n.desc \in [Descs -> DescType] /\ n.callbacks \in Seq(Callbacks)
         /\ n.todo \in Nat /\ n.bad \in {""} \cup Faults /\ Len(n.callbacks) \in Nat
<1>1. /\ n.conn \in [Players -> ConnType] /\ n.attempt \in [Players -> AttemptType]
      /\ n.server \in [Players -> BOOLEAN] /\ n.alarm \in [Players -> AlarmType]
      /\ n.desc \in [Descs -> DescType] /\ n.callbacks \in Seq(Callbacks)
      /\ n.todo \in Nat /\ n.bad \in {""} \cup Faults
  BY DEF NetType
<1>2. Len(n.callbacks) \in Nat
  <2>1. n.callbacks \in Seq(Callbacks)
    BY <1>1
  <2> QED BY <2>1
<1> QED BY <1>1, <1>2

-----------------------------------------------------------------------------
(* The list of callbacks.                                                  *)

LEMMA QueueSame ==
  ASSUME NEW n, NEW m, m.callbacks = n.callbacks, m.todo = n.todo
  PROVE  /\ Queue(n) => Queue(m)
         /\ Pending(m) = Pending(n)
         /\ \A at : Timely(n, at) => Timely(m, at)
  BY DEF Queue, Pending, Timely

LEMMA QueueAppend ==
  ASSUME NEW n, NEW m, NEW c \in Callbacks, c \notin Pending(n), Queue(n),
         n.callbacks \in Seq(Callbacks), n.todo \in Nat,
         m.callbacks = Append(n.callbacks, c), m.todo = n.todo
  PROVE  /\ m.callbacks \in Seq(Callbacks) /\ Queue(m) /\ Pending(m) = Pending(n) \cup {c}
         /\ Timely(m, "select") <=> Timely(n, "select")
         /\ c.kind # "close" => \A at : Timely(n, at) => Timely(m, at)
<1>1. /\ m.callbacks \in Seq(Callbacks) /\ Len(m.callbacks) = Len(n.callbacks) + 1
      /\ Len(n.callbacks) \in Nat
      /\ \A k \in 1 .. Len(n.callbacks) : m.callbacks[k] = n.callbacks[k]
      /\ m.callbacks[Len(n.callbacks) + 1] = c
  OBVIOUS
<1>2. \A k \in 1 .. Len(m.callbacks) : k \in 1 .. Len(n.callbacks) \/ k = Len(n.callbacks) + 1
  BY <1>1
<1>3. \A k \in 1 .. Len(n.callbacks) : k \in 1 .. Len(m.callbacks) /\ n.callbacks[k] # c
  BY <1>1 DEF Pending
<1>4. Queue(m)
  <2>1. m.todo <= Len(m.callbacks)
    BY <1>1 DEF Queue
  <2>2. ASSUME NEW j \in 1 .. Len(m.callbacks), NEW k \in 1 .. Len(m.callbacks),
               m.callbacks[j] = m.callbacks[k]
        PROVE  j = k
    <3>1. CASE j \in 1 .. Len(n.callbacks) /\ k \in 1 .. Len(n.callbacks)
      BY <1>1, <2>2, <3>1 DEF Queue
    <3>2. CASE ~(j \in 1 .. Len(n.callbacks) /\ k \in 1 .. Len(n.callbacks))
      BY <1>1, <1>2, <1>3, <2>2, <3>2
    <3> QED BY <3>1, <3>2
  <2> QED BY <2>1, <2>2 DEF Queue
<1>5. Pending(m) = Pending(n) \cup {c}
  <2>1. ASSUME NEW e \in Pending(m) PROVE e \in Pending(n) \cup {c}
    <3>1. PICK k \in 1 .. Len(m.callbacks) : e = m.callbacks[k]
      BY DEF Pending
    <3> QED BY <1>1, <1>2, <3>1 DEF Pending
  <2>2. ASSUME NEW e \in Pending(n) PROVE e \in Pending(m)
    <3>1. PICK k \in 1 .. Len(n.callbacks) : e = n.callbacks[k]
      BY DEF Pending
    <3> QED BY <1>1, <1>3, <3>1 DEF Pending
  <2>3. c \in Pending(m)
    <3>1. Len(n.callbacks) + 1 \in 1 .. Len(m.callbacks)
      BY <1>1
    <3> QED BY <1>1, <3>1 DEF Pending
  <2> QED BY <2>1, <2>2, <2>3
<1>6. Timely(m, "select") <=> Timely(n, "select")
  BY DEF Timely
<1>7. ASSUME c.kind # "close", NEW at, Timely(n, at) PROVE Timely(m, at)
  BY <1>1, <1>2, <1>7 DEF Timely
<1> QED BY <1>1, <1>4, <1>5, <1>6, <1>7

LEMMA QueueTail ==
  ASSUME NEW n, NEW m, Queue(n), n.callbacks \in Seq(Callbacks), n.todo \in Nat, n.todo > 0,
         m.callbacks = Tail(n.callbacks), m.todo = n.todo - 1
  PROVE  /\ n.callbacks # <<>> /\ Head(n.callbacks) \in Callbacks
         /\ Head(n.callbacks) \in Pending(n)
         /\ m.callbacks \in Seq(Callbacks) /\ m.todo \in Nat
         /\ Queue(m) /\ Pending(m) = Pending(n) \ {Head(n.callbacks)}
         /\ \A at : Timely(n, at) => Timely(m, at)
<1> DEFINE s == n.callbacks
           t == m.callbacks
<1>1. /\ Len(s) \in Nat /\ Len(s) > 0 /\ s # <<>>
      /\ Head(s) = s[1] /\ s[1] \in Callbacks /\ t \in Seq(Callbacks) /\ Len(t) = Len(s) - 1
      /\ \A k \in 1 .. Len(t) : t[k] = s[k + 1]
      /\ \A j, k \in 1 .. Len(s) : s[j] = s[k] => j = k
  BY DEF Queue
<1>2. \A k \in 1 .. Len(t) : k + 1 \in 1 .. Len(s) /\ k + 1 # 1
  BY <1>1
<1>3. \A k \in 1 .. Len(s) : k # 1 => k - 1 \in 1 .. Len(t) /\ t[k - 1] = s[k]
  BY <1>1
<1>4. 1 \in 1 .. Len(s)
  BY <1>1
<1> HIDE DEF s, t
<1>5. s[1] \in Pending(n)
  BY <1>4 DEF Pending, s
<1>6. Pending(m) = Pending(n) \ {s[1]}
  <2>1. ASSUME NEW e \in Pending(m) PROVE e \in Pending(n) /\ e # s[1]
    <3>1. PICK k \in 1 .. Len(t) : e = t[k]
      BY DEF Pending, t
    <3>2. e = s[k + 1] /\ k + 1 \in 1 .. Len(s) /\ k + 1 # 1
      BY <1>1, <1>2, <3>1
    <3>3. e \in Pending(n)
      BY <3>2 DEF Pending, s
    <3> QED BY <1>1, <1>4, <3>2, <3>3
  <2>2. ASSUME NEW e \in Pending(n), e # s[1] PROVE e \in Pending(m)
    <3>1. PICK k \in 1 .. Len(s) : e = s[k]
      BY DEF Pending, s
    <3>2. k - 1 \in 1 .. Len(t) /\ t[k - 1] = e
      BY <1>3, <2>2, <3>1
    <3> QED BY <3>2 DEF Pending, t
  <2> QED BY <2>1, <2>2
<1>7. Queue(m)
  <2>1. m.todo <= Len(t)
    BY <1>1 DEF Queue, s
  <2>2. ASSUME NEW j \in 1 .. Len(t), NEW k \in 1 .. Len(t), t[j] = t[k] PROVE j = k
    <3>1. s[j + 1] = s[k + 1] /\ j + 1 \in 1 .. Len(s) /\ k + 1 \in 1 .. Len(s)
      BY <1>1, <1>2, <2>2
    <3>2. j + 1 = k + 1
      BY <1>1, <3>1
    <3> QED BY <3>2
  <2> QED BY <2>1, <2>2 DEF Queue, t
<1>8. ASSUME NEW at, Timely(n, at) PROVE Timely(m, at)
  <2>1. at \notin {"menu", "flush", "select"}
    BY <1>8 DEF Timely
  <2>2. ASSUME NEW k \in 1 .. Len(t), t[k].kind = "close" PROVE k <= m.todo
    <3>1. s[k + 1].kind = "close" /\ k + 1 \in 1 .. Len(s)
      BY <1>1, <1>2, <2>2
    <3>2. k + 1 <= n.todo
      BY <1>8, <2>1, <3>1 DEF Timely, s
    <3> QED BY <3>2
  <2> QED BY <2>1, <2>2 DEF Timely, t
<1>9. m.todo \in Nat
  OBVIOUS
<1> QED BY <1>1, <1>5, <1>6, <1>7, <1>8, <1>9 DEF s, t

LEMMA SeqWithout ==
  ASSUME NEW s \in Seq(Callbacks), NEW k \in 1 .. Len(s)
  PROVE  LET t == SubSeq(s, 1, k - 1) \o SubSeq(s, k + 1, Len(s))
         IN  /\ t \in Seq(Callbacks) /\ Len(t) = Len(s) - 1
             /\ \A j \in 1 .. Len(t) : t[j] = IF j < k THEN s[j] ELSE s[j + 1]
<1> DEFINE u == SubSeq(s, 1, k - 1)
           v == SubSeq(s, k + 1, Len(s))
           t == u \o v
<1>1. Len(s) \in Nat /\ k \in Nat /\ k >= 1 /\ k <= Len(s)
  OBVIOUS
<1>2. /\ u \in Seq(Callbacks) /\ Len(u) = k - 1
      /\ \A j \in 1 .. k - 1 : u[j] = s[j]
  <2>1. \A j \in 1 .. k - 1 : s[j] \in Callbacks
    BY <1>1
  <2> QED BY <1>1, <2>1, SubSeqProperties
<1>3. /\ v \in Seq(Callbacks) /\ Len(v) = Len(s) - k
      /\ \A j \in 1 .. Len(s) - k : v[j] = s[j + k]
  <2>1. \A j \in k + 1 .. Len(s) : s[j] \in Callbacks
    BY <1>1
  <2> QED BY <1>1, <2>1, SubSeqProperties
<1> HIDE DEF u, v
<1>4. /\ t \in Seq(Callbacks) /\ Len(t) = Len(u) + Len(v)
      /\ \A j \in 1 .. Len(u) + Len(v) : t[j] = IF j <= Len(u) THEN u[j] ELSE v[j - Len(u)]
  BY <1>2, <1>3, ConcatProperties
<1> HIDE DEF t
<1>5. Len(t) = Len(s) - 1 /\ Len(u) = k - 1 /\ Len(v) = Len(s) - k
  BY <1>1, <1>2, <1>3, <1>4
<1>6. ASSUME NEW j \in 1 .. Len(t) PROVE t[j] = IF j < k THEN s[j] ELSE s[j + 1]
  <2>1. CASE j < k
    <3>1. j \in 1 .. k - 1 /\ j <= Len(u) /\ j \in 1 .. Len(u) + Len(v)
      BY <1>1, <1>5, <2>1
    <3> QED BY <1>2, <1>4, <2>1, <3>1
  <2>2. CASE ~(j < k)
    <3>1. /\ j - (k - 1) \in 1 .. Len(s) - k /\ ~(j <= Len(u)) /\ (j - (k - 1)) + k = j + 1
          /\ j \in 1 .. Len(u) + Len(v)
      BY <1>1, <1>5, <2>2
    <3>2. t[j] = v[j - (k - 1)]
      BY <1>4, <1>5, <3>1
    <3>3. v[j - (k - 1)] = s[j + 1]
      BY <1>3, <3>1
    <3> QED BY <2>2, <3>2, <3>3
  <2> QED BY <2>1, <2>2
<1> QED BY <1>4, <1>5, <1>6 DEF t, u, v

(* m is n without its callback k.                                          *)
Without(n, m, k) ==
  /\ m.callbacks = SubSeq(n.callbacks, 1, k - 1)
                     \o SubSeq(n.callbacks, k + 1, Len(n.callbacks))
  /\ m.todo = IF k <= n.todo THEN n.todo - 1 ELSE n.todo

LEMMA QueueWithout ==
  ASSUME NEW n, NEW m, Queue(n), n.callbacks \in Seq(Callbacks), n.todo \in Nat,
         NEW k \in 1 .. Len(n.callbacks), Without(n, m, k)
  PROVE  /\ m.callbacks \in Seq(Callbacks) /\ m.todo \in Nat
         /\ Queue(m) /\ Pending(m) = Pending(n) \ {n.callbacks[k]}
         /\ \A at : Timely(n, at) => Timely(m, at)
<1> DEFINE s == n.callbacks
           t == m.callbacks
<1>1. /\ Len(s) \in Nat /\ k \in Nat /\ k >= 1 /\ k <= Len(s)
      /\ t \in Seq(Callbacks) /\ Len(t) = Len(s) - 1
      /\ \A j \in 1 .. Len(t) : t[j] = IF j < k THEN s[j] ELSE s[j + 1]
      /\ \A i, j \in 1 .. Len(s) : s[i] = s[j] => i = j
      /\ n.todo <= Len(s)
  <2>1. Len(s) \in Nat /\ k \in Nat /\ k >= 1 /\ k <= Len(s)
    OBVIOUS
  <2>2. /\ t \in Seq(Callbacks) /\ Len(t) = Len(s) - 1
        /\ \A j \in 1 .. Len(t) : t[j] = IF j < k THEN s[j] ELSE s[j + 1]
    BY SeqWithout DEF Without
  <2> QED BY <2>1, <2>2 DEF Queue
<1> HIDE DEF s, t
<1>2. ASSUME NEW j \in 1 .. Len(t)
      PROVE  \E i \in 1 .. Len(s) :
               /\ t[j] = s[i] /\ i # k
               /\ i = IF j < k THEN j ELSE j + 1
  <2>1. CASE j < k
    BY <1>1, <2>1
  <2>2. CASE ~(j < k)
    <3>1. j + 1 \in 1 .. Len(s) /\ j + 1 # k /\ t[j] = s[j + 1]
      BY <1>1, <2>2
    <3> QED BY <2>2, <3>1
  <2> QED BY <2>1, <2>2
<1>3. ASSUME NEW i \in 1 .. Len(s), i # k
      PROVE  \E j \in 1 .. Len(t) : t[j] = s[i]
  <2>1. CASE i < k
    <3>1. i \in 1 .. Len(t) /\ t[i] = s[i]
      BY <1>1, <2>1
    <3> QED BY <3>1
  <2>2. CASE ~(i < k)
    <3>1. i - 1 \in 1 .. Len(t) /\ ~(i - 1 < k) /\ (i - 1) + 1 = i
      BY <1>1, <1>3, <2>2
    <3>2. t[i - 1] = s[i]
      BY <1>1, <3>1
    <3> QED BY <3>1, <3>2
  <2> QED BY <2>1, <2>2
<1>4. Pending(m) = Pending(n) \ {s[k]}
  <2>1. ASSUME NEW e \in Pending(m) PROVE e \in Pending(n) /\ e # s[k]
    <3>1. PICK j \in 1 .. Len(t) : e = t[j]
      BY DEF Pending, t
    <3>2. PICK i \in 1 .. Len(s) : e = s[i] /\ i # k
      BY <1>2, <3>1
    <3>3. e \in Pending(n)
      BY <3>2 DEF Pending, s
    <3> QED BY <1>1, <3>2, <3>3
  <2>2. ASSUME NEW e \in Pending(n), e # s[k] PROVE e \in Pending(m)
    <3>1. PICK i \in 1 .. Len(s) : e = s[i] /\ i # k
      BY <2>2 DEF Pending, s
    <3>2. PICK j \in 1 .. Len(t) : t[j] = e
      BY <1>3, <3>1
    <3> QED BY <3>2 DEF Pending, t
  <2> QED BY <2>1, <2>2
<1>5. /\ m.todo \in Nat /\ m.todo <= Len(t)
      /\ m.todo = IF k <= n.todo THEN n.todo - 1 ELSE n.todo
  BY <1>1 DEF Without
<1>6. ASSUME NEW i \in 1 .. Len(t), NEW j \in 1 .. Len(t), t[i] = t[j] PROVE i = j
  <2>1. PICK a \in 1 .. Len(s) : t[i] = s[a] /\ a # k /\ a = IF i < k THEN i ELSE i + 1
    BY <1>2
  <2>2. PICK b \in 1 .. Len(s) : t[j] = s[b] /\ b # k /\ b = IF j < k THEN j ELSE j + 1
    BY <1>2
  <2>3. a = b
    BY <1>1, <1>6, <2>1, <2>2
  <2> QED BY <1>1, <2>1, <2>2, <2>3
<1>7. ASSUME NEW at, Timely(n, at) PROVE Timely(m, at)
  <2>1. ASSUME at # "select", NEW j \in 1 .. Len(t), t[j].kind = "close" PROVE j <= m.todo
    <3>1. PICK i \in 1 .. Len(s) : t[j] = s[i] /\ i # k /\ i = IF j < k THEN j ELSE j + 1
      BY <1>2
    <3>2. i <= n.todo
      BY <1>7, <2>1, <3>1 DEF Timely, s
    <3> QED BY <1>1, <1>5, <3>1, <3>2
  <2>2. n.todo = 0 => m.todo = 0
    BY <1>1, <1>5
  <2> QED BY <1>7, <2>1, <2>2 DEF Timely, t
<1>8. Queue(m)
  BY <1>5, <1>6 DEF Queue, t
<1> QED BY <1>1, <1>4, <1>5, <1>7, <1>8 DEF s, t

LEMMA RemoveResolveEffect ==
  ASSUME NEW n \in NetType, Queue(n), NEW p \in Players, NEW g,
         NEW m, m = RemoveResolve(n, p, g)
  PROVE  /\ m \in NetType /\ Queue(m) /\ Pending(m) = Pending(n) \ {Resolve(p, g)}
         /\ \A at : Timely(n, at) => Timely(m, at)
         /\ m.conn = n.conn /\ m.attempt = n.attempt /\ m.server = n.server
         /\ m.alarm = n.alarm /\ m.desc = n.desc /\ m.bad = n.bad
<1> DEFINE found == {k \in 1 .. Len(n.callbacks) : n.callbacks[k] = Resolve(p, g)}
<1>1. CASE found = {}
  <2>1. m = n
    BY <1>1 DEF RemoveResolve, Resolve
  <2>2. Resolve(p, g) \notin Pending(n)
    BY <1>1 DEF Pending
  <2> QED BY <2>1, <2>2
<1>2. CASE found # {}
  <2> DEFINE k == CHOOSE i \in found : TRUE
  <2>1. k \in found
    BY <1>2
  <2>2. m = [n EXCEPT !.callbacks = SubSeq(@, 1, k - 1) \o SubSeq(@, k + 1, Len(@)),
                      !.todo = IF k <= @ THEN @ - 1 ELSE @]
    BY <1>2 DEF RemoveResolve, Resolve
  <2> HIDE DEF k
  <2>3. k \in 1 .. Len(n.callbacks) /\ n.callbacks[k] = Resolve(p, g)
    BY <2>1
  <2> HIDE DEF found
  <2>4. /\ m.callbacks = SubSeq(n.callbacks, 1, k - 1)
                           \o SubSeq(n.callbacks, k + 1, Len(n.callbacks))
        /\ m.todo = IF k <= n.todo THEN n.todo - 1 ELSE n.todo
        /\ m.conn = n.conn /\ m.attempt = n.attempt /\ m.server = n.server
        /\ m.alarm = n.alarm /\ m.desc = n.desc /\ m.bad = n.bad
    BY <2>2 DEF NetType
  <2>5. /\ m.callbacks \in Seq(Callbacks) /\ m.todo \in Nat
        /\ Queue(m) /\ Pending(m) = Pending(n) \ {Resolve(p, g)}
        /\ \A at : Timely(n, at) => Timely(m, at)
    <3>1. n.callbacks \in Seq(Callbacks) /\ n.todo \in Nat
      BY NetFields
    <3>3. Without(n, m, k)
      BY <2>4 DEF Without
    <3>2. /\ m.callbacks \in Seq(Callbacks) /\ m.todo \in Nat
          /\ Queue(m) /\ Pending(m) = Pending(n) \ {n.callbacks[k]}
          /\ \A at : Timely(n, at) => Timely(m, at)
      BY <2>3, <3>1, <3>3, QueueWithout
    <3> QED BY <2>3, <3>2
  <2>6. m \in NetType
    BY <2>2, <2>4, <2>5 DEF NetType
  <2> QED BY <2>4, <2>5, <2>6
<1> QED BY <1>1, <1>2

-----------------------------------------------------------------------------
(* Attempts are closed.                                                    *)

(* m differs from n in nothing but the attempts, alarms and descriptors.   *)
SameRest(n, m) ==
  /\ m \in NetType /\ m.conn = n.conn /\ m.server = n.server /\ m.bad = n.bad
  /\ m.callbacks = n.callbacks /\ m.todo = n.todo

LEMMA CloseDescEffect ==
  ASSUME NEW n \in NetType, NEW i \in Descs, n.desc[i].status = "open", n.desc[i].onClose = <<>>,
         NEW m, m = CloseDesc(n, i)
  PROVE  /\ SameRest(n, m) /\ m.attempt = n.attempt /\ m.alarm = n.alarm
         /\ m.desc = [n.desc EXCEPT ![i] = NoDesc]
<1>1. m = [n EXCEPT !.desc[i] = NoDesc]
  BY DescsFacts DEF CloseDesc, Open
<1>2. [n.desc EXCEPT ![i] = NoDesc] \in [Descs -> DescType]
  BY EmptyRecords, NetFields
<1>3. m = [n EXCEPT !.desc = [n.desc EXCEPT ![i] = NoDesc]]
  BY <1>1
<1> QED BY <1>2, <1>3 DEF NetType, SameRest

LEMMA CloseAttemptEffect ==
  ASSUME NEW n \in NetType, Queue(n), NEW p \in Players, Held(n, p),
         NEW m, m = CloseAttempt(n, p)
  PROVE  /\ m \in NetType /\ Queue(m)
         /\ Pending(m) = Pending(n) \ {Resolve(p, n.attempt[p].gen)}
         /\ \A at : Timely(n, at) => Timely(m, at)
         /\ m.conn = n.conn /\ m.server = n.server /\ m.bad = n.bad
         /\ m.attempt = [n.attempt EXCEPT ![p] = NoAttempt]
         /\ m.alarm = [n.alarm EXCEPT ![p] = NoAlarm]
         /\ m.desc = IF n.attempt[p].nd = 0 THEN n.desc
                     ELSE [n.desc EXCEPT ![n.attempt[p].nd] = NoDesc]
<1> DEFINE i == n.attempt[p].nd
           a == [n EXCEPT !.alarm[p] = NoAlarm]
           b == RemoveResolve(a, p, n.attempt[p].gen)
           c == IF b.attempt[p].nd # 0 THEN CloseDesc(b, b.attempt[p].nd) ELSE b
<1>1. /\ a \in NetType /\ a.conn = n.conn /\ a.server = n.server /\ a.bad = n.bad
      /\ a.attempt = n.attempt /\ a.desc = n.desc /\ a.callbacks = n.callbacks
      /\ a.todo = n.todo /\ a.alarm = [n.alarm EXCEPT ![p] = NoAlarm]
  <2>1. [n.alarm EXCEPT ![p] = NoAlarm] \in [Players -> AlarmType]
    BY EmptyRecords, NetFields
  <2>2. a = [n EXCEPT !.alarm = [n.alarm EXCEPT ![p] = NoAlarm]]
    OBVIOUS
  <2> QED BY <2>1, <2>2 DEF NetType
<1> HIDE DEF a
<1>2. Queue(a) /\ Pending(a) = Pending(n) /\ \A at : Timely(n, at) => Timely(a, at)
  BY <1>1, QueueSame
<1>3. /\ b \in NetType /\ Queue(b) /\ Pending(b) = Pending(n) \ {Resolve(p, n.attempt[p].gen)}
      /\ \A at : Timely(n, at) => Timely(b, at)
      /\ b.conn = n.conn /\ b.attempt = n.attempt /\ b.server = n.server
      /\ b.alarm = [n.alarm EXCEPT ![p] = NoAlarm] /\ b.desc = n.desc /\ b.bad = n.bad
  BY <1>1, <1>2, RemoveResolveEffect
<1> HIDE DEF b
<1>4. /\ SameRest(b, c) /\ c.attempt = b.attempt /\ c.alarm = b.alarm
      /\ c.desc = IF i = 0 THEN n.desc ELSE [n.desc EXCEPT ![i] = NoDesc]
  <2>1. CASE i = 0
    BY <1>3, <2>1 DEF SameRest
  <2>2. CASE i # 0
    <3>1. i \in Descs
      BY <2>2, NetFields DEF AttemptType
    <3>2. b.desc[i].status = "open" /\ b.desc[i].onClose = <<>> /\ c = CloseDesc(b, i)
      BY <1>3, <2>2 DEF Held
    <3> HIDE DEF c, i
    <3> QED BY <1>3, <2>2, <3>1, <3>2, CloseDescEffect
  <2> QED BY <2>1, <2>2
<1>5. m = [c EXCEPT !.attempt[p] = NoAttempt]
  BY <1>1 DEF CloseAttempt, c, b, a
<1> HIDE DEF c
<1>6. /\ Queue(c) /\ Pending(c) = Pending(n) \ {Resolve(p, n.attempt[p].gen)}
      /\ \A at : Timely(n, at) => Timely(c, at)
  BY <1>3, <1>4, QueueSame DEF SameRest
<1>7. /\ m \in NetType /\ m.conn = c.conn /\ m.server = c.server /\ m.bad = c.bad
      /\ m.desc = c.desc /\ m.alarm = c.alarm
      /\ m.callbacks = c.callbacks /\ m.todo = c.todo
      /\ m.attempt = [c.attempt EXCEPT ![p] = NoAttempt]
  <2>1. c \in NetType
    BY <1>4 DEF SameRest
  <2>2. [c.attempt EXCEPT ![p] = NoAttempt] \in [Players -> AttemptType]
    BY <2>1, EmptyRecords, NetFields
  <2>3. m = [c EXCEPT !.attempt = [c.attempt EXCEPT ![p] = NoAttempt]]
    BY <1>5
  <2> QED BY <2>1, <2>2, <2>3 DEF NetType
<1>8. Queue(m) /\ Pending(m) = Pending(c) /\ \A at : Timely(c, at) => Timely(m, at)
  BY <1>6, <1>7, QueueSame
<1> QED BY <1>3, <1>4, <1>6, <1>7, <1>8 DEF SameRest

(* The socket of a connection knows it.                                    *)
LEMMA SocketKnows ==
  ASSUME NEW n \in NetType, NEW q \in Players, ConnSound(n, q), n.conn[q].connected
  PROVE  /\ n.conn[q].nd \in Descs /\ n.conn[q].gen \in Gens
         /\ n.desc[n.conn[q].nd].onClose = <<q, n.conn[q].gen>>
         /\ n.desc[n.conn[q].nd].onClose # <<>>
<1>1. n.conn[q] \in ConnType
  BY NetFields
<1>2. n.conn[q].nd \in Descs /\ n.conn[q].gen \in Gens
  BY <1>1, EmptyRecords DEF ConnSound, ConnType
<1>3. n.desc[n.conn[q].nd].onClose = <<q, n.conn[q].gen>>
  BY DEF ConnSound
<1> QED BY <1>2, <1>3, Names

(* Of the callbacks there is none of p but for its attempt.                *)
OwnEntry(n, p) ==
  \A g \in Gens : Resolve(p, g) \in Pending(n) => g = n.attempt[p].gen

LEMMA CloseAttemptSound ==
  ASSUME NEW n, NEW p \in Players, NEW S \in SUBSET Descs, Around(n, p, S), OwnEntry(n, p),
         NEW m, m = CloseAttempt(n, p)
  PROVE  /\ Sound(m, S) /\ m.bad = n.bad /\ \A at : Timely(n, at) => Timely(m, at)
         /\ m.conn = n.conn /\ m.attempt = [n.attempt EXCEPT ![p] = NoAttempt]
<1> DEFINE e == n.attempt[p].nd
<1>1. /\ n \in NetType /\ Queue(n) /\ \A q \in Players : ConnSound(n, q) /\ Held(n, q)
      /\ \A q \in Players \ {p} : AttemptSound(n, q)
      /\ \A i \in Descs : DescSound(n, i, S)
  BY DEF Around
<1>2. /\ n.conn \in [Players -> ConnType] /\ n.attempt \in [Players -> AttemptType]
      /\ n.alarm \in [Players -> AlarmType] /\ n.desc \in [Descs -> DescType]
  BY <1>1, NetFields
<1>3. /\ m \in NetType /\ Queue(m)
      /\ Pending(m) = Pending(n) \ {Resolve(p, n.attempt[p].gen)}
      /\ \A at : Timely(n, at) => Timely(m, at)
      /\ m.conn = n.conn /\ m.server = n.server /\ m.bad = n.bad
      /\ m.attempt = [n.attempt EXCEPT ![p] = NoAttempt]
      /\ m.alarm = [n.alarm EXCEPT ![p] = NoAlarm]
      /\ m.desc = IF e = 0 THEN n.desc ELSE [n.desc EXCEPT ![e] = NoDesc]
  BY <1>1, CloseAttemptEffect
<1>4. /\ \A q \in Players : m.attempt[q] = IF q = p THEN NoAttempt ELSE n.attempt[q]
      /\ \A q \in Players : m.alarm[q] = IF q = p THEN NoAlarm ELSE n.alarm[q]
      /\ \A i \in Descs : m.desc[i] = IF i = e THEN NoDesc ELSE n.desc[i]
  BY <1>2, <1>3, DescsFacts
<1>5. /\ e # 0 => e \in Descs /\ n.desc[e].status = "open" /\ n.desc[e].onClose = <<>>
      /\ e # 0 => \A q \in Players : n.attempt[q].nd = e => q = p
      /\ e \notin S
  <2>1. e # 0 => e \in Descs
    BY <1>2 DEF AttemptType
  <2>2. e # 0 => /\ n.desc[e].status = "open" /\ n.desc[e].onClose = <<>>
                 /\ \A q \in Players : n.attempt[q].nd = e => q = p
    BY <1>1 DEF Held
  <2>3. e \notin S
    <3>1. CASE e \in Descs
      BY <1>1, <3>1 DEF DescSound
    <3>2. CASE e = 0
      BY <3>2, DescsFacts
    <3> QED BY <2>1, <3>1, <3>2
  <2> QED BY <2>1, <2>2, <2>3
<1> HIDE DEF e
<1>6. ASSUME NEW q \in Players PROVE ConnSound(m, q)
  <2>1. n.conn[q].connected => n.conn[q].nd \in Descs /\ n.conn[q].nd # e
    <3>1. n.conn[q].connected =>
            n.conn[q].nd \in Descs /\ n.desc[n.conn[q].nd].onClose # <<>>
      BY <1>1, SocketKnows
    <3> QED BY <1>5, <3>1, DescsFacts
  <2>2. m.conn[q] = n.conn[q] /\ m.attempt[q].gen \in {0, n.attempt[q].gen}
    BY <1>3, <1>4, EmptyRecords
  <2>3. n.conn[q].connected => m.desc[n.conn[q].nd] = n.desc[n.conn[q].nd]
    BY <1>4, <2>1
  <2>4. ConnSound(n, q)
    BY <1>1
  <2>5. m.attempt[q].gen # 0 => m.attempt[q].gen = n.attempt[q].gen /\ n.attempt[q].gen # 0
    BY <2>2
  <2> QED BY <2>2, <2>3, <2>4, <2>5 DEF ConnSound
<1>7. ASSUME NEW q \in Players PROVE Held(m, q)
  <2>1. n.attempt[q].nd # 0 => n.attempt[q].nd \in Descs
    BY <1>2 DEF AttemptType
  <2>2. CASE q = p
    BY <1>4, <2>2, EmptyRecords DEF Held
  <2>3. CASE q # p
    BY <1>1, <1>4, <1>5, <2>1, <2>3, EmptyRecords DEF Held
  <2> QED BY <2>2, <2>3
<1>8. ASSUME NEW q \in Players PROVE AttemptSound(m, q)
  <2>1. CASE q = p
    <3>1. \A g \in Gens : Resolve(p, g) \notin Pending(m)
      BY <1>3 DEF OwnEntry
    <3> QED BY <1>4, <2>1, <3>1, EmptyRecords DEF AttemptSound
  <2>2. CASE q # p
    <3>1. \A g \in Gens : Resolve(q, g) \in Pending(m) <=> Resolve(q, g) \in Pending(n)
      BY <1>3, <2>2 DEF Resolve
    <3> QED BY <1>1, <1>4, <2>2, <3>1 DEF AttemptSound
  <2> QED BY <2>1, <2>2
<1>9. ASSUME NEW i \in Descs PROVE DescSound(m, i, S)
  <2>1. Close(i) \in Pending(m) <=> Close(i) \in Pending(n)
    BY <1>3 DEF Close, Resolve
  <2>2. DescSound(n, i, S)
    BY <1>1
  <2>3. CASE i = e
    BY <1>4, <1>5, <2>1, <2>2, <2>3, EmptyRecords, DescsFacts DEF DescSound
  <2>4. CASE i # e
    <3>1. \A q \in Players : n.attempt[q].nd = i => m.attempt[q].nd = i
      BY <1>4, <2>4 DEF e
    <3>2. \A q \in Players : m.attempt[q].nd = i => n.attempt[q].nd = i
      BY <1>4, EmptyRecords, DescsFacts
    <3> QED BY <1>3, <1>4, <2>1, <2>2, <2>4, <3>1, <3>2 DEF DescSound
  <2> QED BY <2>3, <2>4
<1> QED BY <1>3, <1>6, <1>7, <1>8, <1>9 DEF Sound

-----------------------------------------------------------------------------
(* Attempts go on or fail.                                                 *)

(* What a function on p's attempt leaves: all sound, nothing else changed. *)
Settled(n, m, p) ==
  /\ Sound(m, {}) /\ m.bad = n.bad /\ \A at : Timely(n, at) => Timely(m, at)
  /\ m.conn \in {n.conn, [n.conn EXCEPT ![p] = NoConn]}

(* p's attempt has lost what carried it on.                                *)
Loose(n, p) ==
  /\ Around(n, p, {})
  /\ n.attempt[p].gen # 0 /\ n.attempt[p].nd = 0 /\ n.alarm[p] = NoAlarm
  /\ \A g \in Gens : Resolve(p, g) \notin Pending(n)

LEMMA DropConn ==
  ASSUME NEW n, NEW p \in Players, NEW S \in SUBSET Descs, Sound(n, S),
         n.attempt[p] = NoAttempt, ~n.conn[p].connected,
         NEW m, m = [n EXCEPT !.conn[p] = NoConn]
  PROVE  /\ Sound(m, S) /\ m.bad = n.bad /\ \A at : Timely(n, at) => Timely(m, at)
         /\ m.conn = [n.conn EXCEPT ![p] = NoConn]
<1>1. n \in NetType /\ n.conn \in [Players -> ConnType] /\ n.desc \in [Descs -> DescType]
  BY NetFields DEF Sound
<1>2. [n.conn EXCEPT ![p] = NoConn] \in [Players -> ConnType]
  BY <1>1, EmptyRecords
<1>3. m = [n EXCEPT !.conn = [n.conn EXCEPT ![p] = NoConn]]
  OBVIOUS
<1>4. /\ m \in NetType /\ m.conn = [n.conn EXCEPT ![p] = NoConn] /\ m.attempt = n.attempt
      /\ m.alarm = n.alarm /\ m.desc = n.desc /\ m.bad = n.bad
      /\ m.callbacks = n.callbacks /\ m.todo = n.todo
  BY <1>1, <1>2, <1>3 DEF NetType
<1>5. Queue(m) /\ Pending(m) = Pending(n) /\ \A at : Timely(n, at) => Timely(m, at)
  BY <1>4, QueueSame DEF Sound
<1>6. \A q \in Players : m.conn[q] = IF q = p THEN NoConn ELSE n.conn[q]
  BY <1>1, <1>4
<1>7. ASSUME NEW q \in Players PROVE ConnSound(m, q) /\ Held(m, q) /\ AttemptSound(m, q)
  <2>1. ConnSound(n, q) /\ Held(n, q) /\ AttemptSound(n, q)
    BY DEF Sound
  <2>2. Held(m, q) /\ AttemptSound(m, q)
    BY <1>4, <1>5, <2>1 DEF Held, AttemptSound
  <2>3. CASE q = p
    <3>1. m.conn[q] = NoConn /\ m.attempt[q].gen = 0
      BY <1>4, <1>6, <2>3, EmptyRecords
    <3> QED BY <2>2, <3>1, EmptyRecords DEF ConnSound
  <2>4. CASE q # p
    <3>1. m.conn[q] = n.conn[q] /\ m.attempt[q] = n.attempt[q] /\ m.desc = n.desc
      BY <1>4, <1>6, <2>4
    <3> QED BY <2>1, <2>2, <3>1 DEF ConnSound
  <2> QED BY <2>2, <2>3, <2>4
<1>8. ASSUME NEW i \in Descs PROVE DescSound(m, i, S)
  <2>1. DescSound(n, i, S)
    BY DEF Sound
  <2>2. ASSUME n.desc[i].onClose # <<>> PROVE m.conn[n.desc[i].onClose[1]].nd = i
    <3>1. PICK q \in Players, g \in Gens : n.desc[i].onClose = <<q, g>>
      BY <1>1, <2>2 DEF DescType
    <3>2. n.conn[q].nd = i
      BY <2>1, <2>2, <3>1 DEF DescSound
    <3>3. n.conn[q].connected
      BY <3>2, DescsFacts DEF Sound, ConnSound
    <3> QED BY <1>6, <3>1, <3>2, <3>3
  <2> QED BY <1>4, <1>5, <2>1, <2>2 DEF DescSound
<1> QED BY <1>4, <1>5, <1>7, <1>8 DEF Sound

LEMMA AttemptFailsSound ==
  ASSUME NEW n, NEW p \in Players, Around(n, p, {}), OwnEntry(n, p), ~n.conn[p].connected,
         NEW m, m = AttemptFails(n, p)
  PROVE  Settled(n, m, p)
<1> DEFINE c == CloseAttempt(n, p)
<1>1. /\ Sound(c, {}) /\ c.bad = n.bad /\ \A at : Timely(n, at) => Timely(c, at)
      /\ c.conn = n.conn /\ c.attempt = [n.attempt EXCEPT ![p] = NoAttempt]
  BY CloseAttemptSound
<1>2. m = [c EXCEPT !.conn[p] = NoConn]
  BY DEF AttemptFails
<1>3. c.attempt[p] = NoAttempt /\ ~c.conn[p].connected
  BY <1>1, NetFields DEF Around
<1> HIDE DEF c
<1>4. /\ Sound(m, {}) /\ m.bad = c.bad /\ \A at : Timely(c, at) => Timely(m, at)
      /\ m.conn = [c.conn EXCEPT ![p] = NoConn]
  BY <1>1, <1>2, <1>3, DropConn
<1> QED BY <1>1, <1>4 DEF Settled

LEMMA LooseFacts ==
  ASSUME NEW n, NEW p \in Players, Loose(n, p)
  PROVE  /\ OwnEntry(n, p) /\ Around(n, p, {}) /\ n \in NetType
         /\ n.conn[p].gen = n.attempt[p].gen /\ n.attempt[p].gen \in Gens
         /\ ~n.conn[p].connected /\ ~n.conn[p].disconnected /\ n.conn[p].nd = 0
<1>1. OwnEntry(n, p) /\ Around(n, p, {}) /\ n.attempt[p].gen # 0
  BY DEF Loose, OwnEntry
<1>2. n \in NetType /\ ConnSound(n, p)
  BY <1>1 DEF Around
<1>3. n.attempt[p] \in AttemptType
  BY <1>2, NetFields
<1>4. n.attempt[p].gen \in Gens
  BY <1>1, <1>3 DEF AttemptType
<1> QED BY <1>1, <1>2, <1>4 DEF ConnSound

OpenDesc == [NoDesc EXCEPT !.status = "open"]

LEMMA OpenDescFacts ==
  OpenDesc \in DescType /\ OpenDesc.status = "open" /\ OpenDesc.onClose = <<>>
  BY DEF OpenDesc, NoDesc, DescType

(* The attempt of p goes on as a, with its socket, and with the alarm r.   *)
Resumed(n, m, p, a, r) ==
  /\ SameRest(n, m)
  /\ m.attempt = [n.attempt EXCEPT ![p] = a]
  /\ m.alarm = [n.alarm EXCEPT ![p] = r]
  /\ m.desc = IF a.nd = 0 THEN n.desc ELSE [n.desc EXCEPT ![a.nd] = OpenDesc]

LEMMA ResumedSound ==
  ASSUME NEW n, NEW p \in Players, Loose(n, p), NEW a \in AttemptType, NEW r,
         a.gen = n.attempt[p].gen, a.phase \in {"connecting", "waiting", "listening"},
         a.nd # 0 <=> a.phase \in {"connecting", "listening"},
         a.nd # 0 => n.desc[a.nd].status = "gone",
         r = IF a.phase = "connecting" THEN [kind |-> "timeout", gen |-> a.gen]
             ELSE IF a.phase = "waiting" THEN [kind |-> "retry", gen |-> a.gen]
             ELSE NoAlarm,
         NEW m, Resumed(n, m, p, a, r)
  PROVE  Settled(n, m, p)
<1> DEFINE e == a.nd
<1>1. /\ n \in NetType /\ Queue(n) /\ \A q \in Players : ConnSound(n, q) /\ Held(n, q)
      /\ \A q \in Players \ {p} : AttemptSound(n, q)
      /\ \A i \in Descs : DescSound(n, i, {})
  BY DEF Around, Loose
<1>2. /\ n.conn \in [Players -> ConnType] /\ n.attempt \in [Players -> AttemptType]
      /\ n.alarm \in [Players -> AlarmType] /\ n.desc \in [Descs -> DescType]
  BY <1>1, NetFields
<1>3. /\ Queue(m) /\ Pending(m) = Pending(n) /\ \A at : Timely(n, at) => Timely(m, at)
      /\ m \in NetType /\ m.conn = n.conn /\ m.bad = n.bad
  BY <1>1, QueueSame DEF Resumed, SameRest
<1>4. e # 0 => e \in Descs /\ n.desc[e] = NoDesc
  <2>1. e # 0 => e \in Descs
    BY DEF AttemptType
  <2> QED BY <1>1, <2>1 DEF DescSound
<1>5. /\ \A q \in Players : m.attempt[q] = IF q = p THEN a ELSE n.attempt[q]
      /\ \A q \in Players : m.alarm[q] = IF q = p THEN r ELSE n.alarm[q]
      /\ \A i \in Descs : m.desc[i] = IF i = e THEN OpenDesc ELSE n.desc[i]
  BY <1>2, <1>4, DescsFacts DEF Resumed
<1>6. \A q \in Players : n.attempt[q].nd # 0 => n.attempt[q].nd # e /\ n.attempt[q].nd \in Descs
  <2>1. ASSUME NEW q \in Players, n.attempt[q].nd # 0
        PROVE  n.attempt[q].nd # e /\ n.attempt[q].nd \in Descs
    <3>1. n.attempt[q].nd \in Descs /\ n.desc[n.attempt[q].nd].status = "open"
      BY <1>1, <1>2, <2>1 DEF Held, AttemptType
    <3> QED BY <1>4, <3>1, EmptyRecords, DescsFacts
  <2> QED BY <2>1
<1> HIDE DEF e
<1>7. ASSUME NEW q \in Players PROVE ConnSound(m, q)
  <2>1. ConnSound(n, q)
    BY <1>1
  <2>2. m.conn[q] = n.conn[q] /\ m.attempt[q].gen = n.attempt[q].gen
    BY <1>3, <1>5
  <2>3. n.conn[q].connected => m.desc[n.conn[q].nd] = n.desc[n.conn[q].nd]
    <3>1. ASSUME n.conn[q].connected PROVE n.conn[q].nd \in Descs /\ n.conn[q].nd # e
      <4>1. n.conn[q].nd \in Descs /\ n.desc[n.conn[q].nd].onClose # <<>>
        BY <1>1, <2>1, <3>1, SocketKnows
      <4> QED BY <1>4, <4>1, EmptyRecords, DescsFacts
    <3> QED BY <1>5, <3>1
  <2> QED BY <2>1, <2>2, <2>3 DEF ConnSound
<1>8. ASSUME NEW q \in Players PROVE Held(m, q)
  <2>1. CASE q = p
    <3>1. ASSUME e # 0
          PROVE  /\ m.desc[e].status = "open" /\ m.desc[e].onClose = <<>>
                 /\ \A z \in Players : m.attempt[z].nd = e => z = p
      BY <1>4, <1>5, <1>6, <3>1, OpenDescFacts
    <3>2. m.attempt[p].nd = e
      BY <1>5 DEF e
    <3> QED BY <2>1, <3>1, <3>2 DEF Held
  <2>2. CASE q # p
    <3>1. m.attempt[q] = n.attempt[q] /\ Held(n, q)
      BY <1>1, <1>5, <2>2
    <3>2. ASSUME n.attempt[q].nd # 0
          PROVE  /\ m.desc[n.attempt[q].nd] = n.desc[n.attempt[q].nd]
                 /\ m.attempt[p].nd # n.attempt[q].nd
      BY <1>5, <1>6, <3>2 DEF e
    <3>3. \A z \in Players : z # p => m.attempt[z].nd = n.attempt[z].nd
      BY <1>5
    <3> QED BY <3>1, <3>2, <3>3 DEF Held
  <2> QED BY <2>1, <2>2
<1>9. ASSUME NEW q \in Players PROVE AttemptSound(m, q)
  <2>1. CASE q = p
    <3>1. m.attempt[q] = a /\ m.alarm[q] = r /\ a.gen # 0 /\ a.phase # "none"
      BY <1>5, <2>1 DEF Loose
    <3>2. \A g \in Gens : Resolve(p, g) \notin Pending(m)
      BY <1>3 DEF Loose
    <3> QED BY <2>1, <3>1, <3>2 DEF AttemptSound
  <2>2. CASE q # p
    BY <1>1, <1>3, <1>5, <2>2 DEF AttemptSound
  <2> QED BY <2>1, <2>2
<1>10. ASSUME NEW i \in Descs PROVE DescSound(m, i, {})
  <2>1. DescSound(n, i, {})
    BY <1>1
  <2>2. CASE i = e
    <3>1. m.desc[i] = OpenDesc /\ m.attempt[p].nd = i /\ n.desc[i] = NoDesc
      BY <1>4, <1>5, <2>2, DescsFacts DEF e
    <3> QED BY <1>3, <2>1, <3>1, OpenDescFacts, EmptyRecords DEF DescSound
  <2>3. CASE i # e
    <3>1. \A q \in Players : n.attempt[q].nd = i => m.attempt[q].nd = i
      BY <1>5, DescsFacts DEF Loose
    <3> QED BY <1>3, <1>5, <2>1, <2>3, <3>1 DEF DescSound
  <2> QED BY <2>2, <2>3
<1> QED BY <1>3, <1>7, <1>8, <1>9, <1>10 DEF Settled, Sound

LEMMA UnusedFacts ==
  ASSUME NEW n, NEW i \in Unused(n)
  PROVE  i \in Descs /\ i # 0 /\ n.desc[i].status = "gone"
  BY DescsFacts DEF Unused

LEMMA TryingSound ==
  ASSUME NEW n, NEW p \in Players, Loose(n, p), NEW i \in Unused(n),
         NEW left \in 0 .. MaxAddresses, NEW m, m = Trying(n, p, i, left)
  PROVE  Settled(n, m, p)
<1> DEFINE a == [n.attempt[p] EXCEPT !.phase = "connecting", !.nd = i, !.left = left]
           r == [kind |-> "timeout", gen |-> a.gen]
           x == [n EXCEPT !.desc[i] = OpenDesc, !.attempt[p] = a]
<1>1. /\ n.attempt \in [Players -> AttemptType] /\ n.alarm \in [Players -> AlarmType]
      /\ n.desc \in [Descs -> DescType] /\ i \in Descs /\ i # 0 /\ n.desc[i].status = "gone"
      /\ n \in NetType
  BY LooseFacts, NetFields, UnusedFacts
<1>2. a \in AttemptType /\ a.phase = "connecting" /\ a.nd = i /\ a.gen = n.attempt[p].gen
  BY <1>1 DEF AttemptType
<1>3. r \in AlarmType
  BY <1>2 DEF AlarmType, AttemptType
<1>4. /\ [n.desc EXCEPT ![i] = OpenDesc] \in [Descs -> DescType]
      /\ [n.attempt EXCEPT ![p] = a] \in [Players -> AttemptType]
      /\ [n.alarm EXCEPT ![p] = r] \in [Players -> AlarmType]
      /\ [n.attempt EXCEPT ![p] = a][p] = a
  BY <1>1, <1>2, <1>3, OpenDescFacts
<1>5. x.attempt[p] = a /\ x.alarm = n.alarm
  BY <1>1, <1>4 DEF NetType
<1>6. m = SetAlarm(x, p, "timeout")
  BY DEF Trying, NewDesc, OpenDesc
<1>7. m = [x EXCEPT !.alarm[p] = r]
  BY <1>5, <1>6 DEF SetAlarm, Loose
<1> HIDE DEF a, r
<1>8. m = [n EXCEPT !.desc = [n.desc EXCEPT ![i] = OpenDesc],
                    !.attempt = [n.attempt EXCEPT ![p] = a],
                    !.alarm = [n.alarm EXCEPT ![p] = r]]
  BY <1>1, <1>7 DEF NetType
<1>9. Resumed(n, m, p, a, r)
  BY <1>1, <1>2, <1>4, <1>8 DEF Resumed, SameRest, NetType
<1> QED BY <1>1, <1>2, <1>9, ResumedSound DEF r

LEMMA WaitingSound ==
  ASSUME NEW n, NEW p \in Players, Loose(n, p), NEW m, m = Waiting(n, p)
  PROVE  Settled(n, m, p)
<1> DEFINE a == [n.attempt[p] EXCEPT !.phase = "waiting", !.nd = 0, !.left = 0]
           r == [kind |-> "retry", gen |-> a.gen]
           x == [n EXCEPT !.attempt[p] = a]
<1>1. /\ n.attempt \in [Players -> AttemptType] /\ n.alarm \in [Players -> AlarmType]
      /\ n.desc \in [Descs -> DescType] /\ n \in NetType
  BY LooseFacts, NetFields
<1>2. a \in AttemptType /\ a.phase = "waiting" /\ a.nd = 0 /\ a.gen = n.attempt[p].gen
  <2>1. 0 \in 0 .. MaxAddresses
    BY ConnectionAssumption
  <2> QED BY <1>1, <2>1 DEF AttemptType
<1>3. r \in AlarmType
  BY <1>2 DEF AlarmType, AttemptType
<1>4. /\ [n.attempt EXCEPT ![p] = a] \in [Players -> AttemptType]
      /\ [n.alarm EXCEPT ![p] = r] \in [Players -> AlarmType]
      /\ [n.attempt EXCEPT ![p] = a][p] = a
  BY <1>1, <1>2, <1>3
<1>5. x.attempt[p] = a /\ x.alarm = n.alarm
  BY <1>1, <1>4 DEF NetType
<1>6. m = SetAlarm(x, p, "retry")
  BY DEF Waiting
<1>7. m = [x EXCEPT !.alarm[p] = r]
  BY <1>5, <1>6 DEF SetAlarm, Loose
<1> HIDE DEF a, r
<1>8. m = [n EXCEPT !.attempt = [n.attempt EXCEPT ![p] = a],
                    !.alarm = [n.alarm EXCEPT ![p] = r]]
  BY <1>1, <1>7 DEF NetType
<1>9. Resumed(n, m, p, a, r)
  BY <1>1, <1>2, <1>4, <1>8 DEF Resumed, SameRest, NetType
<1> QED BY <1>2, <1>9, ResumedSound DEF r

LEMMA ListeningSound ==
  ASSUME NEW n, NEW p \in Players, Loose(n, p), NEW i \in Unused(n),
         NEW m, m = Listening(n, p, i)
  PROVE  Settled(n, m, p)
<1> DEFINE a == [n.attempt[p] EXCEPT !.phase = "listening", !.nd = i]
<1>1. /\ n.attempt \in [Players -> AttemptType] /\ n.alarm \in [Players -> AlarmType]
      /\ n.desc \in [Descs -> DescType] /\ i \in Descs /\ i # 0 /\ n.desc[i].status = "gone"
      /\ n \in NetType
  BY LooseFacts, NetFields, UnusedFacts
<1>2. a \in AttemptType /\ a.phase = "listening" /\ a.nd = i /\ a.gen = n.attempt[p].gen
  BY <1>1 DEF AttemptType
<1>3. /\ [n.desc EXCEPT ![i] = OpenDesc] \in [Descs -> DescType]
      /\ [n.attempt EXCEPT ![p] = a] \in [Players -> AttemptType]
      /\ [n.alarm EXCEPT ![p] = NoAlarm] = n.alarm
  BY <1>1, <1>2, OpenDescFacts DEF Loose
<1> HIDE DEF a
<1>4. m = [n EXCEPT !.desc = [n.desc EXCEPT ![i] = OpenDesc],
                    !.attempt = [n.attempt EXCEPT ![p] = a]]
  BY <1>1 DEF Listening, NewDesc, OpenDesc, NetType, a
<1>5. Resumed(n, m, p, a, NoAlarm)
  BY <1>1, <1>2, <1>3, <1>4 DEF Resumed, SameRest, NetType
<1> QED BY <1>1, <1>2, <1>5, ResumedSound

LEMMA HostNextSound ==
  ASSUME NEW n, NEW p \in Players, Loose(n, p), NEW left \in 0 .. MaxAddresses,
         NEW m \in HostNext(n, p, left)
  PROVE  Settled(n, m, p)
<1>1. CASE \E i \in Unused(n), rest \in 0 .. left - 1 : m = Trying(n, p, i, rest)
  BY <1>1, TryingSound, ConnectionAssumption
<1>2. CASE m = Waiting(n, p)
  BY <1>2, WaitingSound
<1>3. CASE m = AttemptFails(n, p)
  BY <1>3, LooseFacts, AttemptFailsSound
<1> QED BY <1>1, <1>2, <1>3 DEF HostNext

LEMMA ResolvedSound ==
  ASSUME NEW n, NEW p \in Players, Loose(n, p), NEW m \in Resolved(n, p)
  PROVE  Settled(n, m, p)
<1>1. CASE m = AttemptFails(n, p)
  BY <1>1, LooseFacts, AttemptFailsSound
<1>2. CASE \E i \in Unused(n) : m = Listening(n, p, i)
  BY <1>2, ListeningSound
<1>3. CASE m \in HostNext(n, p, MaxAddresses)
  BY <1>3, HostNextSound, ConnectionAssumption
<1> QED BY <1>1, <1>2, <1>3 DEF Resolved

-----------------------------------------------------------------------------
(* A connection is made, lost, opened or closed.                           *)

(* The connection of p is made, with the socket nd.                        *)
Made(n, m, p, nd) ==
  m.conn = [n.conn EXCEPT ![p] = [n.conn[p] EXCEPT !.nd = nd, !.connected = TRUE]]

(* The socket nd, which nobody holds, becomes that of the connection.      *)
LEMMA ConnectedSound ==
  ASSUME NEW n, NEW p \in Players, NEW nd \in Descs, Around(n, p, {nd}), OwnEntry(n, p),
         n.attempt[p].gen # 0, NEW m, m = Connected(n, p, nd)
  PROVE  /\ Sound(m, {}) /\ m.bad = n.bad /\ \A at : Timely(n, at) => Timely(m, at)
         /\ Made(n, m, p, nd)
<1> DEFINE c == CloseAttempt(n, p)
           k == [n.conn[p] EXCEPT !.nd = nd, !.connected = TRUE]
           d == [c.desc[nd] EXCEPT !.onClose = <<p, n.conn[p].gen>>]
<1>1. /\ Sound(c, {nd}) /\ c.bad = n.bad /\ \A at : Timely(n, at) => Timely(c, at)
      /\ c.conn = n.conn /\ c.attempt = [n.attempt EXCEPT ![p] = NoAttempt]
  <2>1. {nd} \in SUBSET Descs
    OBVIOUS
  <2> QED BY <2>1, CloseAttemptSound
<1>2. /\ n.conn \in [Players -> ConnType] /\ n.attempt \in [Players -> AttemptType]
      /\ c.conn \in [Players -> ConnType] /\ c.attempt \in [Players -> AttemptType]
      /\ c.desc \in [Descs -> DescType] /\ c \in NetType
  BY <1>1, NetFields DEF Around, Sound
<1>3. /\ n.conn[p].nd = 0 /\ ~n.conn[p].connected /\ ~n.conn[p].disconnected
      /\ n.conn[p].gen \in Gens
  BY <1>2 DEF Around, ConnSound, AttemptType
<1>4. k \in ConnType /\ k.nd = nd /\ k.connected /\ ~k.disconnected /\ k.gen = n.conn[p].gen
  <2>1. n.conn[p] \in ConnType
    BY <1>2
  <2>2. k \in ConnType
    BY <2>1 DEF ConnType
  <2>3. k.nd = nd /\ k.connected = TRUE /\ k.disconnected = n.conn[p].disconnected
        /\ k.gen = n.conn[p].gen
    BY <2>1 DEF ConnType
  <2> QED BY <1>3, <2>2, <2>3
<1>5. /\ d \in DescType /\ d.status = "open" /\ d.onClose = <<p, n.conn[p].gen>>
      /\ c.desc[nd].status = "open" /\ c.desc[nd].onClose = <<>>
      /\ \A q \in Players : c.attempt[q].nd # nd
  <2>1. DescSound(c, nd, {nd})
    BY <1>1 DEF Sound
  <2>2. /\ c.desc[nd].status = "open" /\ c.desc[nd].onClose = <<>>
        /\ \A q \in Players : c.attempt[q].nd # nd
    BY <2>1 DEF DescSound
  <2> QED BY <1>2, <1>3, <2>2 DEF DescType
<1>6. m = [c EXCEPT !.conn[p] = [@ EXCEPT !.nd = nd, !.connected = TRUE],
                    !.desc[nd].onClose = <<p, c.conn[p].gen>>]
  BY <1>3 DEF Connected
<1> HIDE DEF c
<1>7. m = [c EXCEPT !.conn = [c.conn EXCEPT ![p] = k], !.desc = [c.desc EXCEPT ![nd] = d]]
  BY <1>1, <1>2, <1>6 DEF NetType
<1> HIDE DEF k, d
<1>8. /\ [c.conn EXCEPT ![p] = k] \in [Players -> ConnType]
      /\ [c.desc EXCEPT ![nd] = d] \in [Descs -> DescType]
  BY <1>2, <1>4, <1>5
<1>9. /\ m \in NetType /\ m.conn = [c.conn EXCEPT ![p] = k] /\ m.attempt = c.attempt
      /\ m.alarm = c.alarm /\ m.desc = [c.desc EXCEPT ![nd] = d] /\ m.bad = c.bad
      /\ m.callbacks = c.callbacks /\ m.todo = c.todo
  BY <1>2, <1>7, <1>8 DEF NetType
<1>10. /\ Queue(m) /\ Pending(m) = Pending(c) /\ \A at : Timely(c, at) => Timely(m, at)
  BY <1>1, <1>9, QueueSame DEF Sound
<1>11. /\ \A q \in Players : m.conn[q] = IF q = p THEN k ELSE c.conn[q]
       /\ \A i \in Descs : m.desc[i] = IF i = nd THEN d ELSE c.desc[i]
  BY <1>2, <1>9
<1>12. ASSUME NEW q \in Players PROVE ConnSound(m, q)
  <2>1. ConnSound(c, q)
    BY <1>1 DEF Sound
  <2>2. CASE q = p
    <3>1. m.conn[q] = k /\ m.attempt[q].gen = 0 /\ m.desc[nd] = d
      BY <1>1, <1>2, <1>9, <1>11, <2>2, EmptyRecords
    <3> QED BY <1>3, <1>4, <1>5, <2>2, <3>1, DescsFacts DEF ConnSound
  <2>3. CASE q # p
    <3>1. m.conn[q] = c.conn[q] /\ m.attempt[q] = c.attempt[q]
      BY <1>9, <1>11, <2>3
    <3>2. ASSUME c.conn[q].connected PROVE m.desc[c.conn[q].nd] = c.desc[c.conn[q].nd]
      <4>1. c.conn[q].nd \in Descs /\ c.desc[c.conn[q].nd].onClose # <<>>
        BY <1>2, <2>1, <3>2, SocketKnows
      <4> QED BY <1>5, <1>11, <4>1
    <3> QED BY <2>1, <3>1, <3>2 DEF ConnSound
  <2> QED BY <2>2, <2>3
<1>13. ASSUME NEW q \in Players PROVE Held(m, q) /\ AttemptSound(m, q)
  <2>1. Held(c, q) /\ AttemptSound(c, q) /\ c.attempt[q].nd # nd
    BY <1>1, <1>5 DEF Sound
  <2>2. c.attempt[q].nd # 0 => m.desc[c.attempt[q].nd] = c.desc[c.attempt[q].nd]
    BY <1>2, <1>11, <2>1 DEF AttemptType
  <2>3. AttemptSound(m, q)
    BY <1>9, <1>10, <2>1 DEF AttemptSound
  <2> QED BY <1>9, <2>1, <2>2, <2>3 DEF Held
<1>14. ASSUME NEW i \in Descs PROVE DescSound(m, i, {})
  <2>1. DescSound(c, i, {nd})
    BY <1>1 DEF Sound
  <2>2. CASE i = nd
    <3>1. m.desc[i] = d /\ m.conn[p].nd = i /\ d.onClose[1] = p /\ d.onClose # <<>>
      BY <1>3, <1>4, <1>5, <1>11, <2>2, Names
    <3> QED BY <1>5, <1>10, <2>1, <2>2, <3>1 DEF DescSound
  <2>3. CASE i # nd
    <3>1. m.desc[i] = c.desc[i]
      BY <1>11, <2>3
    <3>2. ASSUME c.desc[i].onClose # <<>> PROVE m.conn[c.desc[i].onClose[1]].nd = i
      <4>1. PICK q \in Players, g \in Gens : c.desc[i].onClose = <<q, g>>
        BY <1>2, <3>2 DEF DescType
      <4>2. c.conn[q].nd = i
        BY <2>1, <3>2, <4>1 DEF DescSound
      <4>3. q # p
        BY <1>1, <1>3, <4>2, DescsFacts
      <4> QED BY <1>11, <4>1, <4>2, <4>3
    <3> QED BY <1>9, <1>10, <2>1, <2>3, <3>1, <3>2 DEF DescSound
  <2> QED BY <2>2, <2>3
<1> QED BY <1>1, <1>9, <1>10, <1>12, <1>13, <1>14 DEF Sound, Made, k

(* The connection of p is parted from its socket e, which is gone then.    *)
LEMMA PartedSound ==
  ASSUME NEW n \in NetType, NEW p \in Players, NEW e \in Descs, n.conn[p].nd = e, Queue(n),
         \A q \in Players : ConnSound(n, q) /\ Held(n, q) /\ AttemptSound(n, q),
         \A i \in Descs \ {e} : DescSound(n, i, {}), Close(e) \notin Pending(n),
         NEW k \in ConnType, k.nd = 0, ~k.connected, k.gen = 0 => k = NoConn,
         NEW m, SameRest([n EXCEPT !.conn = m.conn], m),
         m.conn = [n.conn EXCEPT ![p] = k], m.desc = [n.desc EXCEPT ![e] = NoDesc],
         m.attempt = n.attempt, m.alarm = n.alarm
  PROVE  Sound(m, {}) /\ m.bad = n.bad /\ \A at : Timely(n, at) => Timely(m, at)
<1>1. /\ n.conn \in [Players -> ConnType] /\ n.attempt \in [Players -> AttemptType]
      /\ n.desc \in [Descs -> DescType]
  BY NetFields
<1>2. m \in NetType /\ m.bad = n.bad /\ m.callbacks = n.callbacks /\ m.todo = n.todo
  BY DEF SameRest, NetType
<1>3. Queue(m) /\ Pending(m) = Pending(n) /\ \A at : Timely(n, at) => Timely(m, at)
  BY <1>2, QueueSame
<1>4. /\ \A q \in Players : m.conn[q] = IF q = p THEN k ELSE n.conn[q]
      /\ \A i \in Descs : m.desc[i] = IF i = e THEN NoDesc ELSE n.desc[i]
  BY <1>1
<1>5. /\ n.conn[p].connected /\ n.attempt[p].gen = 0
      /\ n.desc[e].onClose = <<p, n.conn[p].gen>> /\ n.conn[p].gen \in Gens
  BY <1>1, DescsFacts, EmptyRecords DEF ConnSound, ConnType
<1>6. ASSUME NEW q \in Players, n.conn[q].connected
      PROVE  /\ n.conn[q].nd \in Descs /\ n.conn[q].gen \in Gens
             /\ n.desc[n.conn[q].nd].onClose = <<q, n.conn[q].gen>>
             /\ n.conn[q].nd = e => q = p
  <2>1. /\ n.conn[q].nd \in Descs /\ n.conn[q].gen \in Gens
        /\ n.desc[n.conn[q].nd].onClose = <<q, n.conn[q].gen>>
    BY <1>1, <1>6, EmptyRecords DEF ConnSound, ConnType
  <2> QED BY <1>5, <2>1
<1>7. ASSUME NEW q \in Players PROVE ConnSound(m, q)
  <2>1. ConnSound(n, q)
    OBVIOUS
  <2>2. CASE q = p
    <3>1. m.conn[q] = k /\ m.attempt[q].gen = 0
      BY <1>4, <1>5, <2>2
    <3> QED BY <3>1 DEF ConnSound
  <2>3. CASE q # p
    <3>1. /\ m.conn[q] = n.conn[q] /\ m.attempt[q] = n.attempt[q]
          /\ n.conn[q].connected => m.desc[n.conn[q].nd] = n.desc[n.conn[q].nd]
      BY <1>4, <1>6, <2>3
    <3> QED BY <2>1, <3>1 DEF ConnSound
  <2> QED BY <2>2, <2>3
<1>8. ASSUME NEW q \in Players PROVE Held(m, q) /\ AttemptSound(m, q)
  <2>1. Held(n, q) /\ AttemptSound(n, q)
    OBVIOUS
  <2>2. n.attempt[q].nd # 0 => m.desc[n.attempt[q].nd] = n.desc[n.attempt[q].nd]
    <3>1. n.attempt[q].nd # 0 =>
            n.attempt[q].nd \in Descs /\ n.desc[n.attempt[q].nd].onClose = <<>>
      BY <1>1, <2>1 DEF AttemptType, Held
    <3>2. n.desc[e].onClose # <<>>
      BY <1>5, Names
    <3> QED BY <1>4, <3>1, <3>2
  <2>3. AttemptSound(m, q)
    BY <1>3, <2>1 DEF AttemptSound
  <2> QED BY <2>1, <2>2, <2>3 DEF Held
<1>9. ASSUME NEW i \in Descs PROVE DescSound(m, i, {})
  <2>1. CASE i = e
    <3>1. m.desc[i] = NoDesc
      BY <1>4, <2>1
    <3> QED BY <1>3, <2>1, <3>1, EmptyRecords DEF DescSound
  <2>2. CASE i # e
    <3>1. DescSound(n, i, {}) /\ m.desc[i] = n.desc[i]
      BY <1>4, <2>2
    <3>2. ASSUME n.desc[i].onClose # <<>> PROVE m.conn[n.desc[i].onClose[1]].nd = i
      <4>1. PICK q \in Players, g \in Gens : n.desc[i].onClose = <<q, g>>
        BY <1>1, <3>2 DEF DescType
      <4>2. n.conn[q].nd = i /\ q # p
        BY <2>2, <3>1, <3>2, <4>1 DEF DescSound
      <4> QED BY <1>4, <4>1, <4>2
    <3> QED BY <1>3, <3>1, <3>2 DEF DescSound
  <2> QED BY <2>1, <2>2
<1> QED BY <1>2, <1>3, <1>7, <1>8, <1>9 DEF Sound

LEMMA CloseConnectionSound ==
  ASSUME NEW n, NEW p \in Players, Sound(n, {}),
         n.conn[p].connected => Open(n, n.conn[p].nd),
         NEW m, m = CloseConnection(n, p)
  PROVE  /\ Sound(m, {}) /\ m.bad = n.bad /\ \A at : Timely(n, at) => Timely(m, at)
         /\ m.conn = [n.conn EXCEPT ![p] = NoConn]
<1> DEFINE e == n.conn[p].nd
<1>1. /\ n \in NetType /\ n.conn \in [Players -> ConnType] /\ n.desc \in [Descs -> DescType]
      /\ n.attempt \in [Players -> AttemptType]
      /\ ConnSound(n, p) /\ AttemptSound(n, p) /\ Queue(n)
      /\ \A q \in Players : ConnSound(n, q) /\ Held(n, q) /\ AttemptSound(n, q)
      /\ \A i \in Descs : DescSound(n, i, {})
  BY NetFields DEF Sound
<1>2. CASE e = 0
  <2> DEFINE c == IF n.attempt[p].gen # 0 THEN CloseAttempt(n, p) ELSE n
  <2>1. m = [c EXCEPT !.conn[p] = NoConn]
    BY <1>2 DEF CloseConnection
  <2>2. /\ Sound(c, {}) /\ c.bad = n.bad /\ \A at : Timely(n, at) => Timely(c, at)
        /\ c.conn = n.conn /\ c.attempt[p] = NoAttempt
    <3>1. CASE n.attempt[p].gen # 0
      <4>1. Around(n, p, {}) /\ OwnEntry(n, p)
        BY <1>1 DEF Around, OwnEntry, AttemptSound
      <4>2. c = CloseAttempt(n, p) /\ {} \in SUBSET Descs
        BY <3>1
      <4> HIDE DEF c
      <4>3. /\ Sound(c, {}) /\ c.bad = n.bad /\ \A at : Timely(n, at) => Timely(c, at)
            /\ c.conn = n.conn /\ c.attempt = [n.attempt EXCEPT ![p] = NoAttempt]
        BY <4>1, <4>2, CloseAttemptSound
      <4> QED BY <1>1, <4>3
    <3>2. CASE n.attempt[p].gen = 0
      BY <1>1, <3>2 DEF AttemptSound
    <3> QED BY <3>1, <3>2
  <2>3. ~c.conn[p].connected
    BY <1>1, <1>2, <2>2 DEF ConnSound
  <2> HIDE DEF c
  <2>4. /\ Sound(m, {}) /\ m.bad = c.bad /\ \A at : Timely(c, at) => Timely(m, at)
        /\ m.conn = [c.conn EXCEPT ![p] = NoConn]
    BY <2>1, <2>2, <2>3, DropConn
  <2> QED BY <2>2, <2>4
<1>3. CASE e # 0
  <2>1. e \in Descs /\ n.conn[p].connected /\ n.attempt[p].gen = 0 /\ n.desc[e].status = "open"
    BY <1>1, <1>3 DEF ConnSound, ConnType, Open
  <2> DEFINE a == [n EXCEPT !.desc[e].onClose = <<>>]
             d == [n.desc[e] EXCEPT !.onClose = <<>>]
  <2>2. d \in DescType /\ d.status = "open" /\ d.onClose = <<>>
    BY <1>1, <2>1 DEF DescType
  <2>3. /\ a \in NetType /\ a.conn = n.conn /\ a.attempt = n.attempt /\ a.server = n.server
        /\ a.alarm = n.alarm /\ a.bad = n.bad /\ a.callbacks = n.callbacks
        /\ a.todo = n.todo /\ a.desc = [n.desc EXCEPT ![e] = d]
    <3>1. a = [n EXCEPT !.desc = [n.desc EXCEPT ![e] = d]]
      BY <1>1
    <3>2. [n.desc EXCEPT ![e] = d] \in [Descs -> DescType]
      BY <1>1, <2>2
    <3> QED BY <1>1, <3>1, <3>2 DEF NetType
  <2>4. a.desc[e] = d
    BY <1>1, <2>1, <2>3
  <2> DEFINE c == CloseDesc(a, e)
  <2>5. m = [c EXCEPT !.conn[p] = NoConn]
    <3>1. CloseDesc(a, e).attempt[p].gen = 0
      <4> HIDE DEF a, d
      <4> QED BY <2>1, <2>2, <2>3, <2>4, CloseDescEffect
    <3> QED BY <1>3, <3>1 DEF CloseConnection
  <2> HIDE DEF a, d
  <2>6. /\ SameRest(a, c) /\ c.attempt = n.attempt /\ c.alarm = n.alarm
        /\ c.desc = [a.desc EXCEPT ![e] = NoDesc]
    <3>1. a.desc[e].status = "open" /\ a.desc[e].onClose = <<>>
      BY <2>2, <2>4
    <3>2. /\ SameRest(a, c) /\ c.attempt = a.attempt /\ c.alarm = a.alarm
          /\ c.desc = [a.desc EXCEPT ![e] = NoDesc]
      <4>1. a \in NetType /\ e \in Descs
        BY <2>1, <2>3
      <4>2. c = CloseDesc(a, e)
        OBVIOUS
      <4> HIDE DEF c, e
      <4> QED BY <3>1, <4>1, <4>2, CloseDescEffect
    <3> QED BY <2>3, <3>2
  <2> HIDE DEF c
  <2>7. c.desc = [n.desc EXCEPT ![e] = NoDesc]
    BY <1>1, <2>1, <2>3, <2>6
  <2>8. [n.conn EXCEPT ![p] = NoConn] \in [Players -> ConnType]
    BY <1>1, EmptyRecords
  <2>9. /\ m \in NetType /\ m.conn = [n.conn EXCEPT ![p] = NoConn] /\ m.attempt = n.attempt
        /\ m.server = n.server /\ m.alarm = n.alarm /\ m.bad = n.bad
        /\ m.callbacks = n.callbacks /\ m.todo = n.todo
        /\ m.desc = [n.desc EXCEPT ![e] = NoDesc]
    <3>1. /\ c \in NetType /\ c.conn = n.conn /\ c.server = n.server /\ c.bad = n.bad
          /\ c.callbacks = n.callbacks /\ c.todo = n.todo
      BY <2>3, <2>6 DEF SameRest
    <3>2. m = [c EXCEPT !.conn = [n.conn EXCEPT ![p] = NoConn]]
      BY <2>5, <3>1
    <3> QED BY <2>6, <2>7, <2>8, <3>1, <3>2 DEF NetType
  <2>10. SameRest([n EXCEPT !.conn = m.conn], m)
    BY <1>1, <2>9 DEF SameRest, NetType
  <2>11. Close(e) \notin Pending(n)
    BY <1>1, <2>1 DEF DescSound
  <2> HIDE DEF e
  <2> QED BY <1>1, <2>1, <2>9, <2>10, <2>11, EmptyRecords, PartedSound, SMTT(30) DEF e
<1> QED BY <1>2, <1>3

NewConn(gen) == [NoConn EXCEPT !.gen = gen]

(* All is sound, and of the connections that of p is now k.                *)
Turned(n, m, p, k) ==
  /\ Sound(m, {}) /\ m.bad = n.bad /\ \A at : Timely(n, at) => Timely(m, at)
  /\ m.conn = [n.conn EXCEPT ![p] = k]

LEMMA OpenConnectionSound ==
  ASSUME NEW n, NEW p \in Players, NEW gen \in Gens, NEW server \in BOOLEAN, Sound(n, {}),
         n.conn[p] = NoConn, NEW m, m = OpenConnection(n, p, gen, server)
  PROVE  Turned(n, m, p, NewConn(gen))
<1> DEFINE k == [NoConn EXCEPT !.gen = gen]
           a == [NoAttempt EXCEPT !.gen = gen, !.phase = "resolving"]
           s == Append(n.callbacks, Resolve(p, gen))
<1>1. /\ n \in NetType /\ n.conn \in [Players -> ConnType] /\ n.desc \in [Descs -> DescType]
      /\ n.attempt \in [Players -> AttemptType] /\ n.server \in [Players -> BOOLEAN]
      /\ n.callbacks \in Seq(Callbacks) /\ n.todo \in Nat
      /\ ConnSound(n, p) /\ AttemptSound(n, p) /\ Queue(n)
      /\ \A q \in Players : ConnSound(n, q) /\ Held(n, q) /\ AttemptSound(n, q)
      /\ \A i \in Descs : DescSound(n, i, {})
  BY NetFields DEF Sound
<1>2. /\ k \in ConnType /\ k.gen = gen /\ k.nd = 0 /\ ~k.connected /\ ~k.disconnected
      /\ k.gen # 0
  BY DescsFacts DEF NoConn, ConnType
<1>3. /\ a \in AttemptType /\ a.gen = gen /\ a.nd = 0 /\ a.phase = "resolving"
  <2>1. 0 \in 0 .. MaxAddresses
    BY ConnectionAssumption
  <2> QED BY <2>1 DEF NoAttempt, AttemptType
<1>4. n.attempt[p] = NoAttempt /\ n.alarm[p] = NoAlarm
      /\ \A g \in Gens : Resolve(p, g) \notin Pending(n)
  <2>1. n.attempt[p].gen = 0
    BY <1>1, EmptyRecords DEF ConnSound
  <2>2. n.attempt[p] = NoAttempt
    BY <1>1, <2>1 DEF AttemptSound
  <2> QED BY <1>1, <2>2, EmptyRecords DEF AttemptSound
<1> HIDE DEF k, a
<1>5. m = [n EXCEPT !.conn = [n.conn EXCEPT ![p] = k],
                    !.attempt = [n.attempt EXCEPT ![p] = a],
                    !.server = [n.server EXCEPT ![p] = server], !.callbacks = s]
  BY DEF OpenConnection, Resolve, k, a
<1>6. /\ [n.conn EXCEPT ![p] = k] \in [Players -> ConnType]
      /\ [n.attempt EXCEPT ![p] = a] \in [Players -> AttemptType]
      /\ [n.server EXCEPT ![p] = server] \in [Players -> BOOLEAN]
      /\ s \in Seq(Callbacks)
  <2>1. Resolve(p, gen) \in Callbacks
    BY Names
  <2> QED BY <1>1, <1>2, <1>3, <2>1
<1> HIDE DEF s
<1>7. /\ m \in NetType /\ m.conn = [n.conn EXCEPT ![p] = k] /\ m.callbacks = s
      /\ m.attempt = [n.attempt EXCEPT ![p] = a] /\ m.alarm = n.alarm
      /\ m.desc = n.desc /\ m.bad = n.bad /\ m.todo = n.todo
  BY <1>1, <1>5, <1>6 DEF NetType
<1>8. /\ Queue(m) /\ Pending(m) = Pending(n) \cup {Resolve(p, gen)}
      /\ \A at : Timely(n, at) => Timely(m, at)
  <2>1. /\ Resolve(p, gen) \in Callbacks /\ Resolve(p, gen).kind # "close"
        /\ Resolve(p, gen) \notin Pending(n)
    BY <1>4, Names
  <2>2. m.callbacks = Append(n.callbacks, Resolve(p, gen))
    BY <1>7 DEF s
  <2>3. m.todo = n.todo /\ Queue(n) /\ n.callbacks \in Seq(Callbacks) /\ n.todo \in Nat
    BY <1>1, <1>7
  <2> HIDE DEF s
  <2> QED BY <2>1, <2>2, <2>3, QueueAppend
<1>9. /\ \A q \in Players : m.conn[q] = IF q = p THEN k ELSE n.conn[q]
      /\ \A q \in Players : m.attempt[q] = IF q = p THEN a ELSE n.attempt[q]
  BY <1>1, <1>7
<1>10. ASSUME NEW q \in Players PROVE ConnSound(m, q) /\ Held(m, q) /\ AttemptSound(m, q)
  <2>1. ConnSound(n, q) /\ Held(n, q) /\ AttemptSound(n, q)
    BY <1>1
  <2>2. CASE q = p
    <3>1. m.conn[q] = k /\ m.attempt[q] = a /\ m.alarm[q] = NoAlarm
      BY <1>4, <1>7, <1>9, <2>2
    <3>2. ConnSound(m, q)
      BY <1>2, <1>3, <3>1 DEF ConnSound
    <3>3. Held(m, q)
      BY <1>3, <3>1 DEF Held
    <3>4. \A g \in Gens : Resolve(q, g) \in Pending(m) <=> g = gen
      BY <1>4, <1>8, <2>2, Names
    <3>5. AttemptSound(m, q)
      BY <1>2, <1>3, <3>1, <3>4 DEF AttemptSound
    <3> QED BY <3>2, <3>3, <3>5
  <2>3. CASE q # p
    <3>1. /\ m.conn[q] = n.conn[q] /\ m.attempt[q] = n.attempt[q]
          /\ m.alarm[q] = n.alarm[q] /\ m.desc = n.desc
      BY <1>7, <1>9, <2>3
    <3>2. ConnSound(m, q)
      BY <2>1, <3>1 DEF ConnSound
    <3>3. \A z \in Players : m.attempt[z].nd = n.attempt[z].nd
      BY <1>3, <1>4, <1>9, EmptyRecords
    <3>4. Held(m, q)
      BY <2>1, <3>1, <3>3 DEF Held
    <3>5. \A g \in Gens : Resolve(q, g) \in Pending(m) <=> Resolve(q, g) \in Pending(n)
      BY <1>8, <2>3, Names
    <3>6. AttemptSound(m, q)
      BY <2>1, <3>1, <3>5 DEF AttemptSound
    <3> QED BY <3>2, <3>4, <3>6
  <2> QED BY <2>2, <2>3
<1>11. ASSUME NEW i \in Descs PROVE DescSound(m, i, {})
  <2>1. DescSound(n, i, {})
    BY <1>1
  <2>2. Close(i) \in Pending(m) <=> Close(i) \in Pending(n)
    BY <1>8, CloseNames
  <2>3. \A z \in Players : m.attempt[z].nd = n.attempt[z].nd
    BY <1>3, <1>4, <1>9, EmptyRecords
  <2>4. ASSUME n.desc[i].onClose # <<>> PROVE m.conn[n.desc[i].onClose[1]].nd = i
    <3>1. PICK q \in Players, g \in Gens : n.desc[i].onClose = <<q, g>>
      BY <1>1, <2>4 DEF DescType
    <3>2. n.conn[q].nd = i
      BY <2>1, <2>4, <3>1 DEF DescSound
    <3>3. q # p
      BY <3>2, EmptyRecords, DescsFacts
    <3> QED BY <1>9, <3>1, <3>2, <3>3
  <2> QED BY <1>7, <2>1, <2>2, <2>3, <2>4 DEF DescSound
<1> QED BY <1>7, <1>8, <1>10, <1>11 DEF Sound, Turned, NewConn, k

(* The socket e of a connection is closed; its callback is still to come.  *)
ClosesLater(n, m) ==
  /\ Sound(m, {}) /\ m.bad = n.bad /\ m.conn = n.conn
  /\ Timely(n, "select") => Timely(m, "select")

LEMMA CloseLaterSound ==
  ASSUME NEW n, NEW p \in Players, Sound(n, {}), Open(n, n.conn[p].nd),
         NEW m, m = CloseDesc(n, n.conn[p].nd)
  PROVE  ClosesLater(n, m)
<1> DEFINE e == n.conn[p].nd
           d == [n.desc[e] EXCEPT !.status = "closing"]
           s == Append(n.callbacks, Close(e))
<1>1. /\ n \in NetType /\ n.conn \in [Players -> ConnType] /\ n.desc \in [Descs -> DescType]
      /\ n.attempt \in [Players -> AttemptType]
      /\ n.callbacks \in Seq(Callbacks) /\ n.todo \in Nat /\ Queue(n)
      /\ \A q \in Players : ConnSound(n, q) /\ Held(n, q) /\ AttemptSound(n, q)
      /\ \A i \in Descs : DescSound(n, i, {})
  BY NetFields DEF Sound
<1>2. /\ e \in Descs /\ n.desc[e].status = "open" /\ n.conn[p].connected
      /\ n.desc[e].onClose = <<p, n.conn[p].gen>> /\ n.conn[p].gen \in Gens
  BY <1>1, EmptyRecords DEF Open, ConnType, ConnSound
<1>3. d \in DescType /\ d.status = "closing" /\ d.onClose = n.desc[e].onClose /\ d.onClose # <<>>
  <2>1. n.desc[e] \in DescType /\ n.desc[e].onClose # <<>>
    BY <1>1, <1>2, Names
  <2> HIDE DEF e
  <2> QED BY <2>1 DEF DescType
<1>4. Close(e) \in Callbacks /\ Close(e) \notin Pending(n)
  BY <1>1, <1>2, CloseNames DEF DescSound
<1>5. m = [n EXCEPT !.desc[e].status = "closing", !.callbacks = Append(@, Close(e))]
  BY <1>2, <1>3 DEF CloseDesc, Close
<1>6. m = [n EXCEPT !.desc = [n.desc EXCEPT ![e] = d], !.callbacks = s]
  BY <1>1, <1>2, <1>5
<1>7. [n.desc EXCEPT ![e] = d] \in [Descs -> DescType] /\ s \in Seq(Callbacks)
  <2>1. d \in DescType /\ Close(e) \in Callbacks /\ n.callbacks \in Seq(Callbacks)
    BY <1>1, <1>3, <1>4
  <2>2. n.desc \in [Descs -> DescType]
    BY <1>1
  <2>3. s \in Seq(Callbacks)
    BY <2>1
  <2> HIDE DEF e, d, s
  <2> QED BY <2>1, <2>2, <2>3
<1> HIDE DEF s, d
<1>8. /\ m \in NetType /\ m.conn = n.conn /\ m.attempt = n.attempt /\ m.alarm = n.alarm
      /\ m.desc = [n.desc EXCEPT ![e] = d] /\ m.bad = n.bad
      /\ m.callbacks = s /\ m.todo = n.todo
  BY <1>1, <1>6, <1>7 DEF NetType
<1>9. /\ Queue(m) /\ Pending(m) = Pending(n) \cup {Close(e)}
      /\ Timely(n, "select") => Timely(m, "select")
  <2>1. m.callbacks = Append(n.callbacks, Close(e))
    BY <1>8 DEF s
  <2>2. /\ Close(e) \in Callbacks /\ Close(e) \notin Pending(n) /\ Queue(n)
        /\ n.callbacks \in Seq(Callbacks) /\ n.todo \in Nat /\ m.todo = n.todo
    BY <1>1, <1>4, <1>8
  <2> HIDE DEF e
  <2>3. /\ Queue(m) /\ Pending(m) = Pending(n) \cup {Close(e)}
        /\ Timely(m, "select") <=> Timely(n, "select")
    BY <2>1, <2>2, QueueAppend, SMTT(30)
  <2> QED BY <2>3
<1>10. \A i \in Descs : m.desc[i] = IF i = e THEN d ELSE n.desc[i]
  BY <1>1, <1>2, <1>8
<1> HIDE DEF e
<1>11. ASSUME NEW i \in Descs PROVE m.desc[i].onClose = n.desc[i].onClose
  BY <1>3, <1>10
<1>12. ASSUME NEW q \in Players PROVE ConnSound(m, q) /\ Held(m, q) /\ AttemptSound(m, q)
  <2>1. ConnSound(n, q) /\ Held(n, q) /\ AttemptSound(n, q)
    BY <1>1
  <2>2. n.conn[q].connected => n.conn[q].nd \in Descs
    BY <1>1, <2>1 DEF ConnSound, ConnType
  <2>3. ConnSound(m, q)
    BY <1>8, <1>11, <2>1, <2>2 DEF ConnSound
  <2>4. n.attempt[q].nd # 0 => m.desc[n.attempt[q].nd] = n.desc[n.attempt[q].nd]
    <3>1. n.attempt[q].nd # 0 =>
            n.attempt[q].nd \in Descs /\ n.desc[n.attempt[q].nd].onClose = <<>>
      BY <1>1, <2>1 DEF AttemptType, Held
    <3> QED BY <1>3, <1>10, <3>1
  <2>5. Held(m, q)
    BY <1>8, <2>1, <2>4 DEF Held
  <2>6. \A g \in Gens : Resolve(q, g) \in Pending(m) <=> Resolve(q, g) \in Pending(n)
    BY <1>2, <1>9, CloseNames
  <2>7. AttemptSound(m, q)
    BY <1>8, <2>1, <2>6 DEF AttemptSound
  <2> QED BY <2>3, <2>5, <2>7
<1>13. ASSUME NEW i \in Descs PROVE DescSound(m, i, {})
  <2>1. DescSound(n, i, {})
    BY <1>1
  <2>2. CASE i = e
    <3>1. m.desc[i] = d /\ Close(i) \in Pending(m)
      BY <1>9, <1>10, <2>2
    <3> QED BY <1>3, <1>8, <2>1, <2>2, <3>1 DEF DescSound
  <2>3. CASE i # e
    <3>1. m.desc[i] = n.desc[i] /\ (Close(i) \in Pending(m) <=> Close(i) \in Pending(n))
      BY <1>2, <1>9, <1>10, <2>3, CloseNames
    <3> QED BY <1>8, <2>1, <3>1 DEF DescSound
  <2> QED BY <2>2, <2>3
<1> QED BY <1>8, <1>9, <1>12, <1>13 DEF Sound, ClosesLater

-----------------------------------------------------------------------------
(* What the main loop calls.                                               *)

(* Where a connection is as it was, or changed as a connection may change. *)
StatusOf(c) ==
  IF c = NoConn THEN "none"
  ELSE IF c.connected THEN "connected"
  ELSE IF c.disconnected THEN "lost" ELSE "connecting"

Lives(n, m) ==
  \A p \in Players :
    \/ StatusOf(m.conn[p]) = StatusOf(n.conn[p])
    \/ \E c \in Changes : StatusOf(n.conn[p]) = c[1] /\ StatusOf(m.conn[p]) = c[2]

(* Of the connections at most that of p changed, and as it may.            *)
LEMMA OneChange ==
  ASSUME NEW n, NEW m, NEW p \in Players, NEW k, n.conn \in [Players -> ConnType],
         m.conn = [n.conn EXCEPT ![p] = k],
         \/ StatusOf(k) = StatusOf(n.conn[p])
         \/ <<StatusOf(n.conn[p]), StatusOf(k)>> \in Changes
  PROVE  Lives(n, m)
<1>1. ASSUME NEW q \in Players
      PROVE  \/ StatusOf(m.conn[q]) = StatusOf(n.conn[q])
             \/ \E c \in Changes : StatusOf(n.conn[q]) = c[1] /\ StatusOf(m.conn[q]) = c[2]
  <2>1. CASE q # p
    <3>1. m.conn[q] = n.conn[q]
      BY <2>1
    <3> QED BY <3>1
  <2>2. CASE q = p
    <3>1. m.conn[q] = k
      BY <2>2
    <3> HIDE DEF Changes
    <3>2. CASE <<StatusOf(n.conn[p]), StatusOf(k)>> \in Changes
      <4> DEFINE c == <<StatusOf(n.conn[p]), StatusOf(k)>>
      <4>1. c[1] = StatusOf(n.conn[p]) /\ c[2] = StatusOf(k) /\ c \in Changes
        BY <3>2
      <4> HIDE DEF c
      <4> QED BY <2>2, <3>1, <4>1
    <3> QED BY <2>2, <3>1, <3>2
  <2> QED BY <2>1, <2>2
<1> QED BY <1>1 DEF Lives

LEMMA NoChange ==
  ASSUME NEW n, NEW m, m.conn = n.conn
  PROVE  Lives(n, m)
  BY DEF Lives

LEMMA ClosedLives ==
  ASSUME NEW n, NEW m, NEW p \in Players, n.conn \in [Players -> ConnType],
         m.conn = [n.conn EXCEPT ![p] = NoConn]
  PROVE  Lives(n, m)
<1>1. StatusOf(NoConn) = "none"
  BY DEF StatusOf
<1>2. StatusOf(n.conn[p]) \in {"none", "connected", "lost", "connecting"}
  BY DEF StatusOf
<1>3. \/ StatusOf(NoConn) = StatusOf(n.conn[p])
      \/ <<StatusOf(n.conn[p]), StatusOf(NoConn)>> \in Changes
  BY <1>1, <1>2 DEF Changes
<1> QED BY <1>3, OneChange

LEMMA SettledLives ==
  ASSUME NEW n, NEW m, NEW p \in Players, n.conn \in [Players -> ConnType], Settled(n, m, p)
  PROVE  Lives(n, m)
  BY NoChange, ClosedLives DEF Settled

(* The attempt of p gives up its alarm and its socket.                     *)
Detached(n, p) == [n EXCEPT !.alarm[p] = NoAlarm, !.attempt[p].nd = 0]

LEMMA DetachedFields ==
  ASSUME NEW n \in NetType, NEW p \in Players, NEW m, m = Detached(n, p)
  PROVE  /\ SameRest(n, m) /\ m.desc = n.desc
         /\ m.alarm = [n.alarm EXCEPT ![p] = NoAlarm]
         /\ m.attempt = [n.attempt EXCEPT ![p] = [n.attempt[p] EXCEPT !.nd = 0]]
         /\ m.attempt[p] \in AttemptType
         /\ m.attempt[p].nd = 0 /\ m.attempt[p].gen = n.attempt[p].gen
         /\ m.attempt[p].phase = n.attempt[p].phase /\ m.attempt[p].left = n.attempt[p].left
<1> DEFINE a == [n.attempt[p] EXCEPT !.nd = 0]
<1>1. n.attempt \in [Players -> AttemptType] /\ n.alarm \in [Players -> AlarmType]
  BY NetFields
<1>2. /\ a \in AttemptType /\ a.nd = 0 /\ a.gen = n.attempt[p].gen
      /\ a.phase = n.attempt[p].phase /\ a.left = n.attempt[p].left
  <2>1. n.attempt[p] \in AttemptType
    BY <1>1
  <2> QED BY <2>1 DEF AttemptType
<1>3. /\ [n.attempt EXCEPT ![p] = a] \in [Players -> AttemptType]
      /\ [n.alarm EXCEPT ![p] = NoAlarm] \in [Players -> AlarmType]
      /\ [n.attempt EXCEPT ![p] = a][p] = a
  BY <1>1, <1>2, EmptyRecords
<1>4. m = [n EXCEPT !.alarm = [n.alarm EXCEPT ![p] = NoAlarm],
                    !.attempt = [n.attempt EXCEPT ![p] = a]]
  BY <1>1 DEF Detached
<1> HIDE DEF a
<1>5. /\ SameRest(n, m) /\ m.desc = n.desc /\ m.alarm = [n.alarm EXCEPT ![p] = NoAlarm]
      /\ m.attempt = [n.attempt EXCEPT ![p] = a] /\ m.attempt[p] = a
  BY <1>3, <1>4 DEF SameRest, NetType
<1> QED BY <1>2, <1>5 DEF a

(* Nothing carries the attempt of p on but the sockets of S.               *)
Adrift(n, p, S) ==
  /\ Around(n, p, S)
  /\ n.attempt[p].gen # 0 /\ n.attempt[p].nd = 0 /\ n.alarm[p] = NoAlarm
  /\ \A g \in Gens : Resolve(p, g) \notin Pending(n)

LEMMA DetachedSound ==
  ASSUME NEW n, NEW p \in Players, Sound(n, {}), n.attempt[p].nd # 0,
         NEW m, m = Detached(n, p)
  PROVE  /\ Adrift(m, p, {n.attempt[p].nd}) /\ n.attempt[p].nd \in Descs
         /\ m.conn = n.conn /\ m.bad = n.bad /\ \A at : Timely(n, at) => Timely(m, at)
<1> DEFINE e == n.attempt[p].nd
<1>1. /\ n \in NetType /\ n.conn \in [Players -> ConnType] /\ n.desc \in [Descs -> DescType]
      /\ n.attempt \in [Players -> AttemptType] /\ n.alarm \in [Players -> AlarmType]
      /\ Queue(n)
      /\ \A q \in Players : ConnSound(n, q) /\ Held(n, q) /\ AttemptSound(n, q)
      /\ \A i \in Descs : DescSound(n, i, {})
  BY NetFields DEF Sound
<1>2. /\ m \in NetType /\ m.conn = n.conn /\ m.bad = n.bad /\ m.desc = n.desc
      /\ m.callbacks = n.callbacks /\ m.todo = n.todo
      /\ m.alarm = [n.alarm EXCEPT ![p] = NoAlarm]
      /\ m.attempt = [n.attempt EXCEPT ![p] = [n.attempt[p] EXCEPT !.nd = 0]]
      /\ m.attempt[p].nd = 0 /\ m.attempt[p].gen = n.attempt[p].gen
  BY <1>1, DetachedFields DEF SameRest
<1>3. Queue(m) /\ Pending(m) = Pending(n) /\ \A at : Timely(n, at) => Timely(m, at)
  BY <1>1, <1>2, QueueSame
<1>4. \A q \in Players : /\ q # p => m.attempt[q] = n.attempt[q] /\ m.alarm[q] = n.alarm[q]
                         /\ m.attempt[q].gen = n.attempt[q].gen
  BY <1>1, <1>2
<1>5. m.alarm[p] = NoAlarm
  BY <1>1, <1>2
<1>6. /\ e \in Descs /\ n.desc[e].status = "open" /\ n.desc[e].onClose = <<>>
      /\ \A q \in Players : n.attempt[q].nd = e => q = p
  BY <1>1 DEF Held, AttemptType
<1>7. n.attempt[p].gen # 0 /\ \A g \in Gens : Resolve(p, g) \notin Pending(n)
  <2>1. AttemptSound(n, p)
    BY <1>1
  <2>2. n.attempt[p].phase \in {"connecting", "listening"}
    BY <2>1 DEF AttemptSound
  <2>3. n.attempt[p].gen # 0
    BY <2>1, <2>2 DEF AttemptSound
  <2> QED BY <2>1, <2>2, <2>3 DEF AttemptSound
<1> HIDE DEF e
<1>8. ASSUME NEW q \in Players PROVE ConnSound(m, q) /\ Held(m, q)
  <2>1. ConnSound(n, q) /\ Held(n, q)
    BY <1>1
  <2>2. ConnSound(m, q)
    BY <1>2, <1>4, <2>1 DEF ConnSound
  <2>3. \A z \in Players : m.attempt[z].nd = n.attempt[z].nd \/ z = p
    BY <1>4
  <2>4. Held(m, q)
    BY <1>2, <1>4, <2>1, <2>3 DEF Held
  <2> QED BY <2>2, <2>4
<1>9. ASSUME NEW q \in Players \ {p} PROVE AttemptSound(m, q)
  <2>1. AttemptSound(n, q) /\ m.attempt[q] = n.attempt[q] /\ m.alarm[q] = n.alarm[q]
    BY <1>1, <1>4
  <2> QED BY <1>3, <2>1 DEF AttemptSound
<1>10. ASSUME NEW i \in Descs PROVE DescSound(m, i, {e})
  <2>1. DescSound(n, i, {})
    BY <1>1
  <2>2. CASE i = e
    <3>1. \A q \in Players : m.attempt[q].nd # e
      BY <1>2, <1>4, <1>6, DescsFacts
    <3> QED BY <1>2, <1>3, <1>6, <2>1, <2>2, <3>1 DEF DescSound
  <2>3. CASE i # e
    <3>1. \A q \in Players : n.attempt[q].nd = i => m.attempt[q].nd = i
      BY <1>4, <2>3 DEF e
    <3> QED BY <1>2, <1>3, <2>1, <2>3, <3>1 DEF DescSound
  <2> QED BY <2>2, <2>3
<1>11. Around(m, p, {e})
  BY <1>2, <1>3, <1>8, <1>9, <1>10 DEF Around
<1> QED BY <1>2, <1>3, <1>5, <1>6, <1>7, <1>11 DEF Adrift, e

(* The socket that nobody holds is closed.                                 *)
LEMMA LetGo ==
  ASSUME NEW n, NEW p \in Players, NEW e \in Descs, Adrift(n, p, {e}),
         NEW m, m = CloseDesc(n, e)
  PROVE  /\ Loose(m, p) /\ m.attempt = n.attempt
         /\ m.conn = n.conn /\ m.bad = n.bad /\ \A at : Timely(n, at) => Timely(m, at)
<1>1. /\ n \in NetType /\ n.conn \in [Players -> ConnType] /\ n.desc \in [Descs -> DescType]
      /\ n.attempt \in [Players -> AttemptType] /\ Queue(n)
      /\ \A q \in Players : ConnSound(n, q) /\ Held(n, q)
      /\ \A q \in Players \ {p} : AttemptSound(n, q)
      /\ \A i \in Descs : DescSound(n, i, {e})
  BY NetFields DEF Adrift, Around
<1>2. /\ n.desc[e].status = "open" /\ n.desc[e].onClose = <<>>
      /\ \A q \in Players : n.attempt[q].nd # e
  BY <1>1 DEF DescSound
<1>3. /\ m \in NetType /\ m.conn = n.conn /\ m.bad = n.bad
      /\ m.callbacks = n.callbacks /\ m.todo = n.todo
      /\ m.attempt = n.attempt /\ m.alarm = n.alarm
      /\ m.desc = [n.desc EXCEPT ![e] = NoDesc]
  BY <1>1, <1>2, CloseDescEffect DEF SameRest
<1>4. Queue(m) /\ Pending(m) = Pending(n) /\ \A at : Timely(n, at) => Timely(m, at)
  BY <1>1, <1>3, QueueSame
<1>5. \A i \in Descs : m.desc[i] = IF i = e THEN NoDesc ELSE n.desc[i]
  BY <1>1, <1>3
<1>6. ASSUME NEW q \in Players PROVE ConnSound(m, q) /\ Held(m, q)
  <2>1. ConnSound(n, q) /\ Held(n, q)
    BY <1>1
  <2>2. n.conn[q].connected => m.desc[n.conn[q].nd] = n.desc[n.conn[q].nd]
    <3>1. ASSUME n.conn[q].connected PROVE n.conn[q].nd \in Descs /\ n.conn[q].nd # e
      <4>1. n.conn[q].nd \in Descs /\ n.desc[n.conn[q].nd].onClose # <<>>
        BY <1>1, <2>1, <3>1, SocketKnows
      <4> QED BY <1>2, <4>1
    <3> QED BY <1>5, <3>1
  <2>3. ConnSound(m, q)
    BY <1>3, <2>1, <2>2 DEF ConnSound
  <2>4. n.attempt[q].nd # 0 => m.desc[n.attempt[q].nd] = n.desc[n.attempt[q].nd]
    BY <1>1, <1>2, <1>5 DEF AttemptType
  <2>5. Held(m, q)
    BY <1>3, <2>1, <2>4 DEF Held
  <2> QED BY <2>3, <2>5
<1>7. ASSUME NEW q \in Players \ {p} PROVE AttemptSound(m, q)
  BY <1>1, <1>3, <1>4 DEF AttemptSound
<1>8. ASSUME NEW i \in Descs PROVE DescSound(m, i, {})
  <2>1. DescSound(n, i, {e})
    BY <1>1
  <2>2. CASE i = e
    <3>1. m.desc[i] = NoDesc
      BY <1>5, <2>2
    <3> QED BY <1>2, <1>4, <2>1, <2>2, <3>1, EmptyRecords DEF DescSound
  <2>3. CASE i # e
    <3>1. m.desc[i] = n.desc[i]
      BY <1>5, <2>3
    <3> QED BY <1>3, <1>4, <2>1, <2>3, <3>1 DEF DescSound
  <2> QED BY <2>2, <2>3
<1>9. Around(m, p, {})
  BY <1>3, <1>4, <1>6, <1>7, <1>8 DEF Around
<1> QED BY <1>3, <1>4, <1>9 DEF Loose, Adrift

LEMMA ConnectedLives ==
  ASSUME NEW n, NEW m, NEW p \in Players, n.conn \in [Players -> ConnType], NEW nd \in Descs,
         ConnSound(n, p), n.attempt[p].gen # 0, n.attempt[p].gen \in Gens,
         Made(n, m, p, nd)
  PROVE  Lives(n, m)
<1> DEFINE k == [n.conn[p] EXCEPT !.nd = nd, !.connected = TRUE]
<1>1. n.conn[p] \in ConnType /\ n.conn[p].gen # 0
      /\ ~n.conn[p].connected /\ ~n.conn[p].disconnected
  BY DEF ConnSound
<1>2. StatusOf(n.conn[p]) = "connecting"
  BY <1>1, EmptyRecords DEF StatusOf
<1>3. k.connected = TRUE
  BY <1>1 DEF ConnType
<1>4. m.conn = [n.conn EXCEPT ![p] = k]
  BY DEF Made
<1> HIDE DEF k
<1>5. StatusOf(k) = "connected"
  <2>1. k # NoConn
    BY <1>3, EmptyRecords
  <2> QED BY <1>3, <2>1 DEF StatusOf
<1>6. <<StatusOf(n.conn[p]), StatusOf(k)>> \in Changes
  BY <1>2, <1>5 DEF Changes
<1> QED BY <1>4, <1>6, OneChange

LEMMA AttemptGens ==
  ASSUME NEW n \in NetType, NEW p \in Players, n.attempt[p].gen # 0
  PROVE  n.attempt[p].gen \in Gens /\ n.attempt[p].left \in 0 .. MaxAddresses
  BY NetFields DEF AttemptType

(* A function on p's attempt leaves all sound, and the connections lead    *)
(* their lives.                                                            *)
Kept(n, m) ==
  /\ Sound(m, {}) /\ m.bad = n.bad /\ \A at : Timely(n, at) => Timely(m, at)
  /\ Lives(n, m)

LEMMA SettledKept ==
  ASSUME NEW n, NEW c, NEW m, NEW p \in Players, n.conn \in [Players -> ConnType],
         c.conn = n.conn, c.bad = n.bad, \A at : Timely(n, at) => Timely(c, at),
         Settled(c, m, p)
  PROVE  Kept(n, m)
<1>1. Lives(c, m)
  BY SettledLives
<1>2. Lives(n, m)
  BY <1>1 DEF Lives
<1> QED BY <1>2 DEF Kept, Settled

LEMMA WritableKept ==
  ASSUME NEW n, NEW p \in Players, Sound(n, {}), n.attempt[p].phase = "connecting",
         NEW m \in Writable(n, p)
  PROVE  Kept(n, m)
<1> DEFINE e == n.attempt[p].nd
           c == Detached(n, p)
           d == CloseDesc(c, e)
<1>1. /\ n \in NetType /\ n.conn \in [Players -> ConnType] /\ ConnSound(n, p)
      /\ e # 0 /\ n.attempt[p].gen # 0
  BY NetFields DEF Sound, AttemptSound
<1>2. /\ Adrift(c, p, {e}) /\ e \in Descs /\ c.conn = n.conn /\ c.bad = n.bad
      /\ \A at : Timely(n, at) => Timely(c, at)
  BY <1>1, DetachedSound
<1>3. m = Connected(c, p, e) \/ m \in HostNext(d, p, n.attempt[p].left)
  BY DEF Writable, Detached
<1>4. n.attempt[p].gen \in Gens /\ n.attempt[p].left \in 0 .. MaxAddresses
  BY <1>1, AttemptGens
<1> HIDE DEF c, e, d
<1>5. CASE m = Connected(c, p, e)
  <2>1. Around(c, p, {e}) /\ OwnEntry(c, p) /\ c.attempt[p].gen # 0
    BY <1>2 DEF Adrift, OwnEntry
  <2>2. /\ Sound(m, {}) /\ m.bad = c.bad /\ \A at : Timely(c, at) => Timely(m, at)
        /\ Made(c, m, p, e)
    BY <1>2, <1>5, <2>1, ConnectedSound
  <2>3. Lives(n, m)
    <3>1. Made(n, m, p, e)
      BY <1>2, <2>2 DEF Made
    <3> QED BY <1>1, <1>2, <1>4, <3>1, ConnectedLives
  <2> QED BY <1>2, <2>2, <2>3 DEF Kept
<1>6. CASE m \in HostNext(d, p, n.attempt[p].left)
  <2>1. /\ Loose(d, p) /\ d.conn = n.conn /\ d.bad = n.bad
        /\ \A at : Timely(n, at) => Timely(d, at)
    BY <1>2, LetGo DEF d
  <2>2. Settled(d, m, p)
    BY <1>4, <1>6, <2>1, HostNextSound
  <2> QED BY <1>1, <2>1, <2>2, SettledKept
<1> QED BY <1>3, <1>5, <1>6

LEMMA AcceptableKept ==
  ASSUME NEW n, NEW p \in Players, Sound(n, {}), n.attempt[p].phase = "listening",
         NEW m \in Acceptable(n, p)
  PROVE  Kept(n, m)
<1>1. /\ n \in NetType /\ n.conn \in [Players -> ConnType] /\ n.desc \in [Descs -> DescType]
      /\ n.attempt \in [Players -> AttemptType] /\ Queue(n)
      /\ \A q \in Players : ConnSound(n, q) /\ Held(n, q) /\ AttemptSound(n, q)
      /\ \A i \in Descs : DescSound(n, i, {})
      /\ n.attempt[p].gen # 0
  BY NetFields DEF Sound, AttemptSound
<1>2. n.attempt[p].gen \in Gens
  BY <1>1, AttemptGens
<1>3. CASE m = n
  BY <1>3, NoChange DEF Kept
<1>4. ASSUME NEW i \in Unused(n), m = Connected(NewDesc(n, i), p, i) PROVE Kept(n, m)
  <2> DEFINE c == NewDesc(n, i)
  <2>1. i \in Descs /\ n.desc[i].status = "gone" /\ n.desc[i] = NoDesc
    BY <1>1, UnusedFacts DEF DescSound
  <2>2. /\ c \in NetType /\ c.conn = n.conn /\ c.bad = n.bad /\ c.callbacks = n.callbacks
        /\ c.todo = n.todo /\ c.attempt = n.attempt /\ c.alarm = n.alarm
        /\ c.desc = [n.desc EXCEPT ![i] = OpenDesc]
    <3>1. [n.desc EXCEPT ![i] = OpenDesc] \in [Descs -> DescType]
      BY <1>1, OpenDescFacts
    <3>2. c = [n EXCEPT !.desc = [n.desc EXCEPT ![i] = OpenDesc]]
      BY DEF NewDesc, OpenDesc
    <3> QED BY <1>1, <3>1, <3>2 DEF NetType
  <2> HIDE DEF c
  <2>3. Queue(c) /\ Pending(c) = Pending(n) /\ \A at : Timely(n, at) => Timely(c, at)
    BY <1>1, <2>2, QueueSame
  <2>4. \A j \in Descs : c.desc[j] = IF j = i THEN OpenDesc ELSE n.desc[j]
    BY <1>1, <2>2
  <2>5. ASSUME NEW q \in Players PROVE ConnSound(c, q) /\ Held(c, q) /\ n.attempt[q].nd # i
    <3>1. ConnSound(n, q) /\ Held(n, q)
      BY <1>1
    <3>2. n.conn[q].connected => c.desc[n.conn[q].nd] = n.desc[n.conn[q].nd]
      <4>1. n.conn[q].connected =>
              n.conn[q].nd \in Descs /\ n.desc[n.conn[q].nd].onClose # <<>>
        BY <1>1, SocketKnows
      <4> QED BY <2>1, <2>4, <4>1, EmptyRecords
    <3>3. ConnSound(c, q)
      BY <2>2, <3>1, <3>2 DEF ConnSound
    <3>4. n.attempt[q].nd # 0 =>
            n.attempt[q].nd \in Descs /\ n.desc[n.attempt[q].nd].status = "open"
      BY <1>1, <3>1 DEF AttemptType, Held
    <3>5. n.attempt[q].nd # i
      BY <2>1, <3>4, DescsFacts
    <3>6. n.attempt[q].nd # 0 => c.desc[n.attempt[q].nd] = n.desc[n.attempt[q].nd]
      BY <2>4, <3>4, <3>5
    <3>7. Held(c, q)
      BY <2>2, <3>1, <3>6 DEF Held
    <3> QED BY <3>3, <3>5, <3>7
  <2>6. ASSUME NEW q \in Players PROVE AttemptSound(c, q)
    <3>1. AttemptSound(n, q)
      BY <1>1
    <3> QED BY <2>2, <2>3, <3>1 DEF AttemptSound
  <2>7. ASSUME NEW j \in Descs PROVE DescSound(c, j, {i})
    <3>1. DescSound(n, j, {})
      BY <1>1
    <3>2. CASE j = i
      <4>1. c.desc[j] = OpenDesc /\ \A q \in Players : c.attempt[q].nd # j
        BY <2>2, <2>4, <2>5, <3>2
      <4> QED BY <2>1, <2>3, <3>1, <3>2, <4>1, OpenDescFacts DEF DescSound
    <3>3. CASE j # i
      <4>1. c.desc[j] = n.desc[j]
        BY <2>4, <3>3
      <4> QED BY <2>2, <2>3, <3>1, <3>3, <4>1 DEF DescSound
    <3> QED BY <3>2, <3>3
  <2>8. Around(c, p, {i}) /\ OwnEntry(c, p) /\ c.attempt[p].gen # 0
    BY <1>1, <2>2, <2>3, <2>5, <2>6, <2>7 DEF Around, OwnEntry, AttemptSound
  <2>9. m = Connected(c, p, i)
    BY <1>4 DEF c
  <2>10. /\ Sound(m, {}) /\ m.bad = c.bad /\ \A at : Timely(c, at) => Timely(m, at)
         /\ Made(c, m, p, i)
    BY <2>1, <2>8, <2>9, ConnectedSound
  <2>11. Lives(n, m)
    <3>1. Made(n, m, p, i)
      BY <2>2, <2>10 DEF Made
    <3> QED BY <1>1, <1>2, <2>1, <3>1, ConnectedLives
  <2> QED BY <2>2, <2>3, <2>10, <2>11 DEF Kept
<1> QED BY <1>3, <1>4 DEF Acceptable

LEMMA AlarmDueKept ==
  ASSUME NEW n, NEW p \in Players, Sound(n, {}), n.alarm[p] # NoAlarm, NEW m \in AlarmDue(n, p)
  PROVE  Kept(n, m)
<1> DEFINE c == [n EXCEPT !.alarm[p] = NoAlarm]
           e == n.attempt[p].nd
<1>1. /\ n \in NetType /\ n.conn \in [Players -> ConnType] /\ n.desc \in [Descs -> DescType]
      /\ n.attempt \in [Players -> AttemptType] /\ n.alarm \in [Players -> AlarmType]
      /\ Queue(n) /\ AttemptSound(n, p)
      /\ \A q \in Players : ConnSound(n, q) /\ Held(n, q) /\ AttemptSound(n, q)
      /\ \A i \in Descs : DescSound(n, i, {})
  BY NetFields DEF Sound
<1>2. /\ n.attempt[p].phase \in {"connecting", "waiting"}
      /\ n.alarm[p].gen = n.attempt[p].gen /\ n.attempt[p].gen # 0
      /\ n.alarm[p].kind = "timeout" <=> n.attempt[p].phase = "connecting"
      /\ e # 0 <=> n.attempt[p].phase = "connecting"
      /\ \A g \in Gens : Resolve(p, g) \notin Pending(n)
  <2>1. n.attempt[p].phase \in {"connecting", "waiting"}
    BY <1>1 DEF AttemptSound
  <2>2. n.alarm[p] = IF n.attempt[p].phase = "connecting"
                     THEN [kind |-> "timeout", gen |-> n.attempt[p].gen]
                     ELSE [kind |-> "retry", gen |-> n.attempt[p].gen]
    BY <1>1, <2>1 DEF AttemptSound
  <2>3. /\ n.alarm[p].gen = n.attempt[p].gen
        /\ n.alarm[p].kind = "timeout" <=> n.attempt[p].phase = "connecting"
    BY <2>2
  <2>4. n.attempt[p].gen # 0
    BY <1>1, <2>1 DEF AttemptSound
  <2>5. e # 0 <=> n.attempt[p].phase = "connecting"
    BY <1>1, <2>1 DEF AttemptSound
  <2>6. \A g \in Gens : Resolve(p, g) \notin Pending(n)
    BY <1>1, <2>1 DEF AttemptSound
  <2> QED BY <2>1, <2>3, <2>4, <2>5, <2>6
<1>3. n.attempt[p].left \in 0 .. MaxAddresses /\ n.attempt[p].gen \in Gens
  BY <1>1, <1>2, AttemptGens
<1>4. /\ c \in NetType /\ c.alarm = [n.alarm EXCEPT ![p] = NoAlarm] /\ c.conn = n.conn
      /\ c.attempt = n.attempt /\ c.server = n.server /\ c.desc = n.desc /\ c.bad = n.bad
      /\ c.callbacks = n.callbacks /\ c.todo = n.todo
  <2>1. [n.alarm EXCEPT ![p] = NoAlarm] \in [Players -> AlarmType]
    BY <1>1, EmptyRecords
  <2>2. c = [n EXCEPT !.alarm = [n.alarm EXCEPT ![p] = NoAlarm]]
    OBVIOUS
  <2> QED BY <1>1, <2>1, <2>2 DEF NetType
<1>5. m \in IF n.attempt[p].phase = "connecting"
            THEN HostNext([CloseDesc(c, e) EXCEPT !.attempt[p].nd = 0], p, n.attempt[p].left)
            ELSE HostNext(c, p, MaxAddresses)
  <2>1. c.attempt[p] = n.attempt[p]
    BY <1>4
  <2> HIDE DEF c
  <2> QED BY <1>2, <2>1 DEF AlarmDue, c
<1> HIDE DEF c, e
<1>6. CASE n.attempt[p].phase = "connecting"
  <2> DEFINE d == Detached(n, p)
             x == CloseDesc(d, e)
             y == [CloseDesc(c, e) EXCEPT !.attempt[p].nd = 0]
  <2>1. /\ Adrift(d, p, {e}) /\ e \in Descs /\ d.conn = n.conn /\ d.bad = n.bad
        /\ \A at : Timely(n, at) => Timely(d, at)
    BY <1>2, <1>6, DetachedSound DEF e
  <2>2. /\ SameRest(n, d) /\ d.desc = n.desc /\ d.alarm = [n.alarm EXCEPT ![p] = NoAlarm]
        /\ d.attempt = [n.attempt EXCEPT ![p] = [n.attempt[p] EXCEPT !.nd = 0]]
    BY <1>1, DetachedFields
  <2>3. /\ Loose(x, p) /\ x.conn = n.conn /\ x.bad = n.bad
        /\ \A at : Timely(n, at) => Timely(x, at)
    <3> HIDE DEF d
    <3> QED BY <2>1, LetGo
  <2>4. n.desc[e].status = "open" /\ n.desc[e].onClose = <<>>
    BY <1>1, <1>2, <1>6 DEF Held, e
  <2>5. /\ SameRest(c, CloseDesc(c, e)) /\ CloseDesc(c, e).attempt = n.attempt
        /\ CloseDesc(c, e).alarm = [n.alarm EXCEPT ![p] = NoAlarm]
        /\ CloseDesc(c, e).desc = [n.desc EXCEPT ![e] = NoDesc]
    BY <1>4, <2>1, <2>4, CloseDescEffect
  <2>6. /\ SameRest(d, x) /\ x.attempt = d.attempt /\ x.alarm = d.alarm
        /\ x.desc = [n.desc EXCEPT ![e] = NoDesc]
    <3>1. d \in NetType /\ d.desc = n.desc
      BY <2>2 DEF SameRest
    <3> HIDE DEF d
    <3> QED BY <2>1, <2>4, <3>1, CloseDescEffect
  <2>7. y = x
    <3> DEFINE z == CloseDesc(c, e)
               a == [n.attempt EXCEPT ![p] = [n.attempt[p] EXCEPT !.nd = 0]]
    <3>1. /\ z \in NetType /\ z.conn = n.conn /\ z.server = n.server /\ z.bad = n.bad
          /\ z.callbacks = n.callbacks /\ z.todo = n.todo
      BY <1>4, <2>5 DEF SameRest
    <3>2. /\ x \in NetType /\ x.conn = n.conn /\ x.server = n.server /\ x.bad = n.bad
          /\ x.callbacks = n.callbacks /\ x.todo = n.todo /\ x.attempt = a
          /\ x.alarm = [n.alarm EXCEPT ![p] = NoAlarm]
      BY <2>2, <2>6 DEF SameRest
    <3>3. y = [z EXCEPT !.attempt = a]
      BY <2>5
    <3> HIDE DEF x, y, z, a
    <3>4. y = [conn |-> z.conn, attempt |-> a, server |-> z.server, alarm |-> z.alarm,
               desc |-> z.desc, callbacks |-> z.callbacks, todo |-> z.todo, bad |-> z.bad]
      BY <3>1, <3>3 DEF NetType
    <3>5. x = [conn |-> x.conn, attempt |-> x.attempt, server |-> x.server, alarm |-> x.alarm,
               desc |-> x.desc, callbacks |-> x.callbacks, todo |-> x.todo, bad |-> x.bad]
      BY <3>2 DEF NetType
    <3> QED BY <2>5, <2>6, <3>1, <3>2, <3>4, <3>5 DEF z
  <2>8. m \in HostNext(x, p, n.attempt[p].left)
    BY <1>5, <1>6, <2>7
  <2> HIDE DEF x
  <2>9. Settled(x, m, p)
    BY <1>3, <2>3, <2>8, HostNextSound
  <2> QED BY <1>1, <2>3, <2>9, SettledKept
<1>7. CASE n.attempt[p].phase = "waiting"
  <2>1. Queue(c) /\ Pending(c) = Pending(n) /\ \A at : Timely(n, at) => Timely(c, at)
    BY <1>1, <1>4, QueueSame
  <2>2. /\ c.alarm[p] = NoAlarm /\ \A q \in Players \ {p} : c.alarm[q] = n.alarm[q]
    BY <1>1, <1>4
  <2>3. ASSUME NEW q \in Players PROVE ConnSound(c, q) /\ Held(c, q)
    <3>1. ConnSound(n, q) /\ Held(n, q)
      BY <1>1
    <3> QED BY <1>4, <3>1 DEF ConnSound, Held
  <2>4. ASSUME NEW q \in Players \ {p} PROVE AttemptSound(c, q)
    <3>1. AttemptSound(n, q)
      BY <1>1
    <3> QED BY <1>4, <2>1, <2>2, <3>1 DEF AttemptSound
  <2>5. ASSUME NEW i \in Descs PROVE DescSound(c, i, {})
    <3>1. DescSound(n, i, {})
      BY <1>1
    <3> QED BY <1>4, <2>1, <3>1 DEF DescSound
  <2>6. Loose(c, p)
    BY <1>2, <1>4, <1>7, <2>1, <2>2, <2>3, <2>4, <2>5 DEF Loose, Around, e
  <2>7. Settled(c, m, p)
    <3>1. m \in HostNext(c, p, MaxAddresses) /\ MaxAddresses \in 0 .. MaxAddresses
      BY <1>5, <1>7, ConnectionAssumption
    <3> QED BY <2>6, <3>1, HostNextSound
  <2> QED BY <1>1, <1>4, <2>1, <2>7, SettledKept
<1> QED BY <1>2, <1>6, <1>7

(* The first callback is taken from the list.                              *)
Popped(n) == [n EXCEPT !.callbacks = Tail(@), !.todo = @ - 1]

LEMMA PoppedFields ==
  ASSUME NEW n \in NetType, Queue(n), n.todo > 0, NEW m, m = Popped(n)
  PROVE  /\ m \in NetType /\ Queue(m)
         /\ Head(n.callbacks) \in Callbacks /\ Head(n.callbacks) \in Pending(n)
         /\ Pending(m) = Pending(n) \ {Head(n.callbacks)}
         /\ \A at : Timely(n, at) => Timely(m, at)
         /\ m.conn = n.conn /\ m.attempt = n.attempt /\ m.server = n.server
         /\ m.alarm = n.alarm /\ m.desc = n.desc /\ m.bad = n.bad
<1>1. n.callbacks \in Seq(Callbacks) /\ n.todo \in Nat
  BY NetFields
<1>2. /\ m.callbacks = Tail(n.callbacks) /\ m.todo = n.todo - 1
      /\ m.conn = n.conn /\ m.attempt = n.attempt /\ m.server = n.server
      /\ m.alarm = n.alarm /\ m.desc = n.desc /\ m.bad = n.bad
  BY DEF Popped, NetType
<1>3. /\ Head(n.callbacks) \in Callbacks /\ Head(n.callbacks) \in Pending(n)
      /\ m.callbacks \in Seq(Callbacks) /\ m.todo \in Nat
      /\ Queue(m) /\ Pending(m) = Pending(n) \ {Head(n.callbacks)}
      /\ \A at : Timely(n, at) => Timely(m, at)
  BY <1>1, <1>2, QueueTail
<1>4. m \in NetType
  BY <1>2, <1>3 DEF Popped, NetType
<1> QED BY <1>2, <1>3, <1>4

LEMMA ResolvedKept ==
  ASSUME NEW n, Sound(n, {}), n.todo > 0, NEW p \in Players, NEW g \in Gens,
         Head(n.callbacks) = Resolve(p, g)
  PROVE  /\ n.attempt[p].gen = g
         /\ \A m \in Resolved(Popped(n), p) : Kept(n, m)
<1> DEFINE c == Popped(n)
<1>1. /\ n \in NetType /\ n.conn \in [Players -> ConnType] /\ Queue(n)
      /\ \A q \in Players : ConnSound(n, q) /\ Held(n, q) /\ AttemptSound(n, q)
      /\ \A i \in Descs : DescSound(n, i, {})
  BY NetFields DEF Sound
<1>2. /\ c \in NetType /\ Queue(c) /\ Resolve(p, g) \in Pending(n)
      /\ Pending(c) = Pending(n) \ {Resolve(p, g)}
      /\ \A at : Timely(n, at) => Timely(c, at)
      /\ c.conn = n.conn /\ c.attempt = n.attempt /\ c.server = n.server
      /\ c.alarm = n.alarm /\ c.desc = n.desc /\ c.bad = n.bad
  BY <1>1, PoppedFields
<1> HIDE DEF c
<1>3. /\ n.attempt[p].phase = "resolving" /\ n.attempt[p].gen = g /\ g # 0
      /\ n.attempt[p].nd = 0 /\ n.alarm[p] = NoAlarm
      /\ \A h \in Gens : Resolve(p, h) \in Pending(n) => h = g
  <2>1. AttemptSound(n, p)
    BY <1>1
  <2>2. n.attempt[p].phase = "resolving" /\ n.attempt[p].gen = g
    BY <1>2, <2>1 DEF AttemptSound
  <2> QED BY <2>1, <2>2, DescsFacts DEF AttemptSound
<1>4. ASSUME NEW q \in Players PROVE ConnSound(c, q) /\ Held(c, q)
  <2>1. ConnSound(n, q) /\ Held(n, q)
    BY <1>1
  <2> QED BY <1>2, <2>1 DEF ConnSound, Held
<1>5. ASSUME NEW q \in Players \ {p} PROVE AttemptSound(c, q)
  <2>1. AttemptSound(n, q)
    BY <1>1
  <2>2. \A h \in Gens : Resolve(q, h) \in Pending(c) <=> Resolve(q, h) \in Pending(n)
    BY <1>2, Names
  <2> QED BY <1>2, <2>1, <2>2 DEF AttemptSound
<1>6. ASSUME NEW i \in Descs PROVE DescSound(c, i, {})
  <2>1. DescSound(n, i, {})
    BY <1>1
  <2>2. Close(i) \in Pending(c) <=> Close(i) \in Pending(n)
    BY <1>2, CloseNames
  <2> QED BY <1>2, <2>1, <2>2 DEF DescSound
<1>7. \A h \in Gens : Resolve(p, h) \notin Pending(c)
  BY <1>2, <1>3
<1>8. Loose(c, p)
  BY <1>2, <1>3, <1>4, <1>5, <1>6, <1>7 DEF Loose, Around
<1>9. ASSUME NEW m \in Resolved(c, p) PROVE Kept(n, m)
  <2>1. Settled(c, m, p)
    BY <1>8, <1>9, ResolvedSound
  <2> QED BY <1>1, <1>2, <2>1, SettledKept
<1> QED BY <1>3, <1>9 DEF c

LEMMA DescClosedKept ==
  ASSUME NEW n, Sound(n, {}), n.todo > 0, NEW i \in Descs, Head(n.callbacks) = Close(i),
         NEW m, m = DescClosed(Popped(n), i)
  PROVE  Kept(n, m)
<1> DEFINE c == Popped(n)
<1>1. /\ n \in NetType /\ n.conn \in [Players -> ConnType] /\ n.desc \in [Descs -> DescType]
      /\ Queue(n)
      /\ \A q \in Players : ConnSound(n, q) /\ Held(n, q) /\ AttemptSound(n, q)
      /\ \A j \in Descs : DescSound(n, j, {})
  BY NetFields DEF Sound
<1>2. /\ c \in NetType /\ Queue(c) /\ Close(i) \in Pending(n)
      /\ Pending(c) = Pending(n) \ {Close(i)}
      /\ \A at : Timely(n, at) => Timely(c, at)
      /\ c.conn = n.conn /\ c.attempt = n.attempt /\ c.server = n.server
      /\ c.alarm = n.alarm /\ c.desc = n.desc /\ c.bad = n.bad
  BY <1>1, PoppedFields
<1>3. n.desc[i].onClose # <<>> /\ n.conn[n.desc[i].onClose[1]].nd = i
  BY <1>1, <1>2 DEF DescSound
<1>4. PICK p \in Players, g \in Gens : n.desc[i].onClose = <<p, g>>
  BY <1>1, <1>3 DEF DescType
<1>5. n.conn[p].nd = i /\ n.conn[p] \in ConnType
  BY <1>1, <1>3, <1>4
<1>6. n.conn[p].connected /\ n.conn[p].gen = g /\ g # 0
  <2>1. ConnSound(n, p)
    BY <1>1
  <2>2. n.conn[p].connected
    BY <1>5, <2>1, DescsFacts DEF ConnSound
  <2>3. n.desc[i].onClose = <<p, n.conn[p].gen>>
    BY <1>5, <2>1, <2>2 DEF ConnSound
  <2> QED BY <1>4, <2>2, <2>3, DescsFacts
<1> DEFINE k == [n.conn[p] EXCEPT !.nd = 0, !.connected = FALSE, !.disconnected = TRUE]
<1>7. /\ k \in ConnType /\ k.nd = 0 /\ k.connected = FALSE /\ k.disconnected = TRUE
      /\ k.gen = g
  BY <1>5, <1>6 DEF ConnType
<1> HIDE DEF c
<1>8. m = [c EXCEPT !.desc = [n.desc EXCEPT ![i] = NoDesc], !.conn = [n.conn EXCEPT ![p] = k]]
  <2> DEFINE d == [c EXCEPT !.desc[i] = NoDesc]
  <2>1. d.conn = n.conn /\ d = [c EXCEPT !.desc = [n.desc EXCEPT ![i] = NoDesc]]
    BY <1>2 DEF NetType
  <2>2. m = Lost(d, p)
    <3>1. c.desc[i].onClose = <<p, g>> /\ <<p, g>> # <<>>
      BY <1>2, <1>4, Names
    <3>2. <<p, g>>[1] = p /\ <<p, g>>[2] = g /\ c.conn[p].gen = g
      BY <1>2, <1>6
    <3> HIDE DEF d
    <3>3. m = DescClosed(c, i)
      BY DEF c
    <3>4. /\ c.desc[i].onClose # <<>> /\ c.desc[i].onClose[1] = p
          /\ c.desc[i].onClose[2] = g
      BY <3>1, <3>2
    <3>5. ~(c.conn[c.desc[i].onClose[1]].gen # c.desc[i].onClose[2])
      BY <3>2, <3>4
    <3>6. m = Lost(d, c.desc[i].onClose[1])
      BY <3>3, <3>4, <3>5, Zenon DEF DescClosed, d
    <3> QED BY <3>4, <3>6
  <2> HIDE DEF d
  <2>3. m = [d EXCEPT !.conn = [n.conn EXCEPT ![p] = k]]
    BY <2>1, <2>2 DEF Lost
  <2> HIDE DEF k
  <2> QED BY <2>1, <2>3
<1> HIDE DEF k
<1>9. /\ [n.desc EXCEPT ![i] = NoDesc] \in [Descs -> DescType]
      /\ [n.conn EXCEPT ![p] = k] \in [Players -> ConnType]
  BY <1>1, <1>7, EmptyRecords
<1>10. /\ m \in NetType /\ m.conn = [n.conn EXCEPT ![p] = k] /\ m.attempt = c.attempt
       /\ m.server = c.server /\ m.alarm = c.alarm /\ m.bad = c.bad
       /\ m.desc = [n.desc EXCEPT ![i] = NoDesc]
       /\ m.callbacks = c.callbacks /\ m.todo = c.todo
  BY <1>2, <1>8, <1>9 DEF NetType
<1>11. SameRest([c EXCEPT !.conn = m.conn], m)
  BY <1>2, <1>10 DEF SameRest, NetType
<1>12. ASSUME NEW q \in Players PROVE ConnSound(c, q) /\ Held(c, q) /\ AttemptSound(c, q)
  <2>1. ConnSound(n, q) /\ Held(n, q) /\ AttemptSound(n, q)
    BY <1>1
  <2>2. \A h \in Gens : Resolve(q, h) \in Pending(c) <=> Resolve(q, h) \in Pending(n)
    BY <1>2, CloseNames
  <2>3. ConnSound(c, q) /\ Held(c, q)
    BY <1>2, <2>1 DEF ConnSound, Held
  <2>4. AttemptSound(c, q)
    BY <1>2, <2>1, <2>2 DEF AttemptSound
  <2> QED BY <2>3, <2>4
<1>13. ASSUME NEW j \in Descs \ {i} PROVE DescSound(c, j, {})
  <2>1. DescSound(n, j, {})
    BY <1>1
  <2>2. Close(j) \in Pending(c) <=> Close(j) \in Pending(n)
    BY <1>2, CloseNames
  <2> QED BY <1>2, <2>1, <2>2 DEF DescSound
<1>14. /\ Close(i) \notin Pending(c) /\ c.conn[p].nd = i /\ ~k.connected /\ k.gen # 0
       /\ m.conn = [c.conn EXCEPT ![p] = k] /\ m.desc = [c.desc EXCEPT ![i] = NoDesc]
  BY <1>2, <1>5, <1>6, <1>7, <1>10
<1>15. Sound(m, {}) /\ m.bad = c.bad /\ \A at : Timely(c, at) => Timely(m, at)
  BY <1>2, <1>7, <1>10, <1>11, <1>12, <1>13, <1>14, PartedSound
<1>16. Lives(n, m)
  <2>1. StatusOf(n.conn[p]) = "connected"
    BY <1>6, EmptyRecords DEF StatusOf
  <2>2. StatusOf(k) = "lost"
    <3>1. k # NoConn
      BY <1>6, <1>7, EmptyRecords
    <3> QED BY <1>7, <3>1 DEF StatusOf
  <2>3. <<StatusOf(n.conn[p]), StatusOf(k)>> \in Changes
    BY <2>1, <2>2 DEF Changes
  <2>4. n.conn \in [Players -> ConnType] /\ m.conn = [n.conn EXCEPT ![p] = k]
    BY <1>1, <1>10
  <2> HIDE DEF Changes
  <2> QED BY <2>3, <2>4, OneChange
<1> QED BY <1>2, <1>15, <1>16 DEF Kept

(* A flush has met what the program cannot stand.                          *)
Broken(n, m) ==
  /\ m \in NetType /\ Queue(m) /\ m.bad \in {HandlerFreed, FlushedClosed} /\ Lives(n, m)

LEMMA BadNames == HandlerFreed # "" /\ FlushedClosed # ""
  BY DEF HandlerFreed, FlushedClosed

LEMMA FailedBroken ==
  ASSUME NEW n, NEW c, Sound(c, {}), c.bad = "", Lives(n, c),
         NEW what \in {HandlerFreed, FlushedClosed}, NEW m, m = Failed(c, what)
  PROVE  Broken(n, m)
<1>1. c \in NetType /\ Queue(c)
  BY DEF Sound
<1>2. m = [c EXCEPT !.bad = what]
  BY DEF Failed
<1>3. what \in {""} \cup Faults
  BY DEF Faults
<1>4. /\ m \in NetType /\ m.conn = c.conn /\ m.bad = what
      /\ m.callbacks = c.callbacks /\ m.todo = c.todo
  BY <1>1, <1>2, <1>3 DEF NetType
<1>5. Queue(m)
  BY <1>1, <1>4, QueueSame
<1>6. Lives(n, m)
  BY <1>4 DEF Lives
<1> QED BY <1>4, <1>5, <1>6 DEF Broken

LEMMA FlushedKept ==
  ASSUME NEW n, NEW p \in Players, Sound(n, {}), n.bad = "", NEW m \in Flushed(n, p)
  PROVE  Kept(n, m) \/ Broken(n, m)
<1>1. CASE m = n
  BY <1>1, NoChange DEF Kept
<1>2. CASE m = Failed(n, FlushedClosed)
  BY <1>2, NoChange, FailedBroken
<1>3. CASE n.conn[p].connected /\ Open(n, n.conn[p].nd) /\ m = CloseConnection(n, p)
  <2>1. /\ Sound(m, {}) /\ m.bad = n.bad /\ \A at : Timely(n, at) => Timely(m, at)
        /\ m.conn = [n.conn EXCEPT ![p] = NoConn]
    BY <1>3, CloseConnectionSound
  <2>2. Lives(n, m)
    BY <2>1, NetFields, ClosedLives DEF Sound
  <2> QED BY <2>1, <2>2 DEF Kept
<1> QED BY <1>1, <1>2, <1>3 DEF Flushed

LEMMA FlushedAllKept ==
  ASSUME NEW n, Sound(n, {}), n.bad = "", NEW m \in FlushedAll(n)
  PROVE  Kept(n, m) \/ Broken(n, m)
<1>1. CASE m = [n EXCEPT !.bad = FlushedClosed]
  <2>1. m = Failed(n, FlushedClosed)
    BY <1>1 DEF Failed
  <2> QED BY <2>1, NoChange, FailedBroken
<1>2. CASE m = n
  BY <1>2, NoChange DEF Kept
<1>3. CASE \E p \in Players : m \in Flushed(n, p)
  BY <1>3, FlushedKept
<1> QED BY <1>1, <1>2, <1>3 DEF FlushedAll

LEMMA ReadableKept ==
  ASSUME NEW n, NEW p \in Players, Sound(n, {}), n.bad = "", Timely(n, "select"),
         Open(n, n.conn[p].nd), NEW m \in Readable(n, p)
  PROVE  \/ Sound(m, {}) /\ m.bad = "" /\ Timely(m, "select") /\ Lives(n, m)
         \/ Broken(n, m)
<1>1. CASE m = CloseDesc(n, n.conn[p].nd)
  <2>1. /\ Sound(m, {}) /\ m.bad = n.bad /\ m.conn = n.conn
        /\ Timely(n, "select") => Timely(m, "select")
    <3>1. ClosesLater(n, m)
      BY <1>1, CloseLaterSound
    <3> QED BY <3>1 DEF ClosesLater
  <2>2. Lives(n, m)
    BY <2>1, NoChange
  <2> QED BY <2>1, <2>2
<1>2. ASSUME NEW c \in FlushedAll(n),
             m = IF c.conn[p] = NoConn THEN Failed(c, HandlerFreed) ELSE c
      PROVE  \/ Sound(m, {}) /\ m.bad = "" /\ Timely(m, "select") /\ Lives(n, m)
             \/ Broken(n, m)
  <2>1. CASE Kept(n, c)
    <3>1. CASE m = c
      BY <2>1, <3>1 DEF Kept
    <3>2. CASE m = Failed(c, HandlerFreed)
      BY <2>1, <3>2, FailedBroken DEF Kept
    <3> QED BY <1>2, <3>1, <3>2
  <2>2. CASE Broken(n, c)
    <3>1. Failed(c, HandlerFreed) = c
      BY <2>2, BadNames DEF Failed, Broken
    <3> QED BY <1>2, <2>2, <3>1
  <2>3. Kept(n, c) \/ Broken(n, c)
    BY FlushedAllKept
  <2> QED BY <2>1, <2>2, <2>3
<1> QED BY <1>1, <1>2 DEF Readable

-----------------------------------------------------------------------------
(* The steps.                                                              *)

LEMMA InitIInv == Init => IInv
<1> SUFFICES ASSUME Init PROVE IInv
  OBVIOUS
<1>1. /\ net.conn = [p \in Players |-> NoConn] /\ net.attempt = [p \in Players |-> NoAttempt]
      /\ net.server = [p \in Players |-> FALSE] /\ net.alarm = [p \in Players |-> NoAlarm]
      /\ net.desc = [i \in Descs |-> NoDesc] /\ net.callbacks = <<>> /\ net.todo = 0
      /\ net.bad = ""
  BY DEF Init
<1>2. net \in NetType
  <2>1. /\ net.conn \in [Players -> ConnType] /\ net.attempt \in [Players -> AttemptType]
        /\ net.server \in [Players -> BOOLEAN] /\ net.alarm \in [Players -> AlarmType]
        /\ net.desc \in [Descs -> DescType]
    BY <1>1, EmptyRecords
  <2>3. net.callbacks \in Seq(Callbacks)
    <3>1. net.callbacks = <<>>
      BY <1>1
    <3> QED BY <3>1
  <2>4. net.todo \in Nat
    <3>1. net.todo = 0
      BY <1>1
    <3> QED BY <3>1
  <2>5. net.bad \in {""} \cup Faults
    <3>1. net.bad = ""
      BY <1>1
    <3> QED BY <3>1
  <2>2. net = [conn |-> net.conn, attempt |-> net.attempt, server |-> net.server,
               alarm |-> net.alarm, desc |-> net.desc, callbacks |-> net.callbacks,
               todo |-> net.todo, bad |-> net.bad]
    BY DEF Init
  <2> QED BY <2>1, <2>2, <2>3, <2>4, <2>5 DEF NetType
<1>3. Queue(net) /\ Pending(net) = {} /\ \A at : Timely(net, at)
  <2>1. net.callbacks = <<>> /\ net.todo = 0
    BY <1>1
  <2>2. Len(net.callbacks) = 0 /\ \A k : k \notin 1 .. Len(net.callbacks)
    BY <2>1
  <2> QED BY <2>1, <2>2 DEF Queue, Pending, Timely
<1>4. loop \in LoopType /\ loop.ready = {}
  BY DEF Init, LoopType, After
<1>5. ASSUME NEW p \in Players
      PROVE  ConnSound(net, p) /\ Held(net, p) /\ AttemptSound(net, p)
  <2>1. net.conn[p] = NoConn /\ net.attempt[p] = NoAttempt /\ net.alarm[p] = NoAlarm
    BY <1>1
  <2>2. ConnSound(net, p)
    BY <2>1, EmptyRecords DEF ConnSound
  <2>3. Held(net, p)
    BY <2>1, EmptyRecords DEF Held
  <2>4. AttemptSound(net, p)
    BY <1>3, <2>1, EmptyRecords DEF AttemptSound
  <2> QED BY <2>2, <2>3, <2>4
<1>6. ASSUME NEW i \in Descs PROVE DescSound(net, i, {})
  <2>1. net.desc[i] = NoDesc
    BY <1>1
  <2> QED BY <1>3, <2>1, EmptyRecords DEF DescSound
<1>7. Sound(net, {})
  BY <1>2, <1>3, <1>5, <1>6 DEF Sound
<1> QED BY <1>1, <1>2, <1>3, <1>4, <1>7 DEF IInv, NothingStale

(* What a step has to show.                                                *)
LEMMA ByKept ==
  ASSUME IInv, Goes, loop' \in LoopType, loop'.at = loop.at,
         loop'.ready = {} \/ loop'.at = "select",
         Kept(net, net') \/ Broken(net, net')
  PROVE  IInv' /\ Lives(net, net')
<1>1. Sound(net, {}) /\ Timely(net, loop.at) /\ net.bad = ""
  BY DEF IInv, Goes
<1>2. CASE Kept(net, net')
  <2>1. /\ Sound(net', {}) /\ net'.bad = "" /\ Timely(net', loop'.at) /\ Lives(net, net')
    BY <1>1, <1>2 DEF Kept
  <2>2. net' \in NetType /\ Queue(net')
    BY <2>1 DEF Sound
  <2> QED BY <2>1, <2>2 DEF IInv, Goes, NothingStale
<1>3. CASE Broken(net, net')
  BY <1>3, BadNames DEF Broken, IInv, Goes, NothingStale
<1> QED BY <1>2, <1>3


LEMMA LoopFields ==
  ASSUME IInv
  PROVE  /\ loop.at \in DOMAIN After /\ loop.ready \subseteq Descs
         /\ loop.at \in {"async", "menu", "select", "netAsync", "flush", "last"}
         /\ Goes => /\ Sound(net, {}) /\ net.bad = "" /\ Timely(net, loop.at)
                    /\ loop.ready # {} => loop.at = "select"
  BY DEF IInv, LoopType, After, Goes

LEMMA AfterNames ==
  ASSUME NEW at \in DOMAIN After
  PROVE  /\ After[at] \in DOMAIN After
         /\ After[at] \in {"menu", "select", "flush", "async", "netAsync", "last"}
         /\ at = "select" => After[at] = "netAsync"
  BY DEF After

(* All the callbacks are to be gone through.                               *)
LEMMA ProcessKept ==
  ASSUME NEW n, NEW c, NEW at \in {"async", "netAsync", "last"}, Kept(n, c), NEW m, m = Process(c)
  PROVE  Sound(m, {}) /\ m.bad = n.bad /\ Timely(m, at) /\ Lives(n, m)
<1>1. /\ c \in NetType /\ Queue(c) /\ Sound(c, {}) /\ c.bad = n.bad /\ Lives(n, c)
      /\ \A q \in Players : ConnSound(c, q) /\ Held(c, q) /\ AttemptSound(c, q)
      /\ \A i \in Descs : DescSound(c, i, {})
  BY DEF Kept, Sound
<1>2. /\ m \in NetType /\ m.conn = c.conn /\ m.attempt = c.attempt /\ m.alarm = c.alarm
      /\ m.desc = c.desc /\ m.bad = c.bad /\ m.callbacks = c.callbacks
      /\ m.todo = Len(c.callbacks)
  <2>1. Len(c.callbacks) \in Nat
    BY <1>1, NetFields
  <2> QED BY <1>1, <2>1 DEF Process, NetType
<1>3. Queue(m) /\ Pending(m) = Pending(c)
  <2>1. Len(c.callbacks) \in Nat
    BY <1>1, NetFields
  <2> QED BY <1>1, <1>2, <2>1 DEF Queue, Pending
<1>4. Timely(m, at)
  <2>1. Len(c.callbacks) \in Nat
    BY <1>1, NetFields
  <2> QED BY <1>2, <2>1 DEF Timely
<1>5. \A q \in Players : ConnSound(m, q) /\ Held(m, q) /\ AttemptSound(m, q)
  BY <1>1, <1>2, <1>3 DEF ConnSound, Held, AttemptSound
<1>6. \A i \in Descs : DescSound(m, i, {})
  BY <1>1, <1>2, <1>3 DEF DescSound
<1>7. Lives(n, m)
  BY <1>1, <1>2 DEF Lives
<1> QED BY <1>1, <1>2, <1>3, <1>4, <1>5, <1>6, <1>7 DEF Sound

(* A sound step to a place of the loop where it is timely.                 *)
LEMMA BySound ==
  ASSUME IInv, Goes, loop' \in LoopType, loop'.ready = {} \/ loop'.at = "select",
         Sound(net', {}), net'.bad = "", Timely(net', loop'.at), Lives(net, net')
  PROVE  IInv' /\ Lives(net, net')
  BY DEF IInv, Goes, NothingStale, Sound

LEMMA StutterStep ==
  ASSUME IInv, UNCHANGED vars
  PROVE  IInv' /\ Lives(net, net')
<1>1. net' = net /\ loop' = loop
  BY DEF vars
<1>2. Lives(net, net')
  BY <1>1, NoChange
<1>3. IInv'
  BY <1>1 DEF IInv, Goes, NothingStale
<1> QED BY <1>2, <1>3

LEMMA ProceedStep ==
  ASSUME IInv, Proceed
  PROVE  IInv' /\ Lives(net, net')
<1>1. /\ Sound(net, {}) /\ net.bad = "" /\ Timely(net, loop.at) /\ net.todo = 0
      /\ loop.at \in DOMAIN After /\ loop.ready = {} /\ Goes
  BY LoopFields DEF Proceed
<1> DEFINE at == After[loop.at]
<1>2. PICK ready \in SUBSET Descs : /\ at # "select" => ready = {}
                                    /\ loop' = [at |-> at, ready |-> ready]
  BY DEF Proceed
<1>3. loop' \in LoopType /\ loop'.at = at /\ (loop'.ready = {} \/ loop'.at = "select")
  BY <1>1, <1>2, AfterNames DEF LoopType
<1>4. Kept(net, net)
  BY <1>1, NoChange DEF Kept
<1>5. CASE at \in {"async", "netAsync", "last"}
  <2>1. net' = Process(net)
    BY <1>5 DEF Proceed
  <2>2. Sound(net', {}) /\ net'.bad = net.bad /\ Timely(net', at) /\ Lives(net, net')
    BY <1>4, <1>5, <2>1, ProcessKept
  <2> QED BY <1>1, <1>3, <2>2, BySound
<1>6. CASE at \notin {"async", "netAsync", "last"}
  <2>1. net' = net
    BY <1>6 DEF Proceed
  <2>2. loop.at # "select"
    BY <1>1, <1>6, AfterNames
  <2>3. Timely(net, at)
    BY <1>1, <2>2 DEF Timely
  <2> HIDE DEF at
  <2> QED BY <1>1, <1>3, <1>4, <2>1, <2>3, BySound DEF Kept
<1> QED BY <1>5, <1>6

LEMMA CallbackStep ==
  ASSUME IInv, RunCallback
  PROVE  IInv' /\ Lives(net, net')
<1>1. /\ Sound(net, {}) /\ net.bad = "" /\ net \in NetType /\ Queue(net)
      /\ net.todo > 0 /\ Goes /\ loop' = loop
  BY LoopFields DEF RunCallback, IInv
<1>2. loop' \in LoopType /\ loop'.at = loop.at /\ (loop'.ready = {} \/ loop'.at = "select")
  BY <1>1 DEF IInv
<1> DEFINE c == Head(net.callbacks)
           n == Popped(net)
<1>3. c \in Callbacks /\ n.attempt = net.attempt
  BY <1>1, PoppedFields
<1>4. \/ c.kind = "close" /\ net' = DescClosed(n, c.of)
      \/ /\ c.kind = "resolve"
         /\ IF n.attempt[c.of[1]].gen = c.of[2]
            THEN net' \in Resolved(n, c.of[1])
            ELSE net' = Failed(n, "resolve callback of a closed attempt")
  BY DEF RunCallback, Popped
<1>5. Kept(net, net')
  <2>1. ASSUME NEW p \in Players, NEW g \in Gens, c = Resolve(p, g) PROVE Kept(net, net')
    <3>1. /\ c.kind = "resolve" /\ c.of = <<p, g>>
      BY <2>1, Names
    <3>2. net.attempt[p].gen = g /\ \A m \in Resolved(n, p) : Kept(net, m)
      BY <1>1, <2>1, ResolvedKept
    <3>3. c.of[1] = p /\ c.of[2] = g /\ c.kind # "close"
      BY <3>1
    <3> HIDE DEF c, n
    <3> QED BY <1>3, <1>4, <3>1, <3>2, <3>3
  <2>2. ASSUME NEW i \in Descs, c = Close(i) PROVE Kept(net, net')
    <3>1. c.kind = "close" /\ c.of = i
      BY <2>2, CloseNames DEF Close
    <3>2. net' = DescClosed(n, i)
      BY <1>4, <3>1
    <3> QED BY <1>1, <2>2, <3>2, DescClosedKept
  <2> QED BY <1>3, <2>1, <2>2, CallbackForms
<1> QED BY <1>1, <1>2, <1>5, ByKept

LEMMA AlarmStep ==
  ASSUME IInv, NEW p \in Players, RunAlarm(p)
  PROVE  IInv' /\ Lives(net, net')
<1>1. /\ Sound(net, {}) /\ net.bad = "" /\ Goes /\ loop' = loop
      /\ loop.at \in {"async", "netAsync"} /\ net.alarm[p] # NoAlarm
  BY LoopFields DEF RunAlarm
<1>2. loop' \in LoopType /\ loop'.at = loop.at /\ (loop'.ready = {} \/ loop'.at = "select")
  BY <1>1 DEF IInv
<1>3. PICK c \in AlarmDue(net, p) : net' = Process(c)
  BY DEF RunAlarm
<1>4. Kept(net, c)
  BY <1>1, AlarmDueKept
<1>5. Sound(net', {}) /\ net'.bad = net.bad /\ Timely(net', loop.at) /\ Lives(net, net')
  BY <1>1, <1>3, <1>4, ProcessKept
<1> QED BY <1>1, <1>2, <1>5, BySound

LEMMA SelectStep ==
  ASSUME IInv, Select
  PROVE  IInv' /\ Lives(net, net')
<1>1. /\ Sound(net, {}) /\ net.bad = "" /\ Goes /\ loop.at = "select"
      /\ Timely(net, "select")
  BY LoopFields DEF Select
<1>2. PICK i \in loop.ready :
        /\ loop' = [loop EXCEPT !.ready = @ \ {i}]
        /\ \/ ~Open(net, i) /\ UNCHANGED net
           \/ \E p \in Players :
                \/ /\ net.attempt[p].nd = i /\ net.attempt[p].phase = "connecting"
                   /\ net' \in Writable(net, p)
                \/ /\ net.attempt[p].nd = i /\ net.attempt[p].phase = "listening"
                   /\ net' \in Acceptable(net, p)
                \/ /\ net.conn[p].nd = i /\ Open(net, i)
                   /\ net' \in Readable(net, p)
  BY DEF Select
<1>3. loop' \in LoopType /\ loop'.at = loop.at /\ (loop'.ready = {} \/ loop'.at = "select")
  BY <1>1, <1>2 DEF IInv, LoopType
<1>4. CASE UNCHANGED net
  <2>1. Kept(net, net')
    BY <1>1, <1>4, NoChange DEF Kept
  <2> QED BY <1>1, <1>3, <2>1, ByKept
<1>5. ASSUME NEW p \in Players, net.attempt[p].phase = "connecting", net' \in Writable(net, p)
      PROVE  IInv' /\ Lives(net, net')
  <2>1. Kept(net, net')
    BY <1>1, <1>5, WritableKept
  <2> QED BY <1>1, <1>3, <2>1, ByKept
<1>6. ASSUME NEW p \in Players, net.attempt[p].phase = "listening", net' \in Acceptable(net, p)
      PROVE  IInv' /\ Lives(net, net')
  <2>1. Kept(net, net')
    BY <1>1, <1>6, AcceptableKept
  <2> QED BY <1>1, <1>3, <2>1, ByKept
<1>7. ASSUME NEW p \in Players, Open(net, net.conn[p].nd), net' \in Readable(net, p)
      PROVE  IInv' /\ Lives(net, net')
  <2>1. \/ Sound(net', {}) /\ net'.bad = "" /\ Timely(net', "select") /\ Lives(net, net')
        \/ Broken(net, net')
    BY <1>1, <1>7, ReadableKept
  <2>2. CASE Broken(net, net')
    BY <1>1, <1>3, <2>2, ByKept
  <2>3. CASE Sound(net', {}) /\ net'.bad = "" /\ Timely(net', "select") /\ Lives(net, net')
    BY <1>1, <1>3, <2>3, BySound
  <2> QED BY <2>1, <2>2, <2>3
<1> QED BY <1>2, <1>4, <1>5, <1>6, <1>7

LEMMA FlushStep ==
  ASSUME IInv, NEW p \in Players, Flush(p)
  PROVE  IInv' /\ Lives(net, net')
<1>1. /\ Sound(net, {}) /\ net.bad = "" /\ Goes /\ loop' = loop /\ net' \in Flushed(net, p)
  BY LoopFields DEF Flush
<1>2. loop' \in LoopType /\ loop'.at = loop.at /\ (loop'.ready = {} \/ loop'.at = "select")
  BY <1>1 DEF IInv
<1>3. Kept(net, net') \/ Broken(net, net')
  BY <1>1, FlushedKept
<1> QED BY <1>1, <1>2, <1>3, ByKept

(* Where the player may act, no close callback is to come: a connected     *)
(* connection has an open socket, and nobody else has one.                 *)
LEMMA NoneToCome ==
  ASSUME IInv, Goes, loop.at \in {"menu", "flush"}, NEW p \in Players
  PROVE  net.conn[p].connected <=> Open(net, net.conn[p].nd)
<1>1. /\ Sound(net, {}) /\ Timely(net, loop.at) /\ net \in NetType
      /\ net.conn \in [Players -> ConnType] /\ net.desc \in [Descs -> DescType]
      /\ net.callbacks \in Seq(Callbacks) /\ Len(net.callbacks) \in Nat
      /\ ConnSound(net, p)
  BY LoopFields, NetFields DEF Sound
<1>2. net.todo = 0 /\ \A k \in 1 .. Len(net.callbacks) : net.callbacks[k].kind # "close"
  BY <1>1 DEF Timely
<1>3. \A i \in Descs : Close(i) \notin Pending(net)
  BY <1>2 DEF Close, Pending
<1>4. CASE net.conn[p].connected
  <2>1. /\ net.conn[p].nd \in Descs /\ net.desc[net.conn[p].nd].onClose # <<>>
        /\ net.conn[p].nd # 0
    BY <1>1, <1>4, SocketKnows DEF ConnSound
  <2>2. net.desc[net.conn[p].nd] \in DescType /\ DescSound(net, net.conn[p].nd, {})
    BY <1>1, <2>1 DEF Sound
  <2>3. net.desc[net.conn[p].nd].status \notin {"gone", "closing"}
    BY <1>3, <2>1, <2>2, EmptyRecords DEF DescSound
  <2> QED BY <1>4, <2>1, <2>2, <2>3 DEF Open, DescType
<1>5. CASE ~net.conn[p].connected
  BY <1>1, <1>5 DEF ConnSound, Open
<1> QED BY <1>4, <1>5

LEMMA OpenedKept ==
  ASSUME NEW n, NEW m, NEW p \in Players, NEW gen \in Gens, n.conn \in [Players -> ConnType],
         n.conn[p] = NoConn, Turned(n, m, p, NewConn(gen))
  PROVE  Kept(n, m)
<1> DEFINE k == NewConn(gen)
<1>1. StatusOf(n.conn[p]) = "none" /\ StatusOf(k) = "connecting"
  <2>1. k # NoConn /\ ~k.connected /\ ~k.disconnected
    BY DescsFacts DEF NoConn, NewConn
  <2> HIDE DEF k
  <2> QED BY <2>1 DEF StatusOf
<1>2. \/ StatusOf(k) = StatusOf(n.conn[p])
      \/ <<StatusOf(n.conn[p]), StatusOf(k)>> \in Changes
  BY <1>1 DEF Changes
<1>3. m.conn = [n.conn EXCEPT ![p] = k]
  BY DEF Turned
<1> HIDE DEF k
<1>4. Lives(n, m)
  BY <1>2, <1>3, OneChange
<1> QED BY <1>4 DEF Kept, Turned

LEMMA OpensStep ==
  ASSUME IInv, NEW p \in Players, UserOpens(p)
  PROVE  IInv' /\ Lives(net, net')
<1>1. /\ Sound(net, {}) /\ net.bad = "" /\ Goes /\ loop' = loop /\ net.conn[p] = NoConn
      /\ net.conn \in [Players -> ConnType]
  BY LoopFields, NetFields DEF UserOpens, Sound
<1>2. loop' \in LoopType /\ loop'.at = loop.at /\ (loop'.ready = {} \/ loop'.at = "select")
  BY <1>1 DEF IInv
<1>3. PICK server \in BOOLEAN, gen \in Gens : net' = OpenConnection(net, p, gen, server)
  BY DEF UserOpens
<1>4. Turned(net, net', p, NewConn(gen))
  BY <1>1, <1>3, OpenConnectionSound
<1>5. Kept(net, net')
  BY <1>1, <1>4, OpenedKept
<1> QED BY <1>1, <1>2, <1>5, ByKept

LEMMA ClosesStep ==
  ASSUME IInv, NEW p \in Players, UserCloses(p)
  PROVE  IInv' /\ Lives(net, net')
<1>1. /\ Sound(net, {}) /\ net.bad = "" /\ Goes /\ loop' = loop /\ loop.at = "menu"
      /\ net.conn \in [Players -> ConnType] /\ net' = CloseConnection(net, p)
  BY LoopFields, NetFields DEF UserCloses, Sound
<1>2. loop' \in LoopType /\ loop'.at = loop.at /\ (loop'.ready = {} \/ loop'.at = "select")
  BY <1>1 DEF IInv
<1>3. net.conn[p].connected => Open(net, net.conn[p].nd)
  BY <1>1, NoneToCome
<1>4. /\ Sound(net', {}) /\ net'.bad = net.bad /\ \A at : Timely(net, at) => Timely(net', at)
      /\ net'.conn = [net.conn EXCEPT ![p] = NoConn]
  BY <1>1, <1>3, CloseConnectionSound
<1>5. Lives(net, net')
  BY <1>1, <1>4, ClosedLives
<1>6. Kept(net, net')
  BY <1>4, <1>5 DEF Kept
<1> QED BY <1>1, <1>2, <1>6, ByKept

LEMMA Inductive ==
  ASSUME IInv, [Next]_vars
  PROVE  IInv' /\ Lives(net, net')
<1>1. CASE Proceed
  BY <1>1, ProceedStep
<1>2. CASE RunCallback
  BY <1>2, CallbackStep
<1>3. CASE Select
  BY <1>3, SelectStep
<1>4. ASSUME NEW p \in Players, RunAlarm(p) \/ Flush(p) \/ UserOpens(p) \/ UserCloses(p)
      PROVE  IInv' /\ Lives(net, net')
  BY <1>4, AlarmStep, FlushStep, OpensStep, ClosesStep
<1>5. CASE UNCHANGED vars
  BY <1>5, StutterStep
<1> QED BY <1>1, <1>2, <1>3, <1>4, <1>5 DEF Next

-----------------------------------------------------------------------------
(* What the inductive invariant says.                                      *)

LEMMA TypesFollow ==
  ASSUME IInv
  PROVE  TypeOK
<1>1. /\ net \in NetType /\ Queue(net) /\ loop.at \in DOMAIN After /\ loop.ready \subseteq Descs
  BY LoopFields DEF IInv
<1>2. net.todo \in 0 .. Len(net.callbacks)
  <2>1. net.todo \in Nat /\ Len(net.callbacks) \in Nat
    BY <1>1, NetFields
  <2> QED BY <1>1, <2>1 DEF Queue
<1>3. /\ net.conn \in [Players -> ConnType] /\ net.attempt \in [Players -> AttemptType]
      /\ net.server \in [Players -> BOOLEAN] /\ net.alarm \in [Players -> AlarmType]
      /\ net.desc \in [Descs -> DescType] /\ net.callbacks \in Seq(Callbacks)
      /\ net.bad \in {""} \cup Faults
  BY <1>1, NetFields
<1> QED BY <1>1, <1>2, <1>3 DEF TypeOK, ConnType, AttemptType, AlarmType, DescType

LEMMA OwnersFollow ==
  ASSUME IInv
  PROVE  EachIsOwned
<1> SUFFICES ASSUME Goes PROVE EachIsOwned
  BY DEF EachIsOwned
<1>1. /\ Sound(net, {}) /\ net \in NetType
      /\ \A q \in Players : ConnSound(net, q) /\ Held(net, q) /\ AttemptSound(net, q)
      /\ \A i \in Descs : DescSound(net, i, {})
  BY LoopFields DEF Sound
<1>2. /\ net.conn \in [Players -> ConnType] /\ net.attempt \in [Players -> AttemptType]
      /\ net.desc \in [Descs -> DescType] /\ net.callbacks \in Seq(Callbacks)
  BY <1>1, NetFields
<1>3. ASSUME NEW p \in Players
      PROVE  /\ net.attempt[p].gen \in {0, net.conn[p].gen}
             /\ net.alarm[p] # NoAlarm => net.alarm[p].gen = net.attempt[p].gen
  <2>1. net.attempt[p].gen \in {0, net.conn[p].gen}
    BY <1>1 DEF ConnSound
  <2>2. net.alarm[p] # NoAlarm => net.alarm[p].gen = net.attempt[p].gen
    <3>1. \/ net.alarm[p] = NoAlarm
          \/ net.alarm[p] = [kind |-> "timeout", gen |-> net.attempt[p].gen]
          \/ net.alarm[p] = [kind |-> "retry", gen |-> net.attempt[p].gen]
      BY <1>1 DEF AttemptSound
    <3> QED BY <3>1
  <2> QED BY <2>1, <2>2
<1>4. ASSUME NEW k \in 1 .. Len(net.callbacks)
      PROVE  LET c == net.callbacks[k]
             IN  IF c.kind = "resolve"
                 THEN /\ c.of[2] = net.attempt[c.of[1]].gen
                      /\ net.attempt[c.of[1]].phase = "resolving"
                 ELSE LET owner == net.desc[c.of].onClose
                      IN  owner # <<>> => net.conn[owner[1]].nd = c.of
  <2> DEFINE c == net.callbacks[k]
  <2>1. c \in Callbacks
    BY <1>2
  <2>2. c \in Pending(net)
    BY DEF Pending
  <2> HIDE DEF c
  <2>3. ASSUME NEW p \in Players, NEW g \in Gens, c = Resolve(p, g)
        PROVE  /\ c.kind = "resolve" /\ c.of[2] = net.attempt[c.of[1]].gen
               /\ net.attempt[c.of[1]].phase = "resolving"
    <3>1. c.kind = "resolve" /\ c.of[1] = p /\ c.of[2] = g
      BY <2>3 DEF Resolve
    <3>2. net.attempt[p].phase = "resolving" /\ g = net.attempt[p].gen
      BY <1>1, <2>2, <2>3 DEF AttemptSound
    <3> QED BY <3>1, <3>2
  <2>4. ASSUME NEW i \in Descs, c = Close(i)
        PROVE  /\ c.kind = "close"
               /\ net.desc[c.of].onClose # <<>> => net.conn[net.desc[c.of].onClose[1]].nd = c.of
    <3>1. c.kind = "close" /\ c.of = i
      BY <2>4 DEF Close
    <3> QED BY <1>1, <3>1 DEF DescSound
  <2> QED BY <2>1, <2>3, <2>4, CallbackForms DEF c
<1>5. ASSUME NEW i \in Descs, Open(net, i)
      PROVE  \E p \in Players : i \in {net.attempt[p].nd, net.conn[p].nd}
  <2>1. net.desc[i].status = "open" /\ net.desc[i] \in DescType /\ DescSound(net, i, {})
    BY <1>1, <1>2, <1>5 DEF Open
  <2>2. CASE net.desc[i].onClose = <<>>
    BY <2>1, <2>2 DEF DescSound
  <2>3. CASE net.desc[i].onClose # <<>>
    <3>1. net.desc[i].onClose \in Players \X Gens
      BY <2>1, <2>3 DEF DescType
    <3>2. net.desc[i].onClose[1] \in Players /\ net.conn[net.desc[i].onClose[1]].nd = i
      BY <2>1, <2>3, <3>1 DEF DescSound
    <3> QED BY <3>2
  <2> QED BY <2>2, <2>3
<1> QED BY <1>3, <1>4, <1>5 DEF EachIsOwned

LEMMA AttemptsFollow ==
  ASSUME IInv
  PROVE  AttemptGoesOn
<1> SUFFICES ASSUME Goes PROVE AttemptGoesOn
  BY DEF AttemptGoesOn
<1>1. ASSUME NEW p \in Players
      PROVE  /\ net.attempt[p].phase \in {"none", "resolving", "connecting", "waiting", "listening"}
             /\ net.attempt[p].phase = "resolving" =>
                  \E k \in 1 .. Len(net.callbacks) :
                    net.callbacks[k] = [kind |-> "resolve", of |-> <<p, net.attempt[p].gen>>]
             /\ net.attempt[p].phase = "connecting" =>
                  net.alarm[p].kind = "timeout" /\ Open(net, net.attempt[p].nd)
             /\ net.attempt[p].phase = "waiting" => net.alarm[p].kind = "retry"
             /\ net.attempt[p].phase = "listening" => Open(net, net.attempt[p].nd)
  <2>1. /\ AttemptSound(net, p) /\ Held(net, p) /\ net \in NetType
    BY LoopFields DEF Sound
  <2>2. net.attempt[p] \in AttemptType
    BY <2>1, NetFields
  <2>3. net.attempt[p].phase = "resolving" => Resolve(p, net.attempt[p].gen) \in Pending(net)
    BY <2>1, <2>2 DEF AttemptSound, AttemptType
  <2>4. net.attempt[p].phase \in {"connecting", "listening"} => Open(net, net.attempt[p].nd)
    BY <2>1 DEF AttemptSound, Held, Open
  <2>5. /\ net.attempt[p].phase = "connecting" => net.alarm[p].kind = "timeout"
        /\ net.attempt[p].phase = "waiting" => net.alarm[p].kind = "retry"
    BY <2>1 DEF AttemptSound
  <2> QED BY <2>2, <2>3, <2>4, <2>5 DEF AttemptType, Pending, Resolve
<1> QED BY <1>1 DEF AttemptGoesOn

LEMMA OpenFollows ==
  ASSUME IInv
  PROVE  ConnectedIsOpen
<1> SUFFICES ASSUME Goes, loop.at \in {"menu", "flush"} PROVE ConnectedIsOpen
  BY DEF ConnectedIsOpen
<1>1. \A p \in Players : net.conn[p].connected <=> Open(net, net.conn[p].nd)
  BY NoneToCome
<1> QED BY <1>1 DEF ConnectedIsOpen

LEMMA LivesAsStatus ==
  ASSUME Lives(net, net')
  PROVE  \A p \in Players :
           \/ Status(p)' = Status(p)
           \/ \E c \in Changes : Status(p) = c[1] /\ Status(p)' = c[2]
<1>1. ASSUME NEW p \in Players
      PROVE  Status(p) = StatusOf(net.conn[p]) /\ Status(p)' = StatusOf(net'.conn[p])
  BY DEF Status, StatusOf
<1> HIDE DEF Changes
<1> QED BY <1>1 DEF Lives

-----------------------------------------------------------------------------
(* The structures of the connections are sound between any two steps: each *)
(* refers to what is there and to what refers back to it, the callbacks in *)
(* the list are of attempts and descriptors that wait for them, and close  *)
(* callbacks come before the player or a flush can act (NetConnection_open *)
(* and _close, NetDescriptor_close, Callback_process, NetManager_process). *)
THEOREM SoundInvariant == Spec => []IInv
<1>1. IInv /\ [Next]_vars => IInv'
  BY Inductive
<1> QED BY InitIInv, <1>1, PTL DEF Spec

(* Callbacks, alarms, descriptors and connections refer to one another     *)
(* without loose ends, an attempt always has what carries it on, and       *)
(* wherever packets may be flushed or the player may close a connection, a *)
(* connection that counts as connected has an open socket.                 *)
THEOREM NoLooseEndsInvariant == Spec => []NoLooseEnds
<1>1. IInv => NoLooseEnds
  BY TypesFollow, OwnersFollow, AttemptsFollow, OpenFollows DEF NoLooseEnds
<1> QED BY SoundInvariant, <1>1, PTL

(* No assertion of netconnection.c, nc_connect.ci, ndesc.c or callback.c   *)
(* fails and nothing freed is used, but for what a flush in a handler of a *)
(* packet can do.                                                          *)
THEOREM NothingStaleInvariant == Spec => []NothingStale
<1>1. IInv => NothingStale
  BY DEF IInv
<1> QED BY SoundInvariant, <1>1, PTL

(* A connection goes from connecting to connected to lost, once, unless it *)
(* is closed on the way (NetConnection_connected, closeCallback).          *)
THEOREM OneLifeProperty == Spec => OneLife
<1>1. IInv /\ [Next]_vars =>
        [\A p \in Players :
           \/ Status(p)' = Status(p)
           \/ \E c \in Changes : Status(p) = c[1] /\ Status(p)' = c[2]]_vars
  BY Inductive, LivesAsStatus
<1> QED BY SoundInvariant, <1>1, PTL DEF Spec, OneLife
-----------------------------------------------------------------------------
(* Below the packets (NetStream): until a call of send() takes a part of a *)
(* packet, the bytes are what the connection above expects of them, for    *)
(* any lengths of packets, sizes of the buffers, and pieces in which       *)
(* send() and recv() take them.                                            *)

(* Where a flush is, which holds after a split too.                        *)
FlushInv ==
  /\ flushing <=> unsent # 0
  /\ flushing => queue # <<>> /\ unsent <= Head(queue).len
  /\ NoSplit /\ flushing => unsent = Head(queue).len

(* The queue holds the packets queued last, in order.                      *)
QueueInv ==
  /\ Len(queue) <= queued
  /\ \A i \in 1 .. Len(queue) : queue[i].id = NumSent + i

(* The wire begins with the packet that is handled next.  It ends with the *)
(* end of a packet, the last one sent, unless the sender's end has closed  *)
(* and the socket was emptied.                                             *)
WireInv ==
  /\ \A i \in 1 .. Len(Wire) : InPacket(i) /\ Wire[i][1] <= NumSent
  /\ Wire # <<>> => Wire[1][1] = Len(handled) + 1
  /\ Sending => IF Wire = <<>> THEN NumSent = Len(handled)
                ELSE LET last == Wire[Len(Wire)]
                     IN  last[1] = NumSent /\ last[3] = last[2]

(* Outside the loop that parses there is no whole packet in the buffer,    *)
(* and so there is room.                                                   *)
RoomInv == Receiving /\ reading \in {"idle", "recv"} => Room > 0

StreamInv ==
  /\ StreamTypeOK /\ FlushInv /\ QueueInv
  /\ NoSplit => WireInv /\ RoomInv

-----------------------------------------------------------------------------
(* The wire as a sequence.                                                 *)

LEMMA WireSeq ==
  ASSUME readBuf \in Seq(Cell), socket \in Seq(Cell)
  PROVE  /\ Wire \in Seq(Cell)
         /\ Len(Wire) = Len(readBuf) + Len(socket)
         /\ \A i \in 1 .. Len(readBuf) : Wire[i] = readBuf[i]
         /\ \A i \in 1 .. Len(socket) : Wire[Len(readBuf) + i] = socket[i]
         /\ Wire = <<>> <=> Len(Wire) = 0
BY DEF Wire

LEMMA CellParts ==
  ASSUME NEW c \in Cell
  PROVE  /\ c = <<c[1], c[2], c[3]>>
         /\ c[1] \in 1 .. MaxPackets /\ c[2] \in Lengths /\ c[3] \in Nat
         /\ c[2] \in Nat /\ c[2] >= HeaderSize /\ c[2] <= ReadBufSize
         /\ HeaderSize \in Nat /\ HeaderSize >= 1
<1>1. c = <<c[1], c[2], c[3]>> /\ c[1] \in 1 .. MaxPackets /\ c[2] \in Lengths /\ c[3] \in Nat
  BY DEF Cell
<1>2. c[2] \in HeaderSize .. ReadBufSize /\ HeaderSize \in Nat \ {0} /\ ReadBufSize \in Nat
  BY <1>1, StreamAssumption
<1> QED
  BY <1>1, <1>2

LEMMA PacketCells ==
  ASSUME NEW p \in Packets
  PROVE  /\ p.id \in 1 .. MaxPackets /\ p.len \in Lengths /\ p.len \in Nat
         /\ p.len >= 1 /\ p.len <= ReadBufSize
         /\ Cells(p) \in Seq(Cell) /\ Len(Cells(p)) = p.len
         /\ \A k \in 1 .. p.len : Cells(p)[k] = <<p.id, p.len, k>>
<1>1. /\ p.id \in 1 .. MaxPackets /\ p.len \in Lengths /\ p.len \in Nat
      /\ p.len >= 1 /\ p.len <= ReadBufSize
  <2>1. p.id \in 1 .. MaxPackets /\ p.len \in Lengths
    BY DEF Packets
  <2>2. p.len \in HeaderSize .. ReadBufSize /\ HeaderSize \in Nat \ {0} /\ ReadBufSize \in Nat
    BY <2>1, StreamAssumption
  <2> QED
    BY <2>1, <2>2
<1>2. \A k \in 1 .. p.len : <<p.id, p.len, k>> \in Cell
  BY <1>1 DEF Cell
<1>3. Cells(p) \in [1 .. p.len -> Cell]
  BY <1>2 DEF Cells
<1>4. Cells(p) \in Seq(Cell) /\ Len(Cells(p)) = p.len
  BY <1>1, <1>3
<1> QED
  BY <1>1, <1>4 DEF Cells

(* What recv() takes off the socket stays on the wire.                     *)
LEMMA MovedWithin ==
  ASSUME NEW S, NEW s \in Seq(S), NEW t \in Seq(S), NEW n \in 1 .. Len(t)
  PROVE  (s \o SubSeq(t, 1, n)) \o SubSeq(t, n + 1, Len(t)) = s \o t
<1> DEFINE l == SubSeq(t, 1, n)
           r == SubSeq(t, n + 1, Len(t))
<1>1. /\ l \in Seq(S) /\ Len(l) = n
      /\ \A i \in 1 .. n : l[i] = t[i]
  OBVIOUS
<1>2. /\ r \in Seq(S) /\ Len(r) = Len(t) - n
      /\ \A i \in 1 .. Len(t) - n : r[i] = t[n + i]
  OBVIOUS
<1> HIDE DEF l, r
<1>3. /\ l \o r \in Seq(S) /\ Len(l \o r) = Len(t)
      /\ \A i \in 1 .. Len(t) :
           (l \o r)[i] = IF i <= n THEN l[i] ELSE r[i - n]
  <2>1. /\ l \o r \in Seq(S) /\ Len(l \o r) = Len(l) + Len(r)
        /\ \A i \in 1 .. Len(l) + Len(r) :
             (l \o r)[i] = IF i <= Len(l) THEN l[i] ELSE r[i - Len(l)]
    BY <1>1, <1>2, ConcatProperties
  <2>2. Len(l) + Len(r) = Len(t)
    BY <1>1, <1>2
  <2> QED
    BY <1>1, <2>1, <2>2
<1>4. \A i \in 1 .. Len(t) : i > n => i - n \in 1 .. Len(t) - n /\ n + (i - n) = i
  OBVIOUS
<1>5. \A i \in 1 .. Len(t) : (l \o r)[i] = t[i]
  BY <1>1, <1>2, <1>3, <1>4
<1>6. l \o r = t
  BY <1>3, <1>5, SeqEqual
<1>7. (s \o l) \o r = s \o t
  <2>1. l \in Seq(S) /\ r \in Seq(S)
    BY <1>1, <1>2
  <2>2. (s \o l) \o r = s \o (l \o r)
    BY <2>1, ConcatAssociative, SMTT(30)
  <2> QED
    BY <1>6, <2>2
<1> QED
  BY <1>7 DEF l, r

-----------------------------------------------------------------------------
(* What becomes of a packet on the wire as the wire changes.               *)

(* A wire that stays, or loses what is in the socket                       *)
LEMMA ShortensWire ==
  ASSUME NEW i \in 1 .. Len(Wire)', InPacket(i),
         Wire \in Seq(Cell), Wire' \in Seq(Cell), Len(Wire)' <= Len(Wire),
         \A j \in 1 .. Len(Wire)' : Wire'[j] = Wire[j]
  PROVE  InPacket(i)'
<1> DEFINE id == Wire[i][1]  len == Wire[i][2]  first == i - Wire[i][3] + 1
<1>1. Wire[i] \in Cell /\ Wire'[i] = Wire[i] /\ len \in Nat /\ first \in Int
      /\ Len(Wire) \in Nat /\ Len(Wire)' \in Nat
  <2>1. i \in 1 .. Len(Wire) /\ Wire[i] \in Cell
    OBVIOUS
  <2>2. Wire[i][2] \in Nat /\ Wire[i][3] \in Nat
    BY <2>1, CellParts
  <2> QED
    BY <2>1, <2>2
<1>2. /\ first \in 1 .. i /\ i < first + len
      /\ \A j \in first .. first + len - 1 :
           j <= Len(Wire) => Wire[j] = <<id, len, j - first + 1>>
      /\ first + len <= Len(Wire) =>
           Wire[first + len][1] = id + 1 /\ Wire[first + len][3] = 1
  BY DEF InPacket
<1> HIDE DEF id, len, first
<1>3. \A j \in first .. first + len - 1 :
        j <= Len(Wire)' => Wire'[j] = <<id, len, j - first + 1>>
  <2> SUFFICES ASSUME NEW j \in first .. first + len - 1, j <= Len(Wire)'
               PROVE  Wire'[j] = <<id, len, j - first + 1>>
    OBVIOUS
  <2>1. j \in 1 .. Len(Wire)' /\ j <= Len(Wire)
    BY <1>1, <1>2
  <2>2. Wire'[j] = Wire[j]
    BY <2>1
  <2> QED
    BY <1>2, <2>1, <2>2
<1>4. first + len <= Len(Wire)' =>
        Wire'[first + len][1] = id + 1 /\ Wire'[first + len][3] = 1
  <2> SUFFICES ASSUME first + len <= Len(Wire)'
               PROVE  Wire'[first + len][1] = id + 1 /\ Wire'[first + len][3] = 1
    OBVIOUS
  <2>1. first + len \in 1 .. Len(Wire)' /\ first + len <= Len(Wire)
    BY <1>1, <1>2
  <2>2. Wire'[first + len] = Wire[first + len]
    BY <2>1
  <2> QED
    BY <1>2, <2>1, <2>2
<1> QED
  BY <1>1, <1>2, <1>3, <1>4 DEF InPacket, id, len, first

(* The packet at the front is taken off.                                   *)
LEMMA TakesOffWire ==
  ASSUME Wire \in Seq(Cell), Wire' \in Seq(Cell),
         NEW n \in 1 .. Len(Wire), Len(Wire)' = Len(Wire) - n,
         \A j \in 1 .. Len(Wire)' : Wire'[j] = Wire[n + j],
         n < Len(Wire) => Wire[n + 1][3] = 1,
         NEW i \in 1 .. Len(Wire)', InPacket(n + i)
  PROVE  InPacket(i)'
<1> DEFINE m == n + i
           id == Wire[m][1]  len == Wire[m][2]  first == m - Wire[m][3] + 1
<1>1. m \in 1 .. Len(Wire) /\ Wire[m] \in Cell /\ Wire'[i] = Wire[m]
      /\ len \in Nat /\ Wire[m][3] \in Nat /\ first \in Int
      /\ Len(Wire) \in Nat /\ Len(Wire)' \in Nat
  <2>1. m \in 1 .. Len(Wire) /\ Wire[m] \in Cell
    OBVIOUS
  <2>2. Wire[m][2] \in Nat /\ Wire[m][3] \in Nat
    BY <2>1, CellParts
  <2> QED
    BY <2>1, <2>2
<1>2. /\ first \in 1 .. m /\ m < first + len
      /\ \A j \in first .. first + len - 1 :
           j <= Len(Wire) => Wire[j] = <<id, len, j - first + 1>>
      /\ first + len <= Len(Wire) =>
           Wire[first + len][1] = id + 1 /\ Wire[first + len][3] = 1
  BY DEF InPacket
<1>3. m = n + i
  OBVIOUS
<1>4. i - Wire[m][3] + 1 = first - n
  <2>1. Wire[m][3] \in Nat /\ first = m - Wire[m][3] + 1
    BY <1>1
  <2> HIDE DEF m, first
  <2> QED
    BY <1>3, <2>1
<1> HIDE DEF id, len, first, m
<1>5. first > n
  <2> SUFFICES ASSUME first <= n PROVE FALSE
    BY <1>1
  <2>1. n + 1 \in first .. first + len - 1 /\ n + 1 <= Len(Wire) /\ n < Len(Wire)
    BY <1>1, <1>2, <1>3
  <2>2. Wire[n + 1] = <<id, len, n + 1 - first + 1>>
    BY <1>2, <2>1
  <2>3. Wire[n + 1][3] = n + 1 - first + 1
    BY <2>2
  <2> QED
    BY <1>1, <2>1, <2>3
<1>6. first - n \in 1 .. i /\ i < first - n + len
  BY <1>1, <1>2, <1>3, <1>5
<1>7. ASSUME NEW j \in first - n .. first - n + len - 1, j <= Len(Wire)'
      PROVE  Wire'[j] = <<id, len, j - (first - n) + 1>>
  <2>0. /\ j \in Int /\ first \in Int /\ len \in Int /\ n \in Int
        /\ Len(Wire) \in Int /\ Len(Wire)' \in Int
        /\ first > n /\ j >= first - n /\ j <= first - n + len - 1
        /\ j <= Len(Wire)' /\ Len(Wire)' = Len(Wire) - n
    BY <1>1, <1>5, <1>7
  <2>1. /\ j \in 1 .. Len(Wire)' /\ n + j \in first .. first + len - 1
        /\ n + j <= Len(Wire) /\ (n + j) - first + 1 = j - (first - n) + 1
    BY <2>0
  <2> QED
    BY <1>2, <2>1
<1>8. ASSUME first - n + len <= Len(Wire)'
      PROVE  Wire'[first - n + len][1] = id + 1 /\ Wire'[first - n + len][3] = 1
  <2>1. /\ first - n + len \in 1 .. Len(Wire)' /\ n + (first - n + len) = first + len
        /\ first + len <= Len(Wire)
    BY <1>1, <1>5, <1>6, <1>8
  <2> QED
    BY <1>2, <2>1
<1> QED
  BY <1>1, <1>4, <1>6, <1>7, <1>8 DEF InPacket, id, len

(* When the wire ends with the end of a packet, every packet on it is      *)
(* there to its end.                                                       *)
LEMMA EndsWithin ==
  ASSUME Wire \in Seq(Cell), NEW i \in 1 .. Len(Wire), InPacket(i),
         Wire[Len(Wire)][3] = Wire[Len(Wire)][2]
  PROVE  LET first == i - Wire[i][3] + 1
         IN  /\ first + Wire[i][2] <= Len(Wire) + 1
             /\ first + Wire[i][2] = Len(Wire) + 1 =>
                  Wire[Len(Wire)][1] = Wire[i][1]
<1> DEFINE L == Len(Wire)
           id == Wire[i][1]  len == Wire[i][2]  first == i - Wire[i][3] + 1
<1>1. L \in Nat /\ Wire[i] \in Cell /\ len \in Nat /\ Wire[i][3] \in Nat /\ first \in Int
  <2>1. L \in Nat /\ Wire[i] \in Cell
    OBVIOUS
  <2>2. Wire[i][2] \in Nat /\ Wire[i][3] \in Nat
    BY <2>1, CellParts
  <2> QED
    BY <2>1, <2>2
<1>2. /\ first \in 1 .. i /\ i < first + len
      /\ \A j \in first .. first + len - 1 :
           j <= L => Wire[j] = <<id, len, j - first + 1>>
  BY DEF InPacket
<1> HIDE DEF id, len, first
<1>3. ASSUME first + len >= L + 1
      PROVE  first + len = L + 1 /\ Wire[L][1] = id
  <2>1. L \in first .. first + len - 1 /\ L <= L
    BY <1>1, <1>2, <1>3
  <2>2. Wire[L] = <<id, len, L - first + 1>>
    BY <1>2, <2>1
  <2>3. Wire[L][1] = id /\ Wire[L][2] = len /\ Wire[L][3] = L - first + 1
    BY <2>2
  <2> QED
    BY <1>1, <1>2, <2>3
<1> QED
  BY <1>1, <1>2, <1>3 DEF id, len, first

(* A whole packet is put behind, the one that follows.                     *)
LEMMA ExtendsWire ==
  ASSUME Wire \in Seq(Cell), NEW p \in Packets, Wire' = Wire \o Cells(p),
         \A i \in 1 .. Len(Wire) : InPacket(i),
         Wire # <<>> => LET last == Wire[Len(Wire)]
                        IN  p.id = last[1] + 1 /\ last[3] = last[2]
  PROVE  /\ \A i \in 1 .. Len(Wire)' : InPacket(i)'
         /\ Wire' \in Seq(Cell) /\ Len(Wire)' = Len(Wire) + p.len
         /\ \A i \in 1 .. Len(Wire) : Wire'[i] = Wire[i]
         /\ \A k \in 1 .. p.len : Wire'[Len(Wire) + k] = <<p.id, p.len, k>>
<1> DEFINE L == Len(Wire)
<1>0. /\ p.id \in 1 .. MaxPackets /\ p.len \in Nat /\ p.len >= 1 /\ L \in Nat
      /\ Cells(p) \in Seq(Cell) /\ Len(Cells(p)) = p.len
      /\ \A k \in 1 .. p.len : Cells(p)[k] = <<p.id, p.len, k>>
  BY PacketCells
<1>1. /\ Wire' \in Seq(Cell) /\ Len(Wire)' = L + p.len
      /\ \A i \in 1 .. L + p.len :
           Wire'[i] = IF i <= L THEN Wire[i] ELSE Cells(p)[i - L]
  <2> DEFINE t == Cells(p)
  <2>1. t \in Seq(Cell) /\ Len(t) = p.len /\ Wire' = Wire \o t
    BY <1>0
  <2> HIDE DEF t
  <2>2. /\ Wire \o t \in Seq(Cell) /\ Len(Wire \o t) = Len(Wire) + Len(t)
        /\ \A i \in 1 .. Len(Wire) + Len(t) :
             (Wire \o t)[i] = IF i <= Len(Wire) THEN Wire[i] ELSE t[i - Len(Wire)]
    BY <2>1, ConcatProperties
  <2>3. Len(Wire)' = L + p.len /\ Wire' \in Seq(Cell)
    BY <2>1, <2>2
  <2> QED
    BY <2>1, <2>2, <2>3 DEF t
<1>2. \A i \in 1 .. L : Wire'[i] = Wire[i]
  BY <1>0, <1>1
<1>3. ASSUME NEW k \in 1 .. p.len
      PROVE  Wire'[L + k] = <<p.id, p.len, k>>
  <2>1. L + k \in 1 .. L + p.len /\ ~(L + k <= L) /\ L + k - L = k
    BY <1>0
  <2> QED
    BY <1>0, <1>1, <2>1
<1> HIDE DEF L
<1>4. ASSUME NEW i \in 1 .. L
      PROVE  InPacket(i)'
  <2> DEFINE id == Wire[i][1]  len == Wire[i][2]  first == i - Wire[i][3] + 1
  <2>1. Wire[i] \in Cell /\ Wire'[i] = Wire[i] /\ len \in Nat /\ Wire[i][3] \in Nat
        /\ first \in Int /\ Wire # <<>>
    <3>1. Wire[i] \in Cell /\ Wire # <<>>
      BY <1>0 DEF L
    <3>2. Wire[i][2] \in Nat /\ Wire[i][3] \in Nat
      BY <3>1, CellParts
    <3> QED
      <4>1. Wire'[i] = Wire[i]
        BY <1>2
      <4>2. i \in Int /\ len \in Nat /\ Wire[i][3] \in Nat
        BY <1>0, <3>2
      <4> HIDE DEF len
      <4>3. first \in Int
        BY <4>2
      <4> QED
        BY <3>1, <4>1, <4>2, <4>3
  <2>2. /\ first \in 1 .. i /\ i < first + len
        /\ \A j \in first .. first + len - 1 :
             j <= L => Wire[j] = <<id, len, j - first + 1>>
        /\ first + len <= L =>
             Wire[first + len][1] = id + 1 /\ Wire[first + len][3] = 1
    BY DEF InPacket, L
  <2>3. /\ first + len <= L + 1
        /\ first + len = L + 1 => Wire[L][1] = id
    BY <2>1, EndsWithin DEF L
  <2> HIDE DEF id, len, first
  <2>4. ASSUME NEW j \in first .. first + len - 1, j <= Len(Wire)'
        PROVE  Wire'[j] = <<id, len, j - first + 1>>
    <3>1. j \in 1 .. L
      BY <1>0, <2>1, <2>2, <2>3
    <3> QED
      <4>1. Wire'[j] = Wire[j]
        BY <1>2, <3>1, Zenon
      <4>2. Wire[j] = <<id, len, j - first + 1>>
        <5>1. j <= L
          BY <1>0, <3>1
        <5> QED
          BY <2>2, <5>1
      <4> QED
        BY <4>1, <4>2
  <2>5. CASE first + len <= L
    <3>1. first + len \in 1 .. L
      BY <1>0, <2>1, <2>2, <2>5
    <3> QED
      BY <1>2, <2>1, <2>2, <2>4, <2>5, <3>1 DEF InPacket, id, len, first
  <2>6. CASE first + len = L + 1
    <3>1. 1 \in 1 .. p.len /\ Wire[L][1] = id /\ p.id = id + 1
      BY <1>0, <2>1, <2>3, <2>6 DEF L
    <3>2. Wire'[first + len] = <<id + 1, p.len, 1>>
      BY <1>3, <2>6, <3>1
    <3>3. Wire'[first + len][1] = id + 1 /\ Wire'[first + len][3] = 1
      BY <3>2
    <3> QED
      BY <2>1, <2>2, <2>4, <3>3 DEF InPacket, id, len, first
  <2> QED
    <3>1. first + len <= L \/ first + len = L + 1
      BY <1>0, <2>1, <2>3
    <3> QED
      BY <2>5, <2>6, <3>1
<1>5. ASSUME NEW i \in 1 .. L + p.len, i > L
      PROVE  InPacket(i)'
  <2> DEFINE k == i - L
  <2>0. k \in 1 .. p.len /\ L + k = i
    BY <1>0, <1>5
  <2>1. Wire'[i] = <<p.id, p.len, k>>
    BY <1>3, <2>0
  <2>2. /\ Wire'[i][1] = p.id /\ Wire'[i][2] = p.len
        /\ i - Wire'[i][3] + 1 = L + 1
    BY <1>0, <1>5, <2>1
  <2>3. L + 1 \in 1 .. i /\ i < L + 1 + p.len /\ ~(L + 1 + p.len <= Len(Wire)')
    BY <1>0, <1>1, <1>5
  <2>4. ASSUME NEW j \in L + 1 .. L + 1 + p.len - 1
        PROVE  Wire'[j] = <<p.id, p.len, j - (L + 1) + 1>>
    <3>1. j - L \in 1 .. p.len /\ L + (j - L) = j /\ j - (L + 1) + 1 = j - L
      BY <1>0
    <3> QED
      BY <1>3, <3>1
  <2> QED
    BY <2>2, <2>3, <2>4 DEF InPacket
<1>6. ASSUME NEW i \in 1 .. L + p.len
      PROVE  InPacket(i)'
  <2>1. CASE i <= L
    BY <1>0, <1>4, <2>1
  <2>2. CASE i > L
    BY <1>5, <2>2
  <2> QED
    BY <1>0, <2>1, <2>2
<1> QED
  BY <1>1, <1>2, <1>3, <1>6 DEF L

(* The first packet on the wire, as far as the buffer holds it.            *)
LEMMA FrontPacket ==
  ASSUME readBuf \in Seq(Cell), socket \in Seq(Cell), readBuf # <<>>,
         \A i \in 1 .. Len(Wire) : InPacket(i)
  PROVE  /\ readBuf[1] = Wire[1] /\ readBuf[1] \in Cell /\ readBuf[1][3] = 1
         /\ \A k \in 1 .. readBuf[1][2] :
              k <= Len(Wire) => Wire[k] = <<readBuf[1][1], readBuf[1][2], k>>
         /\ \A k \in 1 .. readBuf[1][2] :
              k <= Len(readBuf) => readBuf[k] = <<readBuf[1][1], readBuf[1][2], k>>
         /\ readBuf[1][2] + 1 <= Len(Wire) =>
              /\ Wire[readBuf[1][2] + 1][1] = readBuf[1][1] + 1
              /\ Wire[readBuf[1][2] + 1][3] = 1
<1> DEFINE id == Wire[1][1]  len == Wire[1][2]  first == 1 - Wire[1][3] + 1
<1>1. /\ 1 \in 1 .. Len(readBuf) /\ readBuf[1] \in Cell /\ Wire[1] = readBuf[1]
      /\ 1 \in 1 .. Len(Wire) /\ Len(Wire) \in Nat /\ Len(readBuf) \in Nat
      /\ Len(readBuf) <= Len(Wire)
  <2>1. 1 \in 1 .. Len(readBuf) /\ readBuf[1] \in Cell
    OBVIOUS
  <2> QED
    BY <2>1, WireSeq
<1>2. len \in Nat /\ Wire[1][3] \in Nat
  BY <1>1, CellParts
<1>3. /\ first \in 1 .. 1
      /\ \A j \in first .. first + len - 1 :
           j <= Len(Wire) => Wire[j] = <<id, len, j - first + 1>>
      /\ first + len <= Len(Wire) =>
           Wire[first + len][1] = id + 1 /\ Wire[first + len][3] = 1
  BY <1>1 DEF InPacket
<1>4. first = 1 /\ Wire[1][3] = 1
  BY <1>2, <1>3
<1> HIDE DEF id, len, first
<1>5. ASSUME NEW k \in 1 .. len, k <= Len(Wire)
      PROVE  Wire[k] = <<id, len, k>>
  <2>1. k \in first .. first + len - 1 /\ k - first + 1 = k
    BY <1>2, <1>4
  <2> QED
    BY <1>3, <1>5, <2>1
<1>6. len + 1 <= Len(Wire) => Wire[len + 1][1] = id + 1 /\ Wire[len + 1][3] = 1
  <2>1. first + len = len + 1
    BY <1>2, <1>4
  <2> QED
    BY <1>3, <2>1
<1>7. \A k \in 1 .. len : k <= Len(readBuf) => readBuf[k] = <<id, len, k>>
  <2> SUFFICES ASSUME NEW k \in 1 .. len, k <= Len(readBuf)
               PROVE  readBuf[k] = <<id, len, k>>
    OBVIOUS
  <2>1. k \in 1 .. Len(readBuf) /\ k <= Len(Wire)
    BY <1>1, <1>2
  <2> QED
    BY <1>5, <2>1, WireSeq
<1> QED
  BY <1>1, <1>4, <1>5, <1>6, <1>7 DEF id, len

-----------------------------------------------------------------------------
(* Types, the queue, and the flush.                                        *)

SenderInv == StreamTypeOK /\ FlushInv /\ QueueInv

LEMMA QueueHead ==
  ASSUME queue \in Seq(Packets), queue # <<>>
  PROVE  /\ Head(queue) \in Packets /\ Head(queue) = queue[1] /\ 1 \in 1 .. Len(queue)
         /\ Tail(queue) \in Seq(Packets) /\ Len(Tail(queue)) = Len(queue) - 1
         /\ \A i \in 1 .. Len(queue) - 1 : Tail(queue)[i] = queue[i + 1]
         /\ Tail(queue) = <<>> <=> Len(queue) = 1
<1>1. /\ Head(queue) \in Packets /\ Head(queue) = queue[1] /\ Len(queue) \in Nat
      /\ Len(queue) >= 1
  OBVIOUS
<1>2. /\ Tail(queue) \in Seq(Packets) /\ Len(Tail(queue)) = Len(queue) - 1
      /\ \A i \in 1 .. Len(queue) - 1 : Tail(queue)[i] = queue[i + 1]
  OBVIOUS
<1>3. Tail(queue) = <<>> <=> Len(Tail(queue)) = 0
  BY <1>2
<1> QED
  BY <1>1, <1>2, <1>3

LEMMA QueuePacketStep ==
  ASSUME SenderInv, QueuePacket
  PROVE  SenderInv' /\ NumSent' = NumSent
<1>1. PICK len \in Lengths : queue' = Append(queue, [id |-> queued + 1, len |-> len])
  BY DEF QueuePacket, Linked
<1>2. /\ queue \in Seq(Packets) /\ queued \in 0 .. MaxPackets /\ queued < MaxPackets
      /\ MaxPackets \in Nat /\ ~flushing /\ unsent \in Nat /\ unsent = 0
      /\ Len(queue) \in Nat
  BY StreamAssumption DEF SenderInv, StreamTypeOK, FlushInv, QueuePacket
<1> DEFINE p == [id |-> queued + 1, len |-> len]
<1>3. p \in Packets /\ p.id = queued + 1
  BY <1>2 DEF Packets
<1> HIDE DEF p
<1>4. /\ queue' \in Seq(Packets) /\ Len(queue') = Len(queue) + 1
      /\ \A i \in 1 .. Len(queue) : queue'[i] = queue[i]
      /\ queue'[Len(queue) + 1] = p
  BY <1>1, <1>2, <1>3 DEF p
<1>5. StreamTypeOK'
  BY <1>2, <1>4 DEF SenderInv, StreamTypeOK, QueuePacket, readVars
<1>6. FlushInv'
  BY <1>2 DEF FlushInv, QueuePacket
<1>7. NumSent' = NumSent
  BY <1>2, <1>4 DEF NumSent, QueuePacket
<1>8. QueueInv'
  <2>1. Len(queue') <= queued'
    BY <1>2, <1>4 DEF SenderInv, QueueInv, QueuePacket
  <2>2. ASSUME NEW i \in 1 .. Len(queue') PROVE queue'[i].id = NumSent + i
    <3>1. CASE i <= Len(queue)
      BY <1>2, <1>4, <3>1 DEF SenderInv, QueueInv
    <3>2. CASE i = Len(queue) + 1
      <4>1. queue'[i].id = queued + 1
        BY <1>3, <1>4, <3>2
      <4> QED
        BY <1>2, <3>2, <4>1 DEF NumSent
    <3> QED
      BY <1>2, <1>4, <3>1, <3>2
  <2> QED
    BY <1>7, <2>1, <2>2 DEF QueueInv
<1> QED
  BY <1>5, <1>6, <1>7, <1>8 DEF SenderInv

LEMMA FlushQueueStep ==
  ASSUME SenderInv, FlushQueue
  PROVE  SenderInv' /\ NumSent' = NumSent
<1>1. Head(queue) \in Packets /\ Head(queue).len \in Nat /\ Head(queue).len >= 1
  BY QueueHead, PacketCells DEF SenderInv, StreamTypeOK, FlushQueue
<1>2. StreamTypeOK' /\ FlushInv' /\ NumSent' = NumSent
  BY <1>1 DEF SenderInv, StreamTypeOK, FlushInv, NoSplit, NumSent, FlushQueue, readVars
<1> QED
  BY <1>2 DEF SenderInv, QueueInv, FlushQueue

(* The head of the queue is sent to its end.                               *)
LEMMA SentStep ==
  ASSUME SenderInv, queue # <<>>, Sent, queued' = queued, splits' = splits
  PROVE  /\ QueueInv' /\ FlushInv' /\ NumSent' = NumSent + 1
         /\ queue' \in Seq(Packets) /\ unsent' \in Nat /\ flushing' \in BOOLEAN
<1>1. /\ queue \in Seq(Packets) /\ queued \in Nat /\ Len(queue) \in Nat
  BY StreamAssumption DEF SenderInv, StreamTypeOK
<1>2. /\ queue' \in Seq(Packets) /\ Len(queue') = Len(queue) - 1
      /\ \A i \in 1 .. Len(queue) - 1 : queue'[i] = queue[i + 1]
      /\ queue' = Tail(queue)
  BY <1>1, QueueHead DEF Sent
<1>3. NumSent' = NumSent + 1 /\ NumSent \in Int
  BY <1>1, <1>2 DEF NumSent
<1>4. QueueInv'
  <2>1. ASSUME NEW i \in 1 .. Len(queue') PROVE queue'[i].id = NumSent' + i
    <3>1. i + 1 \in 1 .. Len(queue) /\ i \in 1 .. Len(queue) - 1
      BY <1>1, <1>2
    <3>2. queue[i + 1].id = NumSent + (i + 1)
      BY <3>1 DEF SenderInv, QueueInv
    <3> QED
      BY <1>2, <1>3, <3>1, <3>2
  <2>2. Len(queue') <= queued'
    BY <1>1, <1>2 DEF SenderInv, QueueInv
  <2> QED
    BY <2>1, <2>2 DEF QueueInv
<1>5. FlushInv' /\ unsent' \in Nat /\ flushing' \in BOOLEAN
  <2>1. CASE queue' = <<>>
    BY <1>2, <2>1 DEF FlushInv, Sent
  <2>2. CASE queue' # <<>>
    <3>1. Head(queue') \in Packets
      BY <1>2, <2>2
    <3>2. Head(queue').len \in Nat /\ Head(queue').len >= 1
      BY <3>1, PacketCells
    <3>3. flushing' = TRUE /\ unsent' = Head(queue').len
      BY <1>2, <2>2 DEF Sent
    <3>4. unsent' # 0 /\ unsent' <= Head(queue').len
      BY <3>2, <3>3
    <3> QED
      BY <2>2, <3>2, <3>3, <3>4 DEF FlushInv
  <2> QED
    BY <2>1, <2>2
<1> QED
  BY <1>2, <1>3, <1>4, <1>5

LEMMA SendSomeStep ==
  ASSUME SenderInv, SendSome
  PROVE  /\ SenderInv'
         /\ NoSplit' => NoSplit /\ NumSent' = NumSent + 1
                        /\ socket' = socket \o Cells(Head(queue))
<1>1. PICK n \in 1 .. unsent :
        /\ Len(socket) + n <= SocketSize
        /\ socket' = socket \o SubSeq(Cells(Head(queue)), 1, n)
        /\ IF n = unsent THEN Sent /\ UNCHANGED splits
           ELSE /\ splits < MaxSplits
                /\ splits' = splits + 1
                /\ unsent' = unsent - n
                /\ UNCHANGED <<queue, flushing>>
  BY DEF SendSome
<1> DEFINE h == Head(queue)
<1>2. /\ queue # <<>> /\ h \in Packets /\ unsent \in Nat /\ unsent <= h.len
      /\ flushing = TRUE /\ splits \in Nat /\ splits <= MaxSplits
      /\ socket \in Seq(Cell) /\ queue \in Seq(Packets)
  BY QueueHead, StreamAssumption DEF SenderInv, StreamTypeOK, FlushInv, SendSome
<1>3. /\ h.len \in Nat /\ Cells(h) \in Seq(Cell) /\ Len(Cells(h)) = h.len
  BY <1>2, PacketCells
<1> HIDE DEF h
<1>4. n \in 1 .. Len(Cells(h))
  BY <1>2, <1>3
<1>5. /\ SubSeq(Cells(h), 1, n) \in Seq(Cell)
      /\ Len(SubSeq(Cells(h), 1, n)) = n
  BY <1>3, <1>4
<1>6. socket' \in Seq(Cell) /\ Len(socket') <= SocketSize
  <2>1. socket' = socket \o SubSeq(Cells(h), 1, n)
    BY <1>1 DEF h
  <2>2. socket' \in Seq(Cell) /\ Len(socket') = Len(socket) + n
    BY <1>2, <1>5, <2>1, ConcatProperties
  <2> QED
    BY <1>1, <2>2
<1>7. CASE n = unsent
  <2>1. Sent /\ splits' = splits /\ queued' = queued
    BY <1>1, <1>7 DEF SendSome
  <2>2. /\ QueueInv' /\ FlushInv' /\ NumSent' = NumSent + 1
        /\ queue' \in Seq(Packets) /\ unsent' \in Nat /\ flushing' \in BOOLEAN
    BY <1>2, <2>1, SentStep
  <2>3. StreamTypeOK'
    BY <1>6, <2>1, <2>2 DEF SenderInv, StreamTypeOK, SendSome, readVars
  <2>4. NoSplit' => n = Len(Cells(h))
    BY <1>2, <1>3, <1>7, <2>1 DEF SenderInv, FlushInv, NoSplit, h
  <2>5. n = Len(Cells(h)) => SubSeq(Cells(h), 1, n) = Cells(h)
    BY <1>3
  <2>6. NoSplit' => socket' = socket \o Cells(h)
    BY <1>1, <2>4, <2>5 DEF h
  <2> QED
    BY <2>1, <2>2, <2>3, <2>6 DEF SenderInv, NoSplit, h
<1>8. CASE n # unsent
  <2>1. /\ splits < MaxSplits /\ splits' = splits + 1
        /\ unsent' = unsent - n /\ queue' = queue /\ flushing' = flushing
        /\ queued' = queued
    BY <1>1, <1>8 DEF SendSome
  <2>2. unsent' \in Nat /\ unsent' # 0 /\ unsent' <= unsent /\ splits' \in 0 .. MaxSplits
        /\ ~NoSplit'
    BY <1>2, <1>8, <2>1, StreamAssumption DEF NoSplit
  <2>3. StreamTypeOK'
    BY <1>6, <2>1, <2>2 DEF SenderInv, StreamTypeOK, SendSome, readVars
  <2>4. FlushInv'
    BY <1>2, <1>3, <2>1, <2>2 DEF FlushInv, h
  <2>5. QueueInv'
    BY <2>1 DEF SenderInv, QueueInv, NumSent
  <2> QED
    BY <2>2, <2>3, <2>4, <2>5 DEF SenderInv
<1> QED
  BY <1>7, <1>8

LEMMA SocketFullStep ==
  ASSUME SenderInv, SocketFull
  PROVE  SenderInv' /\ NumSent' = NumSent
BY DEF SenderInv, StreamTypeOK, FlushInv, QueueInv, NumSent, NoSplit, SocketFull, readVars

LEMMA SenderClosesStep ==
  ASSUME SenderInv, SenderCloses
  PROVE  SenderInv' /\ NumSent' >= NumSent /\ NumSent \in Int /\ NumSent' \in Int
<1>1. /\ queue \in Seq(Packets) /\ Len(queue) \in Nat /\ Len(queue) <= queued
      /\ queued \in Nat /\ socket \in Seq(Cell) /\ Len(socket) <= SocketSize
      /\ SocketSize \in Nat
  BY StreamAssumption DEF SenderInv, StreamTypeOK, QueueInv
<1>2. socket' \in Seq(Cell) /\ Len(socket') <= SocketSize
  <2>1. socket' = socket \/ socket' = <<>>
    BY DEF SenderCloses
  <2>2. <<>> \in Seq(Cell) /\ Len(<<>>) = 0
    OBVIOUS
  <2>3. CASE socket' = socket
    BY <1>1, <2>3
  <2>4. CASE socket' = <<>>
    <3>1. 0 <= SocketSize
      BY <1>1
    <3> QED
      BY <2>2, <2>4, <3>1
  <2> QED
    BY <2>1, <2>3, <2>4
<1>3. queue' = <<>> /\ queue' \in Seq(Packets) /\ Len(queue') = 0
  BY DEF SenderCloses
<1>4. StreamTypeOK' /\ FlushInv'
  BY <1>2, <1>3 DEF SenderInv, StreamTypeOK, FlushInv, SenderCloses, readVars
<1>5. QueueInv' /\ NumSent' >= NumSent /\ NumSent \in Int /\ NumSent' \in Int
  BY <1>1, <1>3 DEF QueueInv, NumSent, SenderCloses
<1> QED
  BY <1>4, <1>5 DEF SenderInv

(* A step of the receiver that leaves the types of its variables.          *)
LEMMA ReceiverStep ==
  ASSUME SenderInv, UNCHANGED <<sendVars, splits>>,
         socket' \in Seq(Cell), Len(socket') <= SocketSize,
         readBuf' \in Seq(Cell), Len(readBuf') <= ReadBufSize,
         reading' \in {"idle", "recv", "parse", "parsed"},
         handled' \in Seq(1 .. MaxPackets \cup {Garbled}),
         closed' \subseteq {"sender", "receiver"}
  PROVE  SenderInv' /\ NumSent' = NumSent
BY DEF SenderInv, StreamTypeOK, FlushInv, QueueInv, NumSent, NoSplit, sendVars

LEMMA RecvStep ==
  ASSUME SenderInv, Recv
  PROVE  SenderInv' /\ NumSent' = NumSent /\ Wire' = Wire
<1>1. PICK n \in 1 .. Room :
        /\ n <= Len(socket)
        /\ readBuf' = readBuf \o SubSeq(socket, 1, n)
        /\ socket' = SubSeq(socket, n + 1, Len(socket))
  BY DEF Recv
<1>2. /\ readBuf \in Seq(Cell) /\ socket \in Seq(Cell) /\ Len(socket) \in Nat
      /\ Len(readBuf) \in Nat /\ Len(readBuf) <= ReadBufSize /\ Len(socket) <= SocketSize
      /\ ReadBufSize \in Nat /\ SocketSize \in Nat
  BY StreamAssumption DEF SenderInv, StreamTypeOK
<1>3. n \in 1 .. Len(socket) /\ n <= ReadBufSize - Len(readBuf)
  BY <1>1, <1>2 DEF Room
<1>4. /\ SubSeq(socket, 1, n) \in Seq(Cell) /\ Len(SubSeq(socket, 1, n)) = n
      /\ socket' \in Seq(Cell) /\ Len(socket') = Len(socket) - n
  BY <1>1, <1>2, <1>3
<1>5. readBuf' \in Seq(Cell) /\ Len(readBuf') = Len(readBuf) + n
  BY <1>1, <1>2, <1>4, ConcatProperties
<1>6. Wire' = Wire
  BY <1>1, <1>2, <1>3, MovedWithin DEF Wire
<1>7. SenderInv' /\ NumSent' = NumSent
  <2>1. /\ handled \in Seq(1 .. MaxPackets \cup {Garbled})
        /\ closed \subseteq {"sender", "receiver"}
    BY DEF SenderInv, StreamTypeOK
  <2>2. /\ UNCHANGED <<sendVars, splits>> /\ reading' = "parse"
        /\ handled' = handled /\ closed' = closed
    BY DEF Recv
  <2>3. Len(readBuf') <= ReadBufSize /\ Len(socket') <= SocketSize
    BY <1>2, <1>3, <1>4, <1>5
  <2> QED
    BY <1>4, <1>5, <2>1, <2>2, <2>3, ReceiverStep
<1> QED
  BY <1>6, <1>7

(* What a header in the buffer says of a length                            *)
LEMMA Stated ==
  ASSUME SenderInv, HeaderRead, NEW len \in StatedLengths, Complete(len)
  PROVE  /\ readBuf # <<>> /\ readBuf[1] \in Cell
         /\ len \in 1 .. Len(readBuf)
         /\ Content(len) \in 1 .. MaxPackets \cup {Garbled}
<1>1. /\ HeaderSize \in Nat \ {0} /\ Lengths \subseteq HeaderSize .. ReadBufSize
      /\ ReadBufSize \in Nat /\ readBuf \in Seq(Cell) /\ Len(readBuf) \in Nat
      /\ Len(readBuf) >= HeaderSize
  BY StreamAssumption DEF SenderInv, StreamTypeOK, HeaderRead
<1>2. readBuf # <<>> /\ 1 \in 1 .. Len(readBuf) /\ readBuf[1] \in Cell
  BY <1>1
<1>3. readBuf[1][1] \in 1 .. MaxPackets /\ readBuf[1][2] \in Lengths
  BY <1>2, CellParts
<1>4. len \in Lengths \cup {ReadBufSize + 1}
  BY <1>3 DEF StatedLengths
<1>5. len \in Nat /\ len >= 1 /\ len <= Len(readBuf)
  BY <1>1, <1>4 DEF Complete
<1> QED
  BY <1>1, <1>2, <1>3, <1>5 DEF Content

LEMMA HandlePacketStep ==
  ASSUME SenderInv, HandlePacket
  PROVE  /\ SenderInv' /\ NumSent' = NumSent
         /\ \E len \in StatedLengths :
              /\ Complete(len) /\ HeaderRead
              /\ handled' = Append(handled, Content(len))
              /\ readBuf' = SubSeq(readBuf, len + 1, Len(readBuf))
              /\ len \in 1 .. Len(readBuf)
<1>1. PICK len \in StatedLengths :
        /\ Complete(len) /\ HeaderRead
        /\ handled' = Append(handled, Content(len))
        /\ readBuf' = SubSeq(readBuf, len + 1, Len(readBuf))
  BY DEF HandlePacket
<1>2. /\ readBuf \in Seq(Cell) /\ socket \in Seq(Cell) /\ Len(socket) <= SocketSize
      /\ handled \in Seq(1 .. MaxPackets \cup {Garbled})
      /\ Len(readBuf) <= ReadBufSize /\ ReadBufSize \in Nat
      /\ closed \subseteq {"sender", "receiver"}
  BY StreamAssumption DEF SenderInv, StreamTypeOK
<1>3. len \in 1 .. Len(readBuf) /\ Content(len) \in 1 .. MaxPackets \cup {Garbled}
  BY <1>1, Stated
<1>4. handled' \in Seq(1 .. MaxPackets \cup {Garbled})
  BY <1>1, <1>2, <1>3
<1>5. readBuf' \in Seq(Cell) /\ Len(readBuf') <= ReadBufSize
  BY <1>1, <1>2, <1>3
<1>6. SenderInv' /\ NumSent' = NumSent
  BY <1>2, <1>4, <1>5, ReceiverStep DEF HandlePacket
<1> QED
  BY <1>1, <1>3, <1>6

(* The steps of the receiver that move nothing                             *)
LEMMA IdleStep ==
  ASSUME SenderInv,
         \/ DataReady \/ RecvNothing \/ RecvZero \/ Incomplete
         \/ BadPacket \/ ReceiverCloses
  PROVE  /\ SenderInv' /\ NumSent' = NumSent
         /\ readBuf' = readBuf /\ socket' = socket /\ handled' = handled
         /\ splits' = splits /\ (Receiving' => Receiving) /\ (Sending' <=> Sending)
<1>1. /\ readBuf \in Seq(Cell) /\ socket \in Seq(Cell) /\ Len(socket) <= SocketSize
      /\ Len(readBuf) <= ReadBufSize /\ handled \in Seq(1 .. MaxPackets \cup {Garbled})
      /\ closed \subseteq {"sender", "receiver"}
  BY DEF SenderInv, StreamTypeOK
<1>2. /\ readBuf' = readBuf /\ socket' = socket /\ handled' = handled
      /\ UNCHANGED <<sendVars, splits>>
      /\ reading' \in {"idle", "recv", "parse", "parsed"}
      /\ closed' = closed \/ closed' = closed \cup {"receiver"}
  BY DEF DataReady, RecvNothing, RecvZero, Incomplete, BadPacket, ReceiverCloses,
         ReceiverEnds, sendVars
<1>3. SenderInv' /\ NumSent' = NumSent
  BY <1>1, <1>2, ReceiverStep
<1> QED
  BY <1>2, <1>3 DEF Receiving, Sending

-----------------------------------------------------------------------------
(* The wire.                                                               *)

(* Nothing is sent or handled; the wire stays, or the sender has closed    *)
(* and what was in the socket may be gone.                                 *)
LEMMA WireKept ==
  ASSUME WireInv, Wire \in Seq(Cell), Wire' \in Seq(Cell),
         Len(Wire)' <= Len(Wire), \A j \in 1 .. Len(Wire)' : Wire'[j] = Wire[j],
         handled' = handled,
         NumSent \in Int, NumSent' \in Int, NumSent' >= NumSent,
         Sending' => Sending /\ Wire' = Wire /\ NumSent' = NumSent
  PROVE  WireInv'
<1>1. ASSUME NEW i \in 1 .. Len(Wire)'
      PROVE  InPacket(i)' /\ Wire'[i][1] <= NumSent'
  <2>1. i \in 1 .. Len(Wire) /\ Wire'[i] = Wire[i] /\ Wire[i] \in Cell
    OBVIOUS
  <2>2. InPacket(i) /\ Wire[i][1] <= NumSent
    BY <2>1 DEF WireInv
  <2>3. Wire[i][1] \in 1 .. MaxPackets /\ MaxPackets \in Nat
    BY <2>1, CellParts, StreamAssumption
  <2>4. InPacket(i)'
    BY <2>2, ShortensWire
  <2> QED
    BY <2>1, <2>2, <2>3, <2>4
<1>2. Wire' # <<>> => Wire'[1][1] = Len(handled') + 1
  <2> SUFFICES ASSUME Wire' # <<>> PROVE Wire'[1][1] = Len(handled') + 1
    OBVIOUS
  <2>1. 1 \in 1 .. Len(Wire)' /\ Wire # <<>> /\ Wire'[1] = Wire[1]
    OBVIOUS
  <2> QED
    BY <2>1 DEF WireInv
<1>3. Sending' =>
        IF Wire' = <<>> THEN NumSent' = Len(handled')
        ELSE LET last == Wire'[Len(Wire)']
             IN  last[1] = NumSent' /\ last[3] = last[2]
  BY DEF WireInv
<1> QED
  BY <1>1, <1>2, <1>3 DEF WireInv

(* The steps that leave the wire and what is known of it                   *)
LEMMA WireStays ==
  ASSUME SenderInv, SenderInv', WireInv, Wire' = Wire, handled' = handled,
         NumSent' = NumSent, Sending' => Sending
  PROVE  WireInv'
<1>1. Wire \in Seq(Cell) /\ NumSent \in Int
  BY WireSeq DEF SenderInv, StreamTypeOK, NumSent
<1>2. Len(Wire)' = Len(Wire)
  OBVIOUS
<1> QED
  BY <1>1, <1>2, WireKept

LEMMA WireSent ==
  ASSUME SenderInv, SenderInv', WireInv, queue # <<>>, Sending,
         readBuf' = readBuf, socket' = socket \o Cells(Head(queue)),
         NumSent' = NumSent + 1, handled' = handled
  PROVE  WireInv'
<1> DEFINE p == Head(queue)
<1>1. /\ readBuf \in Seq(Cell) /\ socket \in Seq(Cell) /\ queue \in Seq(Packets)
      /\ p \in Packets /\ p = queue[1] /\ NumSent \in Int /\ Len(handled) \in Nat
  BY QueueHead DEF SenderInv, StreamTypeOK, NumSent
<1>2. Wire \in Seq(Cell) /\ Len(Wire) \in Nat
  BY <1>1, WireSeq
<1>3. p.id = NumSent + 1
  BY <1>1, QueueHead DEF SenderInv, QueueInv
<1>4. /\ p.len \in Nat /\ p.len >= 1 /\ Cells(p) \in Seq(Cell) /\ p.id \in 1 .. MaxPackets
  BY <1>1, PacketCells
<1>5. Wire' = Wire \o Cells(p)
  <2>1. (readBuf \o socket) \o Cells(p) = readBuf \o (socket \o Cells(p))
    BY <1>1, <1>4, ConcatAssociative, SMTT(30)
  <2> QED
    BY <2>1 DEF Wire
<1> HIDE DEF p
<1>6. /\ \A i \in 1 .. Len(Wire)' : InPacket(i)'
      /\ Wire' \in Seq(Cell) /\ Len(Wire)' = Len(Wire) + p.len
      /\ \A i \in 1 .. Len(Wire) : Wire'[i] = Wire[i]
      /\ \A k \in 1 .. p.len : Wire'[Len(Wire) + k] = <<p.id, p.len, k>>
  <2>1. \A i \in 1 .. Len(Wire) : InPacket(i)
    BY DEF WireInv
  <2>2. Wire # <<>> => LET last == Wire[Len(Wire)]
                       IN  p.id = last[1] + 1 /\ last[3] = last[2]
    BY <1>3 DEF WireInv
  <2> QED
    BY <1>1, <1>2, <1>5, <2>1, <2>2, ExtendsWire
<1>7. ASSUME NEW i \in 1 .. Len(Wire)'
      PROVE  Wire'[i][1] <= NumSent'
  <2>1. CASE i <= Len(Wire)
    <3>1. i \in 1 .. Len(Wire) /\ Wire[i] \in Cell
      BY <1>2, <2>1
    <3>2. Wire[i][1] <= NumSent /\ Wire[i][1] \in 1 .. MaxPackets /\ MaxPackets \in Nat
      BY <3>1, CellParts, StreamAssumption DEF WireInv
    <3>3. Wire'[i] = Wire[i]
      BY <1>6, <3>1
    <3> QED
      BY <1>1, <3>2, <3>3
  <2>2. CASE i > Len(Wire)
    <3>1. i - Len(Wire) \in 1 .. p.len /\ Len(Wire) + (i - Len(Wire)) = i
      BY <1>2, <1>4, <1>6, <2>2
    <3>2. Wire'[i] = <<p.id, p.len, i - Len(Wire)>>
      BY <1>6, <3>1
    <3>3. Wire'[i][1] = p.id
      BY <3>2
    <3> QED
      BY <1>1, <1>3, <3>3
  <2> QED
    BY <1>2, <1>6, <2>1, <2>2
<1>8. Wire' # <<>> /\ Wire'[1][1] = Len(handled') + 1
  <2>1. Len(Wire)' >= 1
    BY <1>2, <1>4, <1>6
  <2>2. CASE Wire = <<>>
    <3>1. Len(Wire) = 0 /\ 1 \in 1 .. p.len /\ NumSent = Len(handled)
      BY <1>2, <1>4, <2>2 DEF WireInv
    <3>2. Wire'[Len(Wire) + 1] = <<p.id, p.len, 1>> /\ Len(Wire) + 1 = 1
      BY <1>6, <3>1
    <3>3. Wire'[1][1] = p.id
      BY <3>2
    <3> QED
      BY <1>3, <1>6, <2>1, <3>1, <3>3
  <2>3. CASE Wire # <<>>
    <3>1. 1 \in 1 .. Len(Wire)
      BY <1>2, <2>3
    <3> QED
      BY <1>6, <2>1, <2>3, <3>1 DEF WireInv
  <2> QED
    BY <2>2, <2>3
<1>9. /\ Wire'[Len(Wire)'][1] = NumSent'
      /\ Wire'[Len(Wire)'][3] = Wire'[Len(Wire)'][2]
  <2>1. p.len \in 1 .. p.len
    BY <1>4
  <2>2. Wire'[Len(Wire)'] = <<p.id, p.len, p.len>>
    BY <1>6, <2>1
  <2> QED
    BY <1>3, <2>2
<1> QED
  BY <1>6, <1>7, <1>8, <1>9 DEF WireInv

(* The receiver finds the front of the next packet in its buffer.          *)
LEMMA FrontFound ==
  ASSUME SenderInv, WireInv, HeaderRead
  PROVE  /\ readBuf # <<>> /\ readBuf[1] \in Cell
         /\ StatedLengths = {readBuf[1][2]}
         /\ readBuf[1][1] = Len(handled) + 1 /\ readBuf[1][1] <= NumSent
         /\ readBuf[1][2] <= Len(readBuf) =>
              Content(readBuf[1][2]) = Len(handled) + 1
<1> DEFINE id == readBuf[1][1]  len == readBuf[1][2]
<1>1. /\ readBuf \in Seq(Cell) /\ socket \in Seq(Cell) /\ readBuf # <<>>
      /\ HeaderSize \in Nat \ {0} /\ Lengths \subseteq HeaderSize .. ReadBufSize
      /\ ReadBufSize \in Nat /\ Len(readBuf) \in Nat /\ HeaderSize <= Len(readBuf)
  <2>1. /\ HeaderSize \in Nat \ {0} /\ Lengths \subseteq HeaderSize .. ReadBufSize
        /\ ReadBufSize \in Nat /\ HeaderSize <= Len(readBuf)
    BY StreamAssumption DEF HeaderRead
  <2> QED
    BY <2>1 DEF SenderInv, StreamTypeOK
<1>2. \A i \in 1 .. Len(Wire) : InPacket(i)
  BY DEF WireInv
<1>3. /\ readBuf[1] = Wire[1] /\ readBuf[1] \in Cell
      /\ \A k \in 1 .. len : k <= Len(readBuf) => readBuf[k] = <<id, len, k>>
  BY <1>1, <1>2, FrontPacket
<1>4. len \in Nat /\ len >= HeaderSize
  BY <1>3, CellParts
<1>5. id = Len(handled) + 1 /\ id <= NumSent
  <2>1. Wire # <<>> /\ 1 \in 1 .. Len(Wire)
    BY <1>1, WireSeq
  <2> QED
    BY <1>3, <2>1 DEF WireInv
<1> HIDE DEF id, len
<1>6. GoodHeader
  <2>1. \A k \in 1 .. HeaderSize : k \in 1 .. len /\ k <= Len(readBuf)
    BY <1>1, <1>4
  <2> QED
    BY <1>3, <2>1 DEF GoodHeader, id, len
<1>7. StatedLengths = {readBuf[1][2]}
  BY <1>6 DEF StatedLengths
<1>8. len <= Len(readBuf) => Content(len) = id
  <2> SUFFICES ASSUME len <= Len(readBuf) PROVE Content(len) = id
    OBVIOUS
  <2>1. \A k \in 1 .. len : readBuf[k] = <<id, len, k>>
    BY <1>1, <1>3, <1>4
  <2> QED
    BY <2>1 DEF Content, id
<1> QED
  BY <1>1, <1>3, <1>5, <1>7, <1>8 DEF id, len

LEMMA WireHandled ==
  ASSUME SenderInv, WireInv, HandlePacket
  PROVE  /\ WireInv'
         /\ handled' = Append(handled, Len(handled) + 1) /\ Len(handled) < NumSent
<1>1. PICK len \in StatedLengths :
        /\ Complete(len) /\ HeaderRead
        /\ handled' = Append(handled, Content(len))
        /\ readBuf' = SubSeq(readBuf, len + 1, Len(readBuf))
        /\ len \in 1 .. Len(readBuf)
  BY HandlePacketStep
<1>2. SenderInv' /\ NumSent' = NumSent
  BY HandlePacketStep
<1>3. /\ readBuf \in Seq(Cell) /\ socket \in Seq(Cell) /\ socket' = socket
      /\ readBuf' \in Seq(Cell) /\ (Sending' <=> Sending)
      /\ handled \in Seq(1 .. MaxPackets \cup {Garbled}) /\ NumSent \in Int
  BY <1>2 DEF SenderInv, StreamTypeOK, HandlePacket, NumSent, Sending
<1>4. /\ readBuf # <<>> /\ readBuf[1] \in Cell /\ len = readBuf[1][2]
      /\ readBuf[1][1] = Len(handled) + 1 /\ readBuf[1][1] <= NumSent
      /\ Content(len) = Len(handled) + 1
  BY <1>1, FrontFound
<1>5. /\ Wire \in Seq(Cell) /\ Len(Wire) = Len(readBuf) + Len(socket)
      /\ \A i \in 1 .. Len(readBuf) : Wire[i] = readBuf[i]
      /\ \A i \in 1 .. Len(socket) : Wire[Len(readBuf) + i] = socket[i]
  BY <1>3, WireSeq
<1>6. /\ Wire' \in Seq(Cell) /\ Len(Wire)' = Len(readBuf') + Len(socket)
      /\ \A i \in 1 .. Len(readBuf') : Wire'[i] = readBuf'[i]
      /\ \A i \in 1 .. Len(socket) : Wire'[Len(readBuf') + i] = socket[i]
      /\ Wire' = <<>> <=> Len(Wire)' = 0
  <2>1. Wire' = readBuf' \o socket'
    BY DEF Wire
  <2> QED
    BY <1>3, <2>1
<1>7. /\ Len(readBuf') = Len(readBuf) - len
      /\ \A i \in 1 .. Len(readBuf) - len : readBuf'[i] = readBuf[len + i]
      /\ Len(readBuf) \in Nat /\ Len(socket) \in Nat
  BY <1>1, <1>3
<1>8. len \in 1 .. Len(Wire) /\ Len(Wire)' = Len(Wire) - len
  <2>1. Len(Wire)' = Len(readBuf') + Len(socket)
    BY <1>6
  <2> QED
    BY <1>1, <1>5, <1>7, <2>1
<1>9. ASSUME NEW j \in 1 .. Len(Wire)'
      PROVE  Wire'[j] = Wire[len + j]
  <2>1. CASE j <= Len(readBuf')
    <3>1. j \in 1 .. Len(readBuf') /\ j \in 1 .. Len(readBuf) - len
          /\ len + j \in 1 .. Len(readBuf)
      BY <1>1, <1>7, <2>1
    <3>2. Wire'[j] = readBuf'[j] /\ readBuf'[j] = readBuf[len + j]
      BY <1>6, <1>7, <3>1
    <3> QED
      BY <1>5, <3>1, <3>2
  <2>2. CASE j > Len(readBuf')
    <3>1. /\ j - Len(readBuf') \in 1 .. Len(socket)
          /\ Len(readBuf') + (j - Len(readBuf')) = j
          /\ Len(readBuf) + (j - Len(readBuf')) = len + j
      <4>1. Len(Wire)' = Len(readBuf') + Len(socket)
        BY <1>6
      <4>2. j \in Int /\ j <= Len(readBuf') + Len(socket)
        BY <1>6, <4>1
      <4>3. len \in Int /\ Len(readBuf') \in Int /\ Len(readBuf') = Len(readBuf) - len
        BY <1>1, <1>7
      <4> QED
        BY <1>7, <2>2, <4>2, <4>3
    <3> QED
      BY <1>5, <1>6, <3>1
  <2> QED
    BY <1>6, <1>7, <2>1, <2>2
<1>10. \A i \in 1 .. Len(Wire) : InPacket(i) /\ Wire[i][1] <= NumSent
  BY DEF WireInv
<1>11. len + 1 <= Len(Wire) =>
         Wire[len + 1][1] = Len(handled) + 2 /\ Wire[len + 1][3] = 1
  <2>1. len + 1 <= Len(Wire) => /\ Wire[len + 1][1] = readBuf[1][1] + 1
                                /\ Wire[len + 1][3] = 1
    BY <1>3, <1>4, <1>10, FrontPacket
  <2> QED
    BY <1>3, <1>4, <2>1
<1>12. ASSUME NEW i \in 1 .. Len(Wire)'
       PROVE  InPacket(i)' /\ Wire'[i][1] <= NumSent'
  <2>1. len + i \in 1 .. Len(Wire)
    BY <1>5, <1>7, <1>8
  <2>2. InPacket(len + i) /\ Wire[len + i][1] <= NumSent
    BY <1>10, <2>1
  <2>3. len < Len(Wire) => Wire[len + 1][3] = 1
    BY <1>5, <1>7, <1>8, <1>11
  <2>4. InPacket(i)'
    BY <1>5, <1>6, <1>8, <1>9, <2>2, <2>3, TakesOffWire
  <2> QED
    BY <1>2, <1>9, <2>2, <2>4
<1>13. Len(handled') = Len(handled) + 1 /\ Len(handled) \in Nat
       /\ handled' = Append(handled, Len(handled) + 1)
  BY <1>1, <1>3, <1>4
<1>14. Wire' # <<>> => Wire'[1][1] = Len(handled') + 1
  <2> SUFFICES ASSUME Wire' # <<>> PROVE Wire'[1][1] = Len(handled') + 1
    OBVIOUS
  <2>1. 1 \in 1 .. Len(Wire)' /\ len + 1 <= Len(Wire)
    BY <1>6, <1>7, <1>8
  <2>2. Wire'[1] = Wire[len + 1]
    BY <1>9, <2>1
  <2> QED
    BY <1>11, <1>13, <2>1, <2>2
<1>15. Sending' =>
         IF Wire' = <<>> THEN NumSent' = Len(handled')
         ELSE LET last == Wire'[Len(Wire)']
              IN  last[1] = NumSent' /\ last[3] = last[2]
  <2> SUFFICES ASSUME Sending'
               PROVE  IF Wire' = <<>> THEN NumSent' = Len(handled')
                      ELSE LET last == Wire'[Len(Wire)']
                           IN  last[1] = NumSent' /\ last[3] = last[2]
    OBVIOUS
  <2>1. Wire # <<>> /\ Len(Wire) \in 1 .. Len(Wire)
    BY <1>5, <1>8
  <2>2. Wire[Len(Wire)][1] = NumSent /\ Wire[Len(Wire)][3] = Wire[Len(Wire)][2]
    BY <1>3, <2>1 DEF WireInv
  <2>3. CASE Wire' = <<>>
    <3>1. Len(Wire) = len
      BY <1>6, <1>7, <1>8, <2>3
    <3>2. Wire[len] = readBuf[len] /\ len \in 1 .. len /\ len <= Len(readBuf)
      BY <1>1, <1>5
    <3>3. readBuf[len] = <<readBuf[1][1], len, len>>
      BY <1>3, <1>4, <1>10, <3>2, FrontPacket
    <3>4. NumSent = Len(handled) + 1
      BY <1>4, <2>2, <3>1, <3>2, <3>3
    <3> QED
      BY <1>2, <1>13, <2>3, <3>4
  <2>4. CASE Wire' # <<>>
    <3>1. Len(Wire)' \in 1 .. Len(Wire)' /\ len + Len(Wire)' = Len(Wire)
      BY <1>6, <1>7, <1>8, <2>4
    <3>2. Wire'[Len(Wire)'] = Wire[Len(Wire)]
      BY <1>9, <3>1
    <3> QED
      BY <1>2, <2>2, <2>4, <3>2
  <2> QED
    BY <2>3, <2>4
<1>16. Len(handled) < NumSent
  BY <1>3, <1>4, <1>13
<1> QED
  BY <1>12, <1>13, <1>14, <1>15, <1>16 DEF WireInv

(* When no whole packet is in the buffer there is room for more.           *)
LEMMA RoomLeft ==
  ASSUME SenderInv, WireInv, Incomplete
  PROVE  Room > 0
<1>1. /\ HeaderSize \in Nat \ {0} /\ ReadBufSize \in Nat
      /\ HeaderSize <= ReadBufSize
      /\ readBuf \in Seq(Cell) /\ Len(readBuf) \in Nat
  <2>1. HeaderSize \in Nat \ {0} /\ ReadBufSize \in Nat /\ HeaderSize <= ReadBufSize
    BY StreamAssumption
  <2> QED
    BY <2>1 DEF SenderInv, StreamTypeOK
<1>2. CASE ~HeaderRead
  BY <1>1, <1>2 DEF HeaderRead, Room
<1>3. CASE HeaderRead
  <2>1. readBuf[1] \in Cell /\ StatedLengths = {readBuf[1][2]}
    BY <1>3, FrontFound
  <2>2. readBuf[1][2] \in Nat /\ readBuf[1][2] <= ReadBufSize
    BY <2>1, CellParts
  <2>3. ~Complete(readBuf[1][2])
    BY <1>3, <2>1 DEF Incomplete
  <2>4. ~(readBuf[1][2] <= Len(readBuf))
    BY <1>3, <2>3 DEF Complete
  <2> QED
    BY <1>1, <2>2, <2>4 DEF Room
<1> QED
  BY <1>2, <1>3

-----------------------------------------------------------------------------
(* The inductive invariant and the theorems.                               *)

LEMMA StreamInit == InitStream => StreamInv
<1> SUFFICES ASSUME InitStream PROVE StreamInv
  OBVIOUS
<1>1. /\ MaxPackets \in Nat /\ MaxSplits \in Nat /\ SocketSize \in Nat
      /\ ReadBufSize \in Nat /\ HeaderSize \in Nat \ {0} /\ HeaderSize <= ReadBufSize
  BY StreamAssumption
<1>2. SenderInv
  <2>1. Len(<<>>) = 0 /\ <<>> \in Seq(Packets) /\ <<>> \in Seq(Cell)
        /\ <<>> \in Seq(1 .. MaxPackets \cup {Garbled})
    OBVIOUS
  <2>2. 0 \in 0 .. MaxPackets /\ 0 \in 0 .. MaxSplits /\ 0 <= SocketSize
        /\ 0 <= ReadBufSize /\ 0 \in Nat
    BY <1>1
  <2>3. StreamTypeOK
    BY <2>1, <2>2 DEF InitStream, StreamTypeOK
  <2>4. FlushInv /\ QueueInv
    BY <2>1 DEF InitStream, FlushInv, QueueInv, NumSent
  <2> QED
    BY <2>3, <2>4 DEF SenderInv
<1>3. Wire = <<>> /\ Len(Wire) = 0 /\ NumSent = 0 /\ Len(handled) = 0
  <2>1. Len(<<>>) = 0 /\ <<>> \in Seq(Cell) /\ <<>> \o <<>> = <<>>
    OBVIOUS
  <2>2. Wire = <<>>
    BY <2>1 DEF InitStream, Wire
  <2>3. queued = 0 /\ Len(queue) = 0 /\ Len(handled) = 0
    BY <2>1 DEF InitStream
  <2> QED
    BY <2>1, <2>2, <2>3 DEF NumSent
<1>4. WireInv
  BY <1>3 DEF WireInv
<1>5. RoomInv
  BY <1>1 DEF InitStream, RoomInv, Room
<1> QED
  BY <1>2, <1>4, <1>5 DEF StreamInv, SenderInv

(* A call of send() in parts is never undone.                              *)
LEMMA SplitsGrow == SenderInv /\ [NextStream]_streamVars /\ NoSplit' => NoSplit
<1> SUFFICES ASSUME SenderInv, [NextStream]_streamVars, splits' = 0, splits # 0 PROVE FALSE
  BY DEF NoSplit
<1>1. splits \in Nat /\ splits' # splits
  BY StreamAssumption DEF SenderInv, StreamTypeOK
<1>2. SendSome
  BY <1>1 DEF NextStream, streamVars, QueuePacket, Send, FlushQueue, SocketFull, SenderCloses, Read,
     DataReady, Recv, RecvNothing, RecvZero, HandlePacket, Incomplete, BadPacket,
     ReceiverCloses, ReceiverEnds
<1>3. NoSplit' => NoSplit
  BY <1>2, SendSomeStep
<1> QED
  BY <1>3 DEF NoSplit

LEMMA StreamNext == StreamInv /\ [NextStream]_streamVars => StreamInv'
<1> SUFFICES ASSUME StreamInv, [NextStream]_streamVars PROVE StreamInv'
  OBVIOUS
<1>0. SenderInv /\ (NoSplit' => NoSplit) /\ (NoSplit => WireInv /\ RoomInv)
  BY SplitsGrow DEF StreamInv, SenderInv
<1> SUFFICES SenderInv' /\ (NoSplit' => WireInv' /\ RoomInv')
  BY DEF StreamInv, SenderInv
<1>1. CASE QueuePacket
  <2>1. SenderInv' /\ NumSent' = NumSent
    BY <1>0, <1>1, QueuePacketStep
  <2>2. /\ Wire' = Wire /\ handled' = handled /\ (Sending' <=> Sending)
        /\ (RoomInv => RoomInv')
    BY <1>1 DEF QueuePacket, Wire, Sending, RoomInv, Room, Receiving, readVars
  <2> QED
    BY <1>0, <2>1, <2>2, WireStays
<1>2. CASE FlushQueue
  <2>1. SenderInv' /\ NumSent' = NumSent
    BY <1>0, <1>2, FlushQueueStep
  <2>2. /\ Wire' = Wire /\ handled' = handled /\ (Sending' <=> Sending)
        /\ (RoomInv => RoomInv')
    BY <1>2 DEF FlushQueue, Wire, Sending, RoomInv, Room, Receiving, readVars
  <2> QED
    BY <1>0, <2>1, <2>2, WireStays
<1>3. CASE SendSome
  <2>1. /\ SenderInv'
        /\ NoSplit' => NoSplit /\ NumSent' = NumSent + 1
                       /\ socket' = socket \o Cells(Head(queue))
    BY <1>0, <1>3, SendSomeStep
  <2>2. /\ readBuf' = readBuf /\ handled' = handled /\ Sending /\ queue # <<>>
        /\ (RoomInv => RoomInv')
    BY <1>0, <1>3 DEF SendSome, SenderInv, FlushInv, RoomInv, Room, Receiving, readVars
  <2> QED
    BY <1>0, <2>1, <2>2, WireSent
<1>4. CASE SocketFull
  <2>1. SenderInv' /\ NumSent' = NumSent
    BY <1>0, <1>4, SocketFullStep
  <2>2. /\ Wire' = Wire /\ handled' = handled /\ (Sending' <=> Sending)
        /\ (RoomInv => RoomInv')
    BY <1>4 DEF SocketFull, Wire, Sending, RoomInv, Room, Receiving, readVars
  <2> QED
    BY <1>0, <2>1, <2>2, WireStays
<1>5. CASE SenderCloses
  <2>1. SenderInv' /\ NumSent' >= NumSent /\ NumSent \in Int /\ NumSent' \in Int
    BY <1>0, <1>5, SenderClosesStep
  <2>2. /\ readBuf' = readBuf /\ handled' = handled /\ ~Sending'
        /\ socket' = socket \/ socket' = <<>>
        /\ (RoomInv => RoomInv')
    BY <1>5 DEF SenderCloses, Sending, RoomInv, Room, Receiving, readVars
  <2>3. /\ Wire \in Seq(Cell) /\ Wire' \in Seq(Cell) /\ Len(Wire)' <= Len(Wire)
        /\ \A j \in 1 .. Len(Wire)' : Wire'[j] = Wire[j]
    <3>1. readBuf \in Seq(Cell) /\ socket \in Seq(Cell) /\ Wire = readBuf \o socket
      BY <1>0 DEF SenderInv, StreamTypeOK, Wire
    <3>2. CASE socket' = socket
      <4>1. Wire' = Wire
        BY <2>2, <3>2 DEF Wire
      <4> QED
        BY <3>1, <4>1
    <3>3. CASE socket' = <<>>
      <4>1. Wire' = readBuf
        BY <2>2, <3>1, <3>3 DEF Wire
      <4>2. Len(Wire)' = Len(readBuf)
        BY <4>1
      <4> QED
        BY <3>1, <4>1, <4>2
    <3> QED
      BY <2>2, <3>2, <3>3
  <2>4. WireInv => WireInv'
    BY <2>1, <2>2, <2>3, WireKept
  <2> QED
    BY <1>0, <2>1, <2>2, <2>4
<1>6. CASE Recv
  <2>1. SenderInv' /\ NumSent' = NumSent /\ Wire' = Wire
    BY <1>0, <1>6, RecvStep
  <2>2. handled' = handled /\ (Sending' <=> Sending) /\ reading' = "parse"
    BY <1>6 DEF Recv, Sending
  <2>3. RoomInv'
    BY <2>2 DEF RoomInv
  <2> QED
    BY <1>0, <2>1, <2>2, <2>3, WireStays
<1>7. CASE HandlePacket
  <2>1. SenderInv' /\ (WireInv => WireInv')
    BY <1>0, <1>7, HandlePacketStep, WireHandled
  <2>2. reading' = "parsed"
    BY <1>7 DEF HandlePacket
  <2>3. RoomInv'
    BY <2>2 DEF RoomInv
  <2> QED
    BY <1>0, <2>1, <2>3
<1>8. CASE \/ DataReady \/ RecvNothing \/ RecvZero \/ Incomplete
           \/ BadPacket \/ ReceiverCloses
  <2>1. /\ SenderInv' /\ NumSent' = NumSent
        /\ readBuf' = readBuf /\ socket' = socket /\ handled' = handled
        /\ splits' = splits /\ (Receiving' => Receiving) /\ (Sending' <=> Sending)
    BY <1>0, <1>8, IdleStep
  <2>2. Wire' = Wire
    BY <2>1 DEF Wire
  <2>3. WireInv => WireInv'
    BY <1>0, <2>1, <2>2, WireStays
  <2>4. Room' = Room
    BY <2>1 DEF Room
  <2>5. WireInv /\ RoomInv => RoomInv'
    <3>1. CASE DataReady \/ RecvNothing
      BY <2>1, <2>4, <3>1 DEF DataReady, RecvNothing, RoomInv
    <3>2. CASE RecvZero \/ BadPacket \/ ReceiverCloses
      <4>1. ~Receiving'
        BY <3>2 DEF RecvZero, BadPacket, ReceiverCloses, ReceiverEnds, Receiving
      <4> QED
        BY <4>1 DEF RoomInv
    <3>3. CASE Incomplete
      BY <1>0, <2>4, <3>3, RoomLeft DEF RoomInv
    <3> QED
      BY <1>8, <3>1, <3>2, <3>3
  <2> QED
    BY <1>0, <2>1, <2>3, <2>5
<1>9. CASE UNCHANGED streamVars
  <2>1. /\ sendVars' = sendVars /\ readBuf' = readBuf /\ socket' = socket
        /\ handled' = handled /\ reading' = reading /\ splits' = splits
        /\ closed' = closed
    BY <1>9 DEF streamVars, sendVars, readVars
  <2>2. SenderInv' /\ NumSent' = NumSent
    BY <1>0, <2>1, ReceiverStep DEF SenderInv, StreamTypeOK
  <2>3. Wire' = Wire /\ (Sending' <=> Sending) /\ (RoomInv => RoomInv')
    BY <2>1 DEF Wire, Sending, RoomInv, Room, Receiving
  <2> QED
    BY <1>0, <2>1, <2>2, <2>3, WireStays
<1> QED
  BY <1>1, <1>2, <1>3, <1>4, <1>5, <1>6, <1>7, <1>8, <1>9 DEF NextStream, Send, Read

(* What a stream may be between the queue and the handlers, with the       *)
(* socket, the flush and the parser anywhere in their work.                *)
THEOREM StreamInvariant == StreamSpec => []StreamInv
BY StreamInit, StreamNext, PTL DEF StreamSpec

LEMMA InvWhole == StreamInv => StreamIsWhole
<1> SUFFICES ASSUME StreamInv PROVE StreamIsWhole
  OBVIOUS
<1>1. WholeStream
  <2> SUFFICES ASSUME StreamOpen, NoSplit PROVE WholeStream
    BY DEF WholeStream
  <2>1. Sending /\ WireInv /\ QueueInv /\ FlushInv
    BY DEF StreamInv, Sending, StreamOpen
  <2>2. \A i \in 1 .. Len(Wire) : InPacket(i)
    BY <2>1 DEF WireInv
  <2>3. unsent # 0 => unsent = Head(queue).len
    BY <2>1 DEF FlushInv
  <2>4. Wire # <<>> => Wire[1][1] = Len(handled) + 1
    BY <2>1 DEF WireInv
  <2>5. IF Wire = <<>> THEN NumSent = Len(handled)
        ELSE LET last == Wire[Len(Wire)]
             IN  last[1] = NumSent /\ last[3] = last[2]
    BY <2>1 DEF WireInv
  <2> QED
    BY <2>1, <2>2, <2>3, <2>4, <2>5 DEF WholeStream, QueueInv
<1>2. NeverFull
  BY DEF NeverFull, StreamInv, RoomInv
<1> QED
  BY <1>1, <1>2 DEF StreamIsWhole, StreamInv

(* As long as no call of send() takes a part of a packet, the read buffer, *)
(* the socket and the queue hold the packets not yet handled, each whole   *)
(* and in order, and recv() is never asked for nothing (netrcv.c:141).      *)
THEOREM Whole == StreamSpec => []StreamIsWhole
BY StreamInvariant, InvWhole, PTL

(* Until then the connection is a FIFO of packets to the layers above.     *)
THEOREM IsPipe == StreamSpec => PipeUntilSplit
<1>1. InitStream => Pipe!Init
  BY DEF InitStream, Pipe!Init
<1>2. StreamInv /\ [NextStream]_streamVars => [~NoSplit' \/ Pipe!Next]_<<queued, handled>>
  <2> SUFFICES ASSUME StreamInv, [NextStream]_streamVars, NoSplit'
               PROVE  Pipe!Next \/ UNCHANGED <<queued, handled>>
    OBVIOUS
  <2>1. SenderInv /\ WireInv
    BY SplitsGrow DEF StreamInv, SenderInv
  <2>2. CASE QueuePacket
    BY <2>2 DEF QueuePacket, readVars, Pipe!Next, Pipe!Give
  <2>3. CASE HandlePacket
    <3>1. handled' = Append(handled, Len(handled) + 1) /\ Len(handled) < NumSent
      BY <2>1, <2>3, WireHandled
    <3>2. queue \in Seq(Packets) /\ queued \in Nat /\ Len(handled) \in Nat
      BY <2>1, StreamAssumption DEF SenderInv, StreamTypeOK
    <3>3. Len(handled) < queued
      BY <3>1, <3>2 DEF NumSent
    <3> QED
      BY <2>3, <3>1, <3>3 DEF HandlePacket, sendVars, Pipe!Next, Pipe!Take
  <2>4. CASE ~QueuePacket /\ ~HandlePacket
    BY <2>4 DEF NextStream, streamVars, sendVars, readVars, Send, FlushQueue, SendSome, SocketFull,
       SenderCloses, Read, DataReady, Recv, RecvNothing, RecvZero, Incomplete,
       BadPacket, ReceiverCloses, ReceiverEnds
  <2> QED
    BY <2>2, <2>3, <2>4
<1> QED
  BY <1>1, <1>2, StreamInvariant, PTL DEF StreamSpec, PipeUntilSplit

=============================================================================
