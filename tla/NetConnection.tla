---------------------------- MODULE NetConnection ----------------------------
(***************************************************************************)
(* The life of the NetConnections: opened by the player, resolved,         *)
(* connected or accepted, retried by an alarm, closed by the player, by    *)
(* the peer or by an error, and all within one thread that calls back into *)
(* itself: NetManager_process, Callback_process and the alarms end in the  *)
(* same few functions, which close and free what others may refer to.      *)
(*                                                                         *)
(* Code: netconnection.c, nc_connect.ci, netmelee.c, libs/network/connect, *)
(* ndesc.c and libs/callback.  The functions are operators on a record     *)
(* `net`; each callback, with all it calls, is one step.  Two connections  *)
(* of a player in a row are told apart by a generation.                    *)
(***************************************************************************)
EXTENDS Integers, Sequences, FiniteSets

CONSTANTS
  Players,       \* the sides that may be played over a network
  MaxAddresses   \* bound: addresses a name resolves to

ASSUME ConnectionAssumption ==
  /\ IsFiniteSet(Players)
  /\ MaxAddresses \in Nat \ {0}

VARIABLES
  net,    \* the structures, see TypeOK
  loop    \* where the main loop is

vars == <<net, loop>>

Gens  == 1 .. 2                          \* of a connection; 0 is none
Descs == 1 .. 2 * Cardinality(Players)   \* NetDescriptors; 0 is NULL

(* Faulty: packets are flushed before the callbacks are processed.         *)
AfterFlushFirst ==
  [async |-> "menu", menu |-> "select", select |-> "flush",
   flush |-> "netAsync", netAsync |-> "last", last |-> "async"]

(* The order in which DoInput, its input function and netInputAux go       *)
(* through them.                                                           *)
After ==
  [async |-> "menu", menu |-> "select", select |-> "netAsync",
   netAsync |-> "flush", flush |-> "last", last |-> "async"]

NoConn    == [gen |-> 0, connected |-> FALSE, disconnected |-> FALSE, nd |-> 0]
NoAttempt == [gen |-> 0, phase |-> "none", nd |-> 0, left |-> 0]
NoAlarm   == [kind |-> "none", gen |-> 0]
NoDesc    == [status |-> "gone", onClose |-> <<>>]

Callbacks ==
  [kind : {"resolve"}, of : Players \X Gens] \cup [kind : {"close"}, of : Descs]

(* Failed assertions and uses of something freed                           *)
FlushedClosed == "flush of a closed descriptor"
HandlerFreed == "connection freed within a handler of its packets"

Faults ==
  {FlushedClosed, HandlerFreed, "descriptor closed twice", "alarm set twice",
   "connected twice", "close callback of a freed connection",
   "resolve callback of a closed attempt", "alarm of a closed attempt"}

TypeOK ==
  /\ net.conn \in [Players -> [gen : Gens \cup {0}, connected : BOOLEAN,
                               disconnected : BOOLEAN, nd : Descs \cup {0}]]
  /\ net.attempt \in [Players ->
       [gen : Gens \cup {0}, nd : Descs \cup {0}, left : 0 .. MaxAddresses,
        phase : {"none", "resolving", "connecting", "waiting", "listening"}]]
  /\ net.server \in [Players -> BOOLEAN]
  /\ net.alarm \in
       [Players -> [kind : {"none", "timeout", "retry"}, gen : Gens \cup {0}]]
       \* connectState->alarm and its entry in the heap
  /\ net.desc \in [Descs -> [status : {"gone", "open", "closing"},
                             onClose : Players \X Gens \cup {<<>>}]]
  /\ net.callbacks \in Seq(Callbacks)
  /\ net.todo \in 0 .. Len(net.callbacks)   \* up to callbacksProcessEnd
  /\ net.bad \in {""} \cup Faults
  /\ loop.at \in DOMAIN After
  /\ loop.ready \subseteq Descs             \* the sets select() returned

Init ==
  /\ net = [conn |-> [p \in Players |-> NoConn],
            attempt |-> [p \in Players |-> NoAttempt],
            server |-> [p \in Players |-> FALSE],
            alarm |-> [p \in Players |-> NoAlarm],
            desc |-> [i \in Descs |-> NoDesc],
            callbacks |-> <<>>, todo |-> 0, bad |-> ""]
  /\ loop = [at |-> "async", ready |-> {}]

-----------------------------------------------------------------------------
(* Descriptors.                                                            *)

(* The first thing that goes wrong is noted.                               *)
Failed(n, what) == IF n.bad = "" THEN [n EXCEPT !.bad = what] ELSE n

Open(n, i) == i # 0 /\ n.desc[i].status = "open"

(* NetDescriptor_new, in the first place that is free                      *)
Unused(n) ==
  {i \in Descs : /\ n.desc[i].status = "gone"
                 /\ \A j \in 1 .. i - 1 : n.desc[j].status # "gone"}

NewDesc(n, i) == [n EXCEPT !.desc[i] = [NoDesc EXCEPT !.status = "open"]]

(* NetDescriptor_close                                                     *)
CloseDesc(n, i) ==
  IF ~Open(n, i) THEN Failed(n, "descriptor closed twice")
  ELSE IF n.desc[i].onClose # <<>>
  THEN [n EXCEPT !.desc[i].status = "closing",
                 !.callbacks = Append(@, [kind |-> "close", of |-> i])]
  ELSE [n EXCEPT !.desc[i] = NoDesc]

(* Callback_remove, for the callback of getaddrinfoAsync, if it is there   *)
RemoveResolve(n, p, gen) ==
  LET found == {k \in 1 .. Len(n.callbacks) :
                  n.callbacks[k] = [kind |-> "resolve", of |-> <<p, gen>>]}
      k == CHOOSE i \in found : TRUE
  IN  IF found = {} THEN n
      ELSE [n EXCEPT !.callbacks = SubSeq(@, 1, k - 1) \o SubSeq(@, k + 1, Len(@)),
                     !.todo = IF k <= @ THEN @ - 1 ELSE @]

-----------------------------------------------------------------------------
(* Attempts: ConnectState of a client, ListenState of a server             *)

(* Faulty: the socket of the attempt is left open.                         *)
CloseAttemptKeepsDesc(n, p) ==
  [RemoveResolve(n, p, n.attempt[p].gen)
     EXCEPT !.attempt[p] = NoAttempt, !.alarm[p] = NoAlarm]

(* ConnectState_close, ListenState_close                                   *)
CloseAttempt(n, p) ==
  LET m == RemoveResolve([n EXCEPT !.alarm[p] = NoAlarm], p, n.attempt[p].gen)
      c == IF m.attempt[p].nd # 0 THEN CloseDesc(m, m.attempt[p].nd) ELSE m
  IN  [c EXCEPT !.attempt[p] = NoAttempt]

(* NetConnection_connectedServerErrorCallback and its client counterpart:  *)
(* the attempt and the connection are closed and freed.                    *)
AttemptFails(n, p) == [CloseAttempt(n, p) EXCEPT !.conn[p] = NoConn]

SetAlarm(n, p, kind) ==
  IF n.alarm[p] # NoAlarm THEN Failed(n, "alarm set twice")
  ELSE [n EXCEPT !.alarm[p] = [kind |-> kind, gen |-> n.attempt[p].gen]]

(* Faulty: no alarm is set for an attempt in progress.                     *)
TryingUntimed(n, p, i, left) ==
  [NewDesc(n, i) EXCEPT
     !.attempt[p] = [@ EXCEPT !.phase = "connecting", !.nd = i, !.left = left]]

(* One address is tried, with `left` others to go.                         *)
Trying(n, p, i, left) ==
  SetAlarm([NewDesc(n, i) EXCEPT
    !.attempt[p] = [@ EXCEPT !.phase = "connecting", !.nd = i, !.left = left]],
    p, "timeout")

Waiting(n, p) ==
  SetAlarm([n EXCEPT
    !.attempt[p] = [@ EXCEPT !.phase = "waiting", !.nd = 0, !.left = 0]],
    p, "retry")

(* Faulty: an address is tried without a test for the end of the list.     *)
HostNextUntested(n, p, left) ==
  {Trying(n, p, i, left - 1) : i \in Unused(n)} \cup {Waiting(n, p)}

(* connectHostNext, with `left` addresses from infoPtr on: the outcomes.   *)
HostNext(n, p, left) ==
  {Trying(n, p, i, rest) : i \in Unused(n), rest \in 0 .. left - 1}
    \cup {Waiting(n, p)}
    \cup (IF left > 0 THEN {AttemptFails(n, p)} ELSE {})

(* listenPortMulti                                                         *)
Listening(n, p, i) ==
  [NewDesc(n, i) EXCEPT !.attempt[p] = [@ EXCEPT !.phase = "listening", !.nd = i]]

(* connectHostResolveCallback, listenPortResolveCallback and the callbacks *)
(* for a name that was not resolved                                        *)
Resolved(n, p) ==
  {AttemptFails(n, p)} \cup
  (IF n.server[p] THEN {Listening(n, p, i) : i \in Unused(n)}
                  ELSE HostNext(n, p, MaxAddresses))

-----------------------------------------------------------------------------
(* The connections                                                         *)

(* openPlayerNetworkConnection: NetConnection_open, NetConnection_go       *)
OpenConnection(n, p, gen, server) ==
  [n EXCEPT !.conn[p] = [NoConn EXCEPT !.gen = gen],
            !.attempt[p] = [NoAttempt EXCEPT !.gen = gen, !.phase = "resolving"],
            !.server[p] = server,
            !.callbacks = Append(@, [kind |-> "resolve", of |-> <<p, gen>>])]

(* Faulty: the close callback is not set.                                  *)
ConnectedNoCallback(n, p, nd) ==
  [CloseAttempt(n, p) EXCEPT !.conn[p] = [@ EXCEPT !.nd = nd, !.connected = TRUE]]

(* NetConnection_connected, for the descriptor nd                          *)
Connected(n, p, nd) ==
  LET m == CloseAttempt(n, p)
      c == IF n.conn[p].nd # 0 THEN Failed(m, "connected twice") ELSE m
  IN  [c EXCEPT !.conn[p] = [@ EXCEPT !.nd = nd, !.connected = TRUE],
                !.desc[nd].onClose = <<p, c.conn[p].gen>>]

(* NetConnection_close                                                     *)
CloseConnection(n, p) ==
  LET nd == n.conn[p].nd
      m == IF nd = 0 THEN n
           ELSE CloseDesc([n EXCEPT !.desc[nd].onClose = <<>>], nd)
      c == IF m.attempt[p].gen # 0 THEN CloseAttempt(m, p) ELSE m
  IN  [c EXCEPT !.conn[p] = NoConn]

(* Faulty: the connection is not marked as disconnected.                   *)
LostQuietly(n, p) ==
  [n EXCEPT !.conn[p] = [@ EXCEPT !.nd = 0, !.connected = FALSE]]

(* closeCallback                                                           *)
Lost(n, p) ==
  [n EXCEPT !.conn[p] = [@ EXCEPT !.nd = 0, !.connected = FALSE,
                                  !.disconnected = TRUE]]

(* NetDescriptor_closeCallback                                             *)
DescClosed(n, i) ==
  LET m == [n EXCEPT !.desc[i] = NoDesc]
      owner == n.desc[i].onClose
  IN  IF owner = <<>> THEN m
      ELSE IF n.conn[owner[1]].gen # owner[2]
      THEN Failed(m, "close callback of a freed connection")
      ELSE Lost(m, owner[1])

(* flushPacketQueues for one player: the outcomes.                         *)
Flushed(n, p) ==
  IF ~n.conn[p].connected THEN {n}
  ELSE IF ~Open(n, n.conn[p].nd) THEN {n, Failed(n, FlushedClosed)}
  ELSE {n, CloseConnection(n, p)}

FlushedAll(n) ==
  IF n.bad # "" THEN {n}
  ELSE {[n EXCEPT !.bad = FlushedClosed] :
          p \in {q \in Players : n.conn[q].connected /\ ~Open(n, n.conn[q].nd)}}
       \cup {n} \cup UNION {Flushed(n, p) : p \in Players}

-----------------------------------------------------------------------------
(* What NetManager_process calls                                           *)

(* Faulty: the timeout is not removed.                                     *)
WritableTimed(n, p) ==
  LET nd == n.attempt[p].nd
      m == [n EXCEPT !.attempt[p].nd = 0]
  IN  {[Connected(m, p, nd) EXCEPT !.alarm[p] = n.alarm[p]]}
        \cup HostNext(CloseDesc([m EXCEPT !.alarm[p] = NoAlarm], nd),
                      p, n.attempt[p].left)

(* connectCallback                                                         *)
Writable(n, p) ==
  LET nd == n.attempt[p].nd
      m == [n EXCEPT !.alarm[p] = NoAlarm, !.attempt[p].nd = 0]
  IN  {Connected(m, p, nd)} \cup HostNext(CloseDesc(m, nd), p, n.attempt[p].left)

(* acceptCallback                                                          *)
Acceptable(n, p) ==
  {n} \cup {Connected(NewDesc(n, i), p, i) : i \in Unused(n)}

(* dataReadyCallback: packets are handled, or the descriptor is closed     *)
(* after an end, an error or a bad packet.  A handler may flush the queues *)
(* (resetFeedback, NetMelee_enterState_inSetup), and if this closes the    *)
(* connection, its read buffer is used after it was freed.                 *)
Readable(n, p) ==
  {CloseDesc(n, n.conn[p].nd)} \cup
  {IF m.conn[p] = NoConn THEN Failed(m, HandlerFreed) ELSE m : m \in FlushedAll(n)}

-----------------------------------------------------------------------------
(* The main loop.  It stops where the program would.                       *)

Goes == net.bad = ""

(* Callback_process goes through the callbacks that are there at its call. *)
Process(n) == [n EXCEPT !.todo = Len(n.callbacks)]

(* DoInput and netInputAux go on to the next of their calls.               *)
Proceed ==
  /\ Goes /\ net.todo = 0 /\ loop.ready = {}
  /\ \E ready \in SUBSET {i \in Descs : Open(net, i)} :
       /\ After[loop.at] # "select" => ready = {}
       /\ loop' = [at |-> After[loop.at], ready |-> ready]
  /\ net' = IF After[loop.at] \in {"async", "netAsync", "last"}
            THEN Process(net) ELSE net

RunCallback ==
  /\ Goes /\ net.todo > 0
  /\ LET c == Head(net.callbacks)
         n == [net EXCEPT !.callbacks = Tail(@), !.todo = @ - 1]
     IN  \/ c.kind = "close" /\ net' = DescClosed(n, c.of)
         \/ /\ c.kind = "resolve"
            /\ IF n.attempt[c.of[1]].gen = c.of[2]
               THEN net' \in Resolved(n, c.of[1])
               ELSE net' = Failed(n, "resolve callback of a closed attempt")
  /\ UNCHANGED loop

(* connectTimeoutCallback, connectRetryCallback                            *)
AlarmDue(n, p) ==
  LET m == [n EXCEPT !.alarm[p] = NoAlarm]
  IN  IF n.attempt[p].gen # n.alarm[p].gen
      THEN {Failed(m, "alarm of a closed attempt")}
      ELSE IF n.alarm[p].kind = "timeout"
      THEN HostNext([CloseDesc(m, m.attempt[p].nd) EXCEPT !.attempt[p].nd = 0],
                    p, n.attempt[p].left)
      ELSE HostNext(m, p, MaxAddresses)

(* Async_process: an alarm, then the callbacks it added.                   *)
RunAlarm(p) ==
  /\ Goes /\ loop.at \in {"async", "netAsync"} /\ net.todo = 0
  /\ net.alarm[p] # NoAlarm
  /\ \E n \in AlarmDue(net, p) : net' = Process(n)
  /\ UNCHANGED loop

(* NetManager_process, for the next descriptor that is ready, if it was    *)
(* not closed meanwhile.                                                   *)
Select ==
  /\ Goes /\ loop.ready # {}
  /\ \E i \in loop.ready :
       /\ \A j \in loop.ready : i <= j
       /\ loop' = [loop EXCEPT !.ready = @ \ {i}]
       /\ \/ ~Open(net, i) /\ UNCHANGED net
          \/ \E p \in Players :
               \/ /\ net.attempt[p].nd = i /\ net.attempt[p].phase = "connecting"
                  /\ net' \in Writable(net, p)
               \/ /\ net.attempt[p].nd = i /\ net.attempt[p].phase = "listening"
                  /\ net' \in Acceptable(net, p)
               \/ /\ net.conn[p].nd = i /\ Open(net, i)
                  /\ net' \in Readable(net, p)

(* flushPacketQueues, from netInputAux and from the menus                  *)
Flush(p) ==
  /\ Goes /\ loop.at \in {"menu", "flush"}
  /\ net' \in Flushed(net, p)
  /\ UNCHANGED loop

(* DoConnectingDialog                                                      *)
UserOpens(p) ==
  /\ Goes /\ loop.at = "menu" /\ net.conn[p] = NoConn
  /\ \E server \in BOOLEAN, gen \in Gens : net' = OpenConnection(net, p, gen, server)
  /\ UNCHANGED loop

(* DoConnectingDialog, nextControlType, closeDisconnectedConnections,      *)
(* closeAllConnections                                                     *)
UserCloses(p) ==
  /\ Goes /\ loop.at = "menu" /\ net.conn[p] # NoConn
  /\ net' = CloseConnection(net, p)
  /\ UNCHANGED loop

Next ==
  \/ Proceed \/ RunCallback \/ Select
  \/ \E p \in Players : RunAlarm(p) \/ Flush(p) \/ UserOpens(p) \/ UserCloses(p)

(* The loop runs on, whatever the peers do, and alarms become due.         *)
Fairness ==
  /\ WF_vars(Proceed \/ RunCallback \/ Select)
  /\ \A p \in Players : SF_vars(RunAlarm(p))

Spec == Init /\ [][Next]_vars /\ Fairness

-----------------------------------------------------------------------------
(* No assertion fails, nothing is closed twice and nothing freed is used,  *)
(* but for the two things a flush within a handler can do: lose the        *)
(* connection whose data is being read, or meet another one whose close    *)
(* callback is still to come.                                              *)
NothingStale == net.bad \in {"", HandlerFreed, FlushedClosed}

(* Whatever may call back refers to something that is still there, and no  *)
(* open descriptor is forgotten.                                           *)
EachIsOwned ==
  Goes =>
    /\ \A p \in Players :
         /\ net.attempt[p].gen \in {0, net.conn[p].gen}
         /\ net.alarm[p] # NoAlarm => net.alarm[p].gen = net.attempt[p].gen
    /\ \A k \in 1 .. Len(net.callbacks) :
         LET c == net.callbacks[k]
         IN  IF c.kind = "resolve"
             THEN /\ c.of[2] = net.attempt[c.of[1]].gen
                  /\ net.attempt[c.of[1]].phase = "resolving"
             ELSE LET owner == net.desc[c.of].onClose
                  IN  owner # <<>> => net.conn[owner[1]].nd = c.of
    /\ \A i \in Descs : Open(net, i) =>
         \E p \in Players : i \in {net.attempt[p].nd, net.conn[p].nd}

(* An attempt always has something that carries it on: the player waits in *)
(* a dialog that only looks at its state.                                  *)
AttemptGoesOn ==
  Goes => \A p \in Players :
    LET a == net.attempt[p]
    IN  CASE a.phase = "none" -> TRUE
          [] a.phase = "resolving" ->
               \E k \in 1 .. Len(net.callbacks) :
                 net.callbacks[k] = [kind |-> "resolve", of |-> <<p, a.gen>>]
          [] a.phase = "connecting" ->
               net.alarm[p].kind = "timeout" /\ Open(net, a.nd)
          [] a.phase = "waiting" -> net.alarm[p].kind = "retry"
          [] a.phase = "listening" -> Open(net, a.nd)

(* Wherever packets may be flushed or the player may close a connection, a *)
(* connection that counts as connected has an open socket: netInputAux     *)
(* calls back before and after it flushes.                                 *)
ConnectedIsOpen ==
  Goes /\ loop.at \in {"menu", "flush"} =>
    \A p \in Players : net.conn[p].connected <=> Open(net, net.conn[p].nd)

(* A connection goes from connecting to connected to lost, once, unless it *)
(* is closed on the way; errorFeedback and closeFeedback tell each change. *)
Status(p) ==
  IF net.conn[p] = NoConn THEN "none"
  ELSE IF net.conn[p].connected THEN "connected"
  ELSE IF net.conn[p].disconnected THEN "lost" ELSE "connecting"

Changes ==
  {<<"none", "connecting">>, <<"connecting", "connected">>,
   <<"connecting", "none">>, <<"connected", "lost">>,
   <<"connected", "none">>, <<"lost", "none">>}

OneLife ==
  [][\A p \in Players :
       \/ Status(p)' = Status(p)
       \/ \E c \in Changes : Status(p) = c[1] /\ Status(p)' = c[2]]_vars

(* The loss of the socket reaches the flags of the connection.             *)
LossNoticed ==
  \A p \in Players :
    net.conn[p].connected /\ ~Open(net, net.conn[p].nd)
      ~> ~net.conn[p].connected \/ ~Goes

(* A client never rests in an attempt: addresses time out, and the list is *)
(* tried again.                                                            *)
KeepsTrying ==
  \A p \in Players : \A phase \in {"resolving", "connecting", "waiting"} :
    net.attempt[p].phase = phase ~> net.attempt[p].phase # phase \/ ~Goes

(* Callbacks, alarms, descriptors and connections refer to one another     *)
(* without loose ends.                                                     *)
NoLooseEnds == TypeOK /\ EachIsOwned /\ AttemptGoesOn /\ ConnectedIsOpen

(* Neither an attempt nor a lost connection stays as it is.                *)
NothingRests == LossNoticed /\ KeepsTrying
=============================================================================
