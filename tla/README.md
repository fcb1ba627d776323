# Verification of The Ur-Quan Masters

The Ur-Quan Masters (`sc2/src`, C) is a single-player space adventure with a
two-player duel, SuperMelee, that can be played over a network. The adventure
is mostly data, and the interesting part of it runs over months of game time.
The network game is not: two programs, each of which simulates the whole battle,
agree step by step on the teams, on the moment to start, on the random seed, on
every frame of input, on the frame in which a battle is interrupted, and on
leaving, over a connection that delays everything and may go away. That is the
core of this project. Around it are the parts of the libraries that have
threads, callbacks and timers (the draw queue, the speech streams, the packet
stream and the life of a connection), and the two parts of the adventure that
are state machines of their own: the clock with its events, and the missions of
the fleets.

Paths below are relative to `sc2/src` unless they begin with `doc/`, which
stands for `sc2/doc`.

## 1. Inventory

### SuperMelee over a network (`uqm/supermelee`, `uqm/supermelee/netplay`)

| Part | State | Operations | Works with |
|---|---|---|---|
| Connection (`netconnection.c`, `nc_connect.ci`, `libs/network`) | `state`, `stateFlags`, callbacks, read buffer, send queue | open, accept, retry, close, poll | everything below reads and writes its state |
| Packet stream (`netrcv.c`, `netsend.c`, `packetq.c`, `packet.c`) | bytes received, packets queued | read and frame packets, queue, flush | handlers; sockets |
| Packet handlers (`packethandlers.c`) | none of their own | one per packet type; each tests the state and refuses or acts | all negotiations |
| Confirm negotiation (`proto/npconfirm.c`) | `handshake.localOk`, `remoteOk`, `canceling` | confirm, withdraw; HANDSHAKE0, HANDSHAKE1, CANCEL, CANCELACK | setup menu, Update negotiation |
| Update negotiation (`melee.c`, `meleesetup.c`, `notify*.c`) | current and last sent value of every slot and team name | local change, remote change, bootstrap | Confirm: a change withdraws a confirmation |
| Ready negotiation (`proto/ready.c`) | `ready.localReady`, `remoteReady`, one callback | local ready, READY received | meetings of `netmelee.c`, end of battle |
| Reset negotiation (`proto/reset.c`) | `reset.localReset`, `remoteReset`, one callback | exit, RESET received, wait | all phases of a game |
| Game phases (`melee.c`, `netmelee.c`, `pickmele.c`, `battle.c`) | `conn->state`, `CHECK_ABORT`, position in the program | prepare, meet, choose a ship, fight, end, leave | Ready, Reset |
| Battle (`battle.c`, `netinput.c`, `tactrans.c`) | frame counter, delayed inputs, end frame, music | a frame; block for input; negotiate the end | Ready, checksums |
| Checksums (`checkbuf.c`, `checksum.c`, `crc.c`) | two rings of checksums | add, verify | battle |

Parts interact by calls from the menus and the battle into `Netplay_*`, by
packets, by the callbacks that the Ready and Reset negotiations hold, and by
the shared connection state, which packet handlers change while a menu or the
battle is inside `DoInput` or a blocking poll. There is one thread for all of
this: the concurrency is that of two machines, and of handlers that run within
the polls of unfinished operations.

What is hard: packets that cross; withdrawals; the same flag read by a handler
and changed by the player in between; packets of an old phase in a new one; a
callback that changes the state in the middle of a poll; buffers exactly as
large as the other side can run ahead; waits that depend on each other; and a
player who leaves in the middle of any of these.

What makes it correct: no packet is refused (a refusal closes the connection),
both players fight with the same fleets, seed, delay and inputs, neither side
enters a phase the other does not, everything waited for comes, and leaving a
game brings both back to the menu.

### Libraries (`libs`)

| Part | State and operations | Hard behaviour | What makes it correct |
|---|---|---|---|
| callbacks, alarms (`callback/`) | list of callbacks with two end pointers; heap of alarms | calls nested in calls, removal from within | each callback runs once, in order, or is removed |
| heap (`heap/`) | array in heap order; add, pop, remove | removal of an inner entry, resizing | order kept; indices right |
| threads, tasks (`threads/`, `task/`) | birth and death slots, task slots | none in this program: its tasks are begun once, by one thread, and end when told | no slot lost |
| draw queue (`graphics/dcqueue.c`) | ring of commands, insertion point, batching depth | full queue within a batch, counters read without the mutex, a wait that begins after the broadcast | commands run in order, batches whole, nobody waits for ever |
| streams (`sound/stream.c`, `trackplayer.c`, `mixer/mixer.c`) | ring of buffers, tags, chunks, the source of the mixer | decoder task against mixer and conversation | the whole phrase is heard in order, its subtitle in step, and its end is noticed |
| resources, `uio`, strings, video | tables, reference counts, file systems | failures of I/O | sequential |

### The adventure (`uqm`)

| Part | State and operations | Hard behaviour | What makes it correct |
|---|---|---|---|
| clock, events (`clock.c`, `gameev.c`) | date, frames of a day, ordered list of events; a conversation adds, a day takes | an event of the past blocks the list; chains over the ends of months | none is missed, and each comes after the days asked for |
| fleets, missions (`gameev.c`, `comm/*`) | place, destination, days to go, strength and its change per day; states of the missions | a mission finds the fleets of another one in any state; days in a byte | no mission is stuck; losses are as told; those who are to meet do |
| conversations (`comm.c`) | talk segue: wait for the voice, seek, pause, replay | see streams | the segue ends |

The display list and the physics (`displist.c`, `process.c`, `collide.c`), saved
games (`save.c`, `load.c`, `grpinfo.c`), planets and ships are the rest.

`PROJECT.json` lists all parts with their status, and under `hazards` the
lines where each behaviour above bites, including those that no property
covers yet.

## 2. Modules

```
NetConfirm <- NetConfirmInv <- MCNetConfirm
    |              \<- NetConfirmProofs
    |-- Agreement (implemented by NetConfirm)
NetSetup   = NetConfirm (INSTANCE) + settings with contents
    |<- MCNetSetup   |<- NetSetupProofs (uses NetConfirmProofs by INSTANCE)
NetUpdate <- NetUpdateProofs   the turns for one value, alone
NetReady     operators, used by NetGame and Lockstep
NetGame <- NetGameProofs       games over one connection: meetings, picks, resets
Lockstep <- LockstepProofs     the frames of one battle
NetStream      bytes below the packets   |-- PacketPipe (until a split)
    |<- NetConnectionProofs   the proofs about both, which share no state
NetConnection  connections, callbacks, alarms
    |<- NetConnectionProofs
DrawQueue <- ThreadProofs   |-- DrawOrder
TrackPlayer <- ThreadProofs   a spoken phrase: conversation, decoder task, mixer
GameClock    calendar and events   |-- Countdown
    |<- AdventureProofs   the proofs about both, which share no state
Missions     the fleets, on top of GameClock's daily event
    |<- AdventureProofs
```

`<-` is EXTENDS; `|--` is an abstract specification with the refinement mapping
in the module on the left.

**NetConfirm.** `localOk`, `remoteOk`, `canceling` are the flags of
`stateFlags.handshake`; `state` is `conn->state` (`init`, `inSetup`,
`preBattle`); `inputFunc` is `pMS->InputFunc`, the menu that runs; `chan[p]` is
what `p` has sent and its peer has not handled. Actions: `Confirm`
(`StartMeleeButtonPressed` and `Netplay_confirm`), `Cancel`
(`DoConfirmSettings`, `Netplay_cancelConfirmation`: at any time while the own
confirmation stands, also when the peer has started), `LocalChange`, one action
per handler, and the loss of the connection. Settings packets are a constant
set here: any handler that receives one may answer with up to `MaxReply` of
them. `badPacket` records a refusal (`testNetState` fails, the handler returns
-1, the connection is closed).

**Agreement.** What the code keeps of what `doc/devel/netplay/protocol`
promises of the negotiation. A player is `editing`, `confirmed`, `withdrawn`
(not yet acknowledged), `started`, `out` or `lost`. One may start only on an own
confirmation that stands, when the other is confirmed too, has started, or has
withdrawn without being acknowledged; one who withdraws too late, after the
other's start, is `out` and never starts. The document forbids that withdrawal,
the code does not. `NetConfirm!ImplementsAgreement` is the refinement mapping
(`phaseOf`).

**NetUpdate.** One value (a ship slot, or a team name) on two machines: its
current value, the value last sent and not yet answered (`MELEE_UNSET` when no
turn is open), and the packets. `Handlers` chooses between the two handlers,
`Melee_RemoteChange_ship` and `Melee_RemoteChange_teamName`, which differ. The
rules are those of the code, commented with the rule numbers of the protocol
document that the code cites. Edits may come at any moment, also before the
INIT of the peer; such early edits are remembered, as the code notes them as
sent although no packet leaves.

**NetSetup.** The setup screen of both machines: fleets of several slots, with
`NetConfirm` instantiated for the confirmation. Start needs ships on both sides
(`StartMeleeButtonPressed`); a change withdraws the confirmation. A slot may be
edited at any time the menu lets a player edit, within an open turn too; the
history `again` notes the slots edited so. `FirstShips` and `MaxEdits` are
bounds. Shown to implement `NetConfirm!Spec`'s safety part
(`ImplementsConfirm`).

**NetReady.** `Netplay_localReady` and `Netplay_remoteReady` as operators on a
record of the two flags and the callback.

**NetGame.** Both programs from the setup menu through preparation, choice of
ships, battle and interruptions, back to the menu, `MaxGames` times. `pc` is
the position in the program, `waiting` the loop of `negotiateReady`, `met` the
meetings passed. `Exit` may happen at any point of any game; `HandleReset`,
`DropPacket` (the prelude of every handler while `localReset`), `WaitReset` and
`RefusePacket` are the rest of the Reset negotiation. `PickAborted` and
`PickForgotten` are the two ways in which the choice of ships is aborted: if the
last choice has come in the same poll, the program forgets that it was, and goes
through the meeting `"unchosen"` to a battle without ships. The history `hasty`
notes that a game was begun while something of one that was reset was left: a
ready or handshake flag, a packet on its way, or a side that had not come back
to its menu (`Quit`, `Settled`).

**Lockstep.** One battle in frames: `SendChecksum`, `LocalInput`, `Stall` (the
poll of `networkBattleInput`), `UseInputs`, `PlayOn`, then the five steps of the
end of a battle (comment at `uqm/tactrans.c:152`). `buffer`, `sums`,
`endFrameCount` and `ditty` are the variables of the code. Packets are handled
only where the code polls.

**NetStream, PacketPipe.** One direction of a connection below the packets.
`QueuePacket` is `queuePacket`, `Send` one call of `send()` in `sendPacket` with
what `flushPacketQueue` does after it, `Read` one `recv()` or one packet parsed
in `dataReadyCallback`, and either end may close at any moment. A packet is a
row of cells, its header included, so that framing, partial reads and partial
sends are the code's. PacketPipe is the FIFO all other network modules assume.

**NetConnection.** `net` is everything that refers to anything else: the
NetConnections, their attempts (the `ConnectStateData`, resolving, connecting,
waiting to retry or listening), alarms, descriptors and the list of callbacks;
`loop` is where `DoInput` is between `Async_process`, the menu, the poll, and
the flush. The functions of `netconnection.c`, `nc_connect.ci`, `connect.c`,
`ndesc.c` are operators on the record, so that an action is a callback with all
it calls. `net.bad` names a failed assertion or a use of what was freed.

**DrawQueue, DrawOrder.** `DCQ` and `queue` are the ring and its record; `game`
and `main` are the positions of the two threads. The main thread's steps are
those between which the mutex is free or a counter is read without it. A change
of the video mode is followed by a redraw (`TFB_SwapBuffers (TFB_REDRAW_YES)`)
before the flush goes on: the state `"redraw"` of `main`. The history `batch`
alternates with each batch of the game, so that a command tells which one it is
of; `frame` is the last command drawn, and a change of mode pushed within a
batch (`"reinitInBatch"`) is told from one that is not (`"reinit"`). DrawOrder is
a list in two parts, drawn and pending.

**TrackPlayer.** Three threads: the actions of `DoInput` (`SpliceTrack`, `Talk`,
the four kinds of frames of `DoTalkSegue`, `Replay`, `Pause`, `Resume`,
`StopTrack`), the stream decoder task (`Refill`, and the three ends of a pass
that finds nothing processed), and the mixer (`Play`). `stream` is what
`stream_mutex` guards: chunk, decoder, queued buffers and their tags. The pass
is split where it reads the source a second time (`counted`), as the mixer does
not take that mutex.

**GameClock, Countdown.** `date`, `frames` and `queue` are the clock and its list
of events; `Tick` is `GameClockTick`, `MoveDay` and `HandleEvent` what a new day
does, one event per step; the rest is what the player does that asks for events,
changes the length of a day (`SetGameClockRate`) or loses days
(`MoveGameClockDays`). Countdown knows no calendar: days to go for each event.

**Missions.** `fleet` is the `FLEET_INFO` of eight races, `event` the days until
an event of a mission; `MissionDay` is `check_race_growth` with every mission function
it calls for a fleet that arrives, after the events of that day; `MissionTalk` is a
conversation that starts or changes a mission. `plot` picks the mission a game
is about, with all it involves.

### Abstractions

* In the modules of the negotiations the connection is a FIFO that may be lost
  at any moment; NetStream shows how far that is so.
* An input is the number of the frame it was read for, plus one; 0 is the
  filler of `initBattleInputBuffers`. A checksum is the number of its frame.
  Two machines that use the same inputs compute the same checksums, as the
  simulation is deterministic.
* The length of the victory music is any number of frames up to `MaxDitty`,
  different on each machine. A frame in `DeathFrames` kills a ship on both, as
  their simulations agree. The dead ship's slot stays until it is replaced, so
  inputs continue in every frame, as in the code.
* Inputs of a frame are taken in the order own, other. The code takes them in
  the order of the players; nothing depends on it.
* NetGame has no withdrawals (NetConfirm has them) and no frames (Lockstep has
  them); of the inputs it keeps those sent around a reset. Resets after a loss
  of synchronisation are not taken: they need a simulation that differs.
* The message that tells a player of the peer's reset (`resetFeedback`,
  `melee.c:2213`) is part of the step `HandleReset`. The answer to the RESET is
  flushed before it, and the program neither polls nor does anything else until
  the player has read it, so the other machine cannot tell the two apart. The
  side that asked for the reset shows none. What is left to note is that fairness
  of the side that is told includes a player who closes the message.
* A machine that loses the connection leaves at once; what its program does
  with the rest of the game alone is not modelled. In a build with assertions
  `waitReady` at `uqm/tactrans.c:217` would stop there instead (a TODO in the
  code names it).
* NetStream: layouts, statistics and urgent packets (which nothing sends) are
  left out; a garbled packet closes the connection, as any refusal does.
* NetConnection: reference counts are left out; the alarms are a set of those
  that may come due, in any order; generations tell two connections of a player
  in a row apart. A name resolves to one or two addresses.
* DrawQueue: a command is a tag of its batch, a signal or a change of the mode.
* TrackPlayer: time is counted in buffers, and one step of the mixer plays one.
  That the mixer plays a buffer between two reads of one pass is rare, and
  counts as a key, of which there are `MaxKeys`. Music, effects and OpenAL are
  left out.
* GameClock: a day has 1 and 2 frames, not 120 and 720, with the rescaling of
  the code; the player acts on a few days of each month.
* Missions: places are names, so that "arrived" is exact. What depends on
  coordinates, the route on the screen and who meets the player, is left out.
* Two machines, one connection; the code has at most that many in practice
  (`NUM_PLAYERS` is 2).

## 3. Runs

Every property of a passing run has one or more mutants in `PROJECT.json`: an
operator in the same module, marked "Faulty" in its comment, that changes one
definition the way a slip in the C code would and makes TLC find the property
violated. The invariants named below in brackets are the parts of the one before
them; each has a comment in its module and a mutant of its own.

| Run | Instance | Shows |
|---|---|---|
| `confirm` | both kinds of settings, 1 reply, 3 packets each way, withdrawals at any time | `OnlyLateCancelRefused`: nothing is refused but the CANCEL of a committed confirmation; `CertainStart`: when one side starts, the other has, must, or has withdrawn too late, with no settings on their way; `ConfirmationsEnd`: confirmations lead to the start, withdrawals are acknowledged; `ImplementsAgreement` |
| `update` | 3 values, both handlers | `TurnsInStep`: the turns of both sides belong together [`TypeOK`, `TurnAccounting`, `SentIsWhatWasSent`]; `UpdatesSettle`: they end; `ShipsAgree`: with the same ship on both, edits at once included |
| `setup` | one slot, two ships and none, three edits, also within a turn, withdrawals at any time | `SameFleets` at the start, in slots nobody edited twice within a turn; `FairStart` [`TypeOK`, `NoOpenTurn`, `StartWithShips`, `OnlyLateCancelRefused`]; `ImplementsConfirm` |
| `lockstep` | delays 0 and 1, a checksum every frame, deaths in frames 1 and 2 | `SameInputs` in every frame; `EndTogether`: same frames of interruption; `BuffersSuffice` [`TypeOK`, `NeverFarAhead`, `NoPacketRefused`, `NoFalseSyncLoss`]; `BattleEnds`: nobody blocks for ever |
| `game` | two games, up to two deaths in each, either of which may be left at any moment | until a game is begun with something left of one that was reset: `MeetTogether`; `FlagsAgree` [`TypeOK`, `Prepared`, `ResetNotLost`, `NoAssertionFails`]; `OnlyLatePacketRefused`; `WaitsEnd`: meetings end, resets are answered |
| `reset_hang` | one game, exit at any point | the violation of `ResetCompletes`, section 6 |
| `stream` | headers of 2 cells, packets of 2 to 4, read buffer 4, socket 5, three packets, one split | `StreamIsWhole` [`StreamTypeOK`, `WholeStream`, `NeverFull`]; `PipeUntilSplit`: implements PacketPipe until a send is split; `AllArrives`: packets and the end of the connection |
| `connection` | two players, each client or server, two connections each, two addresses | `NoLooseEnds` [`TypeOK`, `EachIsOwned`, `AttemptGoesOn`, `ConnectedIsOpen`]; `NothingStale`, with two exceptions (section 6); `OneLife`; `NothingRests`: attempts go on, losses are noticed |
| `draw` | ring of 4, slow flushes from 2 commands or 3 handled, batches nested twice, fullscreen key | `QueueConsistent` [`TypeOK`, `SizesAgree`, `NothingThrownAway`]; `NoTornFrame`: no update of the screen shows a part of a batch, but for a change of mode pushed within one; `SignalMeansDone`; `ImplementsOrder`; `NobodyWaits`: flushes end, and so does every wait of the game |
| `track` | two buffers, three chunks of 0 to 2 buffers, both scrolls, two keys | `SubtitleInStep`; `SoundInOrder`: all of the phrase is heard, in order, and nothing in a pause; `PhraseEnds`; `ReadSafely` [`TrackTypeOK`, `KeptWhileRead`] |
| `clock` | January 2155 to May 2156, two requests of the player, 14 lost days | `ListInOrder` [`TypeOK`, `NothingMissed`, `AtMostOneEach`, `DailyEventLast`]; `ChainsInTime`: chains of events go on, the Arilou gate opens each month; `ImplementsCountdown` |
| `missions` | five plots, three and six months of two lengths, marches of 1 and 12 days, four prey | `MissionsGoOn` [`MissionsTypeOK`, `NoMissionStuck`, `HalfIsLost`, `LastOneGone`: the Kohr-Ah win only when all their prey is destroyed]; `Rendezvous`; `KohrAhWin`: they do |

### Bounds

* **Packets per direction** (`Room`): each side has at most one of each
  control packet on its way (`Once` in `IInv`, proved), so three packets
  already hold every pair with settings between them; the proofs have no bound
  to rely on.
* **Values**: a turn involves the value before, the value sent and the value
  received; three values give every equality pattern among them. Sequences of
  edits are unbounded in NetUpdate, and the theorems take any set of values.
* **Slots**: the slots are independent in the code, except through the
  confirmation; one slot and three edits give a second turn and a withdrawal.
* **Delays and frames**: delay 0 and delay 1 are the smallest with and without
  filler, and two deaths in consecutive frames make the next interruption begin
  while the peer is still ending the last one. Delay 2 has been checked too (2.7
  million states) and is left out for its length; the theorems of section 4 show
  every safety property of the run for any delay and any interval between
  checksums.
* **Games**: a second game is needed to see state that outlives the first; a
  third adds nothing that is not in the second, as the flags that survive a
  game are booleans.
* **Stream**: a packet that fills the read buffer exactly, one that leaves room
  for a header only, and a socket that takes one packet and part of a second.
  After one split the stream is garbled for good, so a second adds nothing.
* **Connections**: two of one player in a row show what the first leaves
  behind; two players share the loop and the list of callbacks. With two
  addresses there is a next one and a last one.
* **Ring**: a ring of four holds three commands: a batch that fits, one that
  overflows, and one that finds another's commands before it. All thresholds of
  the flush (slow down, livelock) lie within it.
* **Phrase**: three pages give a first, an inner and a last one, two buffers the
  tag of one while the other plays; empty pages are included.
* **Clock**: the leap year 2156 with the chains over the end of a year and of
  February. All the game's events but the missions of fleets are in it.
* **Missions**: each plot has every fleet its functions look at; lengths of three
  months are those a calendar gives at most and at least.

The properties of the run `game` hold until a game is `hasty`, that is, begun
with something left of one that was reset. Players may leave any game, and a game
after one that was reset is checked in full if both machines are back in their
menus with no flag set and nothing on its way, which is what the Reset negotiation is
for but does not ensure (section 6: "An assertion after a reset", and the run
`reset_hang`). The
theorems about NetGame have the same condition in their statements and none
besides.

### Fairness

Weak fairness is assumed of what the programs do by themselves, `DoInput`
calling the menu or `DoBattle` again and again, and of the handling of arrived
packets and of a closed connection, as every wait polls the network with a
timeout (`NETWORK_POLL_DELAY`, `MAX_BLOCK_TIME`); of a player, only that a message
about the peer's reset is closed. Nothing is assumed of the
players: liveness properties that need one to confirm or to choose a ship are
stated with that as a condition, or excepted. The connection need not stay open
and need not be lost.

The libraries: the main loop goes round (DrawQueue, NetConnection), as it waits
for nothing but time; a game that has begun to push or to wait goes on with it,
and need not begin. The decoder task runs for ever; the mixer is called by the
audio device again and again, so it plays a source that is playing infinitely
often (strong fairness, as the task may stop and restart it); `DoInput` calls
the conversation every frame, and takes the mutex in one of many frames in which
the task does not hold it (strong). Alarms come due (strong, as an alarm may be
replaced). A day goes by. No player is assumed to press any key, but that a
pause ends.

Deadlock is checked in Lockstep, where only finished battles may stop, and in
TrackPlayer. In the other modules the players may stop anywhere, and the runs
of the clock and the missions end at their bounds.

## 4. Proofs

### The Confirm negotiation

`NetConfirmProofs` proves, for any set of settings
packets and any bounds, from the assumptions that there are two machines and
that settings packets have one of two types:

* `TypeCorrect`: `Spec => []TypeOK`.
* `Negotiation`: `Spec => []NegotiationInv`, the inductive invariant.
* `OnlyLateCancel`: `Spec => []OnlyLateCancelRefused`: the one packet that is
  ever refused is a CANCEL that comes too late.
* `Waiting`: the menu is in step with the confirmation.
* `StartAgreed`: `Spec => []CertainStart`: when one side starts the other has
  started, must start, or has withdrawn too late, and no settings are on their way.
* `Refinement`: `Spec => ImplementsAgreement`.

Players may withdraw at any time in all of these, as the code lets them.

*Why `IInv` is needed.* Which packet is refused says nothing of what is on
its way, so it is not inductive. `IInv` (module NetConfirmInv) says what a
channel may hold and what that means for both sides: at most one control packet
of each type, in a fixed order, with an acknowledgement between a HANDSHAKE1
and a later CANCEL (`Ordered`, `AckBetween`); `canceling` holds exactly while a
CANCEL or its acknowledgement is on its way (`CancelPart`); what the peer knows
of a confirmation it has been told and will be told of its withdrawal
(`ConfirmPart`); settings arrive only behind a CANCEL or before any
confirmation (`SettingsPart`); a side that has started has nothing left to
receive (`StartPart`).

*The negotiation as the code has it.* The protocol document says that a player
may cancel as long as he has not received the other's confirmation; the code
lets him cancel later (`Cancel` tests neither `remoteOk` nor `canceling`).
`NegotiationInv` says how far that
leads: either `IInv` holds, or a CANCEL has come or will come too late
(`LateCancel`). Then one side has started, the CANCEL is the next packet it
will refuse, and the other side waits for an acknowledgement that never
comes, so it does not start. There is no way back from there and nowhere else to go.

*How the proof goes.* Lemmas on one channel (what `Tail` and appending do to
`Has`, `Ordered`, `Covered`); `Sides`, which unfolds `IInv` for one side and its
peer; one lemma per action that re-establishes the parts for both sides;
`InvStep` combines them. The refinement uses `NegotiationInv` in the steps that
start (the peer is confirmed, or its CANCEL comes too late, which makes it `out`)
and in those after a late CANCEL (the peer never starts).

### The setup screen

`NetSetupProofs` proves, for any number of slots and any ships:

* `ScreenInvariant`: `Spec => []ScreenInv`, the inductive invariant.
* `StartIsFair`: `Spec => []FairStart`: both have ships and no turn is open when
  a side starts, and only a late CANCEL is refused.
* `StartWithSameFleets`: `Spec => []SameFleets`: both players start with the same
  ship in every slot that nobody has edited within an open turn.
* `FleetsFit`: `Spec => ImplementsConfirm`: the settings, seen as packets
  without contents, are a negotiation of NetConfirm.

*The slots edited within a turn* are an exception in the property, not an
assumption of the theorem: a player who edits a slot twice within a turn may start with
another fleet than the peer, the finding "Different fleets" of section 6. Such
edits are steps of the model, and all other slots agree in spite of them.

*Why `ScreenInv` is needed.* That the fleets agree at the start depends on
every change made since the screen was opened, and on the order of its packets
and those of the confirmation. `ScreenInv` is `NegotiationInv` and, as long as
no CANCEL has come too late, four statements for each slot (`TurnInv`). There
are as many packets about it on their way as open turns (`Balanced`). What
closes an open turn comes before the HANDSHAKE1 by which its side starts, or is
still to be asked for (`Answered`): so no turn is open at the start. What a side
notes as sent is what it has, the last packet of the owner tells the owner's
ship, and a peer with nothing open and nothing to hear has it already
(`ShipsFollow`). And no turn is open before the peer's INIT (`NoTurnInInit`).
Once a CANCEL has come too late nobody starts any more.

*How the proof goes.* Each action is a step of NetConfirm (which is `FleetsFit`
too), so what `NetConfirmProofs` proves about such steps can be cited, through
`Conf == INSTANCE NetConfirmProofs`. For a slot, an
action of either side is one of four kinds of steps (`SlotStep`): it leaves the
slot alone, opens a turn, edits within one, or hears a packet. Each kind has
one lemma per part of `TurnInv`. Lemmas that count the packets in a `Tail` or a
concatenation keep the sequences out of them.

### The draw queue

`ThreadProofs`, which holds the proofs about both modules of threads that share
data, proves of DrawQueue, for a ring of any size and any thresholds (assumption `DrawQueueAssumption`, of which the proofs need that the
ring has two slots or more and that the bounds are numbers):

* `TypeCorrect`: all indices stay in the ring and no counter becomes negative.
* `CountersAgree`: `Size` and `FullSize`, which threads read without the mutex,
  are the distances of the pointers, and one slot stays free.
* `NeverThrownAway`: Pop never meets the state in which it would empty the queue.
* `Consistency`: the three together, the invariant `QueueConsistent` of the run.
* `FramesWhole`, `SignalsTrue`: `NoTornFrame` and `SignalMeansDone`.
* `OrderImplemented`: `Spec => ImplementsOrder`.

*The ring.* `Inv` is the type, the agreement of counters and
pointers (`Agree`), and that each slot counted as taken holds a command; it is
inductive as each operation on the queue keeps `Agree`, by one lemma each.
Lemmas on the ring (`NextSlot`, `DistanceType`) keep modular arithmetic out of
the proofs of the actions.

*The list.* `At` is the command a number of places behind the
front. Seen so, each action is one of five kinds of steps (`GameKinds`,
`MainKinds`): the list stays (`Same`), is published (`Publishes`), grows at its
end held back (`Puts`) or in sight (`Appends`), or loses its first command
(`Takes`). Each invariant is then shown once per kind. Neither property is
inductive. For the frames, `BatchInv` is about the list of commands with the last one
drawn in front of it (`Item`): those held back are of the open batch or changes of
mode (`Waiting`), a command of that batch in sight has another behind it that is in
sight too and is not a change of mode (`InSight`), no batch is interrupted by a
change of mode that was pushed outside of one (`Unsplit`), and where the screen is
updated no batch lies across the front (`Undivided`). For the signals,
`SignalInv` follows the signal from the list through the hand of the main thread
to the semaphore, with nothing but a change of the mode behind it. The
refinement needs no more than `Inv`: each kind of step is a step of DrawOrder on
the two parts of the ring, read as sequences (`PartsRight`).

### The speech

The second part of `ThreadProofs` proves of TrackPlayer, for any number of
buffers, of chunks and of keys, any lengths of the chunks and both scrolls:

* `TrackInvariant`: `TrackSpec => []TrackInv`.
* `ReadsSafely`: `TrackSpec => []ReadSafely`: the list is there while the task
  reads it, and every index is in its range.
* `SubtitleFollowsSound`: `NumBuffers >= 2 => (TrackSpec => []SubtitleInStep)`.
* `SoundStaysInOrder`: `TrackSpec => SoundInOrder`, a property of steps.

*The condition on the buffers.* `OnChunkEnd` tags `last_q_buf`, the last buffer of
the page before, with the next page. With one buffer that is the very one the
task has just unqueued: its tag was looked at already, and TLC shows a subtitle
that comes late. The program has 8 buffers (`SpliceTrack`). All else holds for
one buffer too.

*Why `TrackInv` is needed.* That no sound is skipped is about where the mixer is,
and holds because the queue has no gap: counted in buffers, every buffer in it
stands just before the next one, and the last where the decoder is (`Chain`). What was heard
ends where the buffers to be played begin, or after that, when some are played
again (`HeardUpTo`); this speaks of all buffers queued, also those that were
played and not yet unqueued. That the end is found only when all was heard needs that the queue is
full unless the phrase has ended (`Full`), and that a decoder with something left
to read knows it (`Fed`). For the subtitle, every buffer has the tag of its
place (`Tagged`), the page of the first is shown (`Shown`), and at the end of a chunk `last_q_buf`
is the last buffer of the queue (`Noted`). `Phrase` says that chunks follow one another
without a gap; `InStep` which of all this is there in which state of the
conversation. The smooth scroll breaks `Chain` and all that rests on it, which is
why those parts have its condition.

*The loops* of `PlayStream` (`Filled`) and `process_stream` (`Refill`) are recursive
functions from the number of turns to a set of results. That a function with
the recursion exists is shown by the least number of turns for which there is none
(`FillingExists`, `RefillingExists`), that each result is as it should be by
the least turn after which it is not (`Filling`, `Refilling`: the invariants of
the loops). So no induction theorem is needed.

*How the proof goes.* Each operation on a stream has a lemma: decoding a buffer
(`DecodedKeeps`), taking the next chunk (`ChunkEndKeeps`), unqueueing
(`UnqueuedKeeps`), a turn of each loop (`FillStep`, `RefillStep`). As only
splicing and stopping change the list of chunks, `CarriedOver` lets the other
actions be proved with the list fixed, and `Extended` says what two more chunks
change. One lemma per action combines them.

### The Update negotiation

`NetUpdateProofs` proves for any set of values, from the assumptions that there
are two machines, that one is the owner of the slot, and that `MELEE_UNSET` is
no value:

* `TurnsCorrect`: `Spec => []TurnsInStep`.
* `ShipAgreement`: `Spec => []ShipsAgree`, that is, both machines have the same
  ship when nothing is on its way, however the changes crossed.

*Why more is needed.* Each statement has conditions of its own (an edit before
the peer's INIT, an edit within a turn), and none says what an arriving packet
carries. `Inv` adds that an INIT comes first, to a side that waits for it
(`InitFirst`), that the packets on their way and the open turns balance also while one side has
not had the INIT yet (`Balance`), and which value a side notes (`NoteRight`).
For the ships, `ShipInv` follows the owner, whose value wins: the last packet on
its way from the owner tells the owner's value (`OwnerTells`), and a guest with
no open turn and nothing more to hear from the owner has it already (`Told`).
When nothing is on its way the balance says that no turn is open, so this is
agreement.

### The battle

`LockstepProofs` proves every safety property of the run `lockstep`, for every input
delay, interval between checksums, set of frames in which ships die and length of
the music, from the assumptions that there are two machines, that the set is
finite, and that the numbers are natural ones and the interval is not 0.
The first part is about the inputs:

* `InputsAgree`: `Spec => []SameInputs`.
* `NeverAhead`: `Spec => []NeverFarAhead`, one of the parts of `BuffersSuffice`.
* `NoOverflow`: an input that arrives finds room in the buffer of
  `2 * delay + 2` entries.

The second is about the interruptions of the battle:

* `BattleTyped`: `Spec => []TypeOK`.
* `EndsAgree`: `Spec => []EndTogether`.
* `NothingRefused`: `Spec => []NoPacketRefused`.

The third is about the checksums and concludes:

* `SumsMatch`: `Spec => []NoFalseSyncLoss`.
* `RoomForAll`: `Spec => []BuffersSuffice`.

*The inputs.* Inputs are numbered by the frame they were read for. In a
channel they follow one another without a gap, whatever packets stand between
them (`Holds`); in a buffer the front belongs to the frame that comes next
(`Right`), the own buffer reaches as far as the machine has read (`OwnInv`), and
the other's buffer and the channel together reach as far as the peer has sent
(`OtherInv`). A machine that has used frame n of the peer's inputs knows that
the peer has sent them, delay frames early, which bounds the distance (`NotFar`)
and with it the buffer. The interruptions of the battle enter through the Ready
negotiation (`ReadyInv` says where its callback may move the program), and the
frame counter stands still there. Three actions move
an input (reading and sending one, receiving one, using one of each); for all the
others one lemma each for a step that sends, receives, or does neither suffices.

*The interruptions.* A READY carries nothing, and what it means depends on how
often the machines have met. So the argument numbers the meetings: a machine that
has passed n of them has given n or n + 1 signals (READY or FRAMECOUNT), and an
interruption takes five, of which the second alone is a FRAMECOUNT. The number
says where the machine is (`At`), and of each packet on its way how many signals
come before it (`Numbered`); no machine is more than one meeting ahead (`Close`).
From this follows which packet may arrive in which state. `Told`, `Ending` and
`Agreed` carry the frame from the proposals to the interruption: a machine that is
still negotiating has not run past the frame it knows of, and the first machine
to know both proposals has the later one, which the other will have too.

*The checksums.* A checksum is sent before the input of its frame, so in a
channel each input follows the checksum of its frame or that has come already
(`Follows`); a machine that has the input has the checksum (`OtherSums`). It is not
overwritten before it is compared, as the frames whose checksums may be needed or
on their way lie less than `2 * delay + 2` apart (`NotFar`), and frames so close
have entries of their own in the ring (`EntryApart`). The window of
`PacketHandler_Checksum` lets them all through for the same reason.

### The games over a connection

`NetGameProofs` proves, for any number of games and of ship deaths in each, any
of which may be left at any moment, from the assumptions that there are two
machines and that one of them is the host:

* `PlacesInvariant`: `Spec => [](hasty \/ Clean)`.
* `FlagsInvariant`: `Spec => []FlagsAgree`.
* `MeetTogetherInvariant`: `Spec => []MeetTogether`.
* `LatePacketInvariant`: `Spec => []OnlyLatePacketRefused`.

*The condition* `hasty` is in the properties: a game begun with something left of
one that was reset. In it a stale READY makes the machines meet without each
other, which the second finding on resets in section 6 shows to fail an
assertion. It is the least one can ask: the Reset negotiation clears no other
flag than its own.

*Why `IInv` is needed.* None of the three says what a packet on its way means,
and a READY alone means nothing. `IInv` gives each machine a place (`At`): the
game, the number of deaths, and what it negotiates now or next, ten stages from
the handshake to the end of the game. At each place a machine says something,
a few packets that end with its signal (`Whole`), and goes on when it has
signaled and has the other's signal. So the places of two machines are equal or
next to each other, and what one has said is what the other has heard, followed
by what is on its way (`Flow`). This is what tells which packet can arrive in
which state. The rest of `IInv` ties the place to the variables of the program
(`Placed`).

*Resets.* A machine that leaves a game says at its place only a part of what it
would (`Parts`), then perhaps one more BATTLEINPUT, then RESET (`End`); its peer
answers, and may still say a BATTLEINPUT or READY after its own RESET, to a side
that has asked for the reset (`Late`): the one packet that may be refused.
`Resets` and `Outgoing` say that of two machines one has always sent the RESET
the other waits for, whether both ask at once or one answers. A side whose choice
was aborted and forgotten stops at the meeting `"unchosen"` as one does that leaves.

*The next game.* A side that returns to its menu keeps what the game left in its
variables. `Settles`, which `Leftovers` says of both, knows what matters of it: the seed
and the peer's delay are those of this game, and nobody waits or aborts. If
both are in their menus with no flag and no packet left, the first confirmation
makes this the state after a game played to its end: `FreshStep` builds `IInv`
anew from `Leftovers`. `SettleStep` carries `Leftovers` along, and once `hasty`
always `hasty` (`HastyStays`); `Clean` is `IInv` and `Leftovers`.

*How the proof goes.* `Frame`: a step of one machine leaves the other's
variables alone. Each action is then one of a few kinds, each with a lemma: it
stays at its place and says something (`SayStep`) or hears something
(`HearStep`), goes on to the next place, stops, or does something aside of the
stream (`AsideStep`). Properties of places and of rows of packets (`Following`,
`Whole`, `Parts`) are lemmas of their own.

### The connections

`NetConnectionProofs` proves, for any finite set of players and any number of
addresses:

* `SoundInvariant`: `Spec => []IInv`.
* `NoLooseEndsInvariant`: `Spec => []NoLooseEnds`.
* `NothingStaleInvariant`: `Spec => []NothingStale`.
* `OneLifeProperty`: `Spec => OneLife`, a property of steps.

*Why `IInv` is needed.* `NoLooseEnds` says that what may call back has an owner,
but a function that closes something relies on more: that the socket of an
attempt belongs to no other attempt or connection (`Held`), that the list holds
each callback at most once (`Queue`) and exactly those that someone waits for
(`AttemptSound`, `DescSound`), that an attempt belongs to a connection that was
never connected (`ConnSound`), and that all close callbacks are among those that
`Callback_process` goes through, except right after the poll (`Timely`): so none
is left where a flush or the player may close the same connection, which is what
the comment in `netInputAux` claims.

*How the proof goes.* The functions call one another in the middle of their
work, when the structures are not sound. So each function has a lemma from the
state its caller leaves it in: the attempt of one player may hang in the air
(`Around`, `Loose`, `Adrift`), a descriptor may be held by the caller alone (the
set `S` of `Sound(n, S)`). `CloseAttemptSound` starts from an attempt that need
only own what it refers to (`OwnEntry`); `ConnectedSound` from a descriptor
without owner; the outcomes of `connectHostNext` from an attempt without alarm
and socket (`HostNextSound`). The actions are compositions of these. Each lemma
also says what becomes of the connection, which gives `OneLife`.

### The packet stream

The last part of `NetConnectionProofs` proves of NetStream, for any number and any lengths of packets, any sizes
of the socket and of the read buffer, and any pieces in which `send()` and
`recv()` take the bytes, from the assumption that a packet is at least as long
as its header and fits the read buffer:

* `StreamInvariant`: `StreamSpec => []StreamInv`.
* `Whole`: `StreamSpec => []StreamIsWhole`: until a packet is split, every packet on
  its way is whole and in order, and `recv()` is never called with a full buffer,
  whose length 0 would look like the end of the connection.
* `IsPipe`: `StreamSpec => PipeUntilSplit`: until then this is the FIFO that the
  modules of the negotiations assume.

*The condition on splits* is the finding "A packet sent in parts is garbled".
After a split only the types, the queue and the place of the flush are still
proved; nothing else is true.

*Why `StreamInv` is needed.* Where a packet begins in the read buffer is known
only from the length in the header of the one before, so the parser is right
only if everything before was. `WireInv` says it of the read buffer and the socket
together (`Wire`): each cell belongs to a packet of which all cells that can be
there are, and behind whose end the next one begins (`InPacket`); the first
cell is of the packet handled next, the last is the end of the packet sent last. `QueueInv`
and `FlushInv` tell what `send()` takes, and `RoomInv` that a buffer left by the
parser is not full: a whole packet would have been taken off.

*How the proof goes.* The wire changes in four ways: it stays while bytes move
from the socket to the buffer, its end is lost (`ShortensWire`), a packet is put
behind it (`ExtendsWire`) or taken off its front (`TakesOffWire`). Each way has
a lemma on what becomes of `InPacket`; `FrontPacket` says what the parser finds. One
lemma per action combines them. The refinement needs no more
than `StreamInv`: queueing a packet and handling one whole are the steps of
PacketPipe, all else is a stutter.

### The clock

`AdventureProofs` proves, for any lengths of a day, any solar systems, any number
of years to the victory of the Kohr-Ah (one or more), of lost days and of
requests of the player, at any time and without an end of the game:

* `ClockInvariantHolds`: `Spec => []ClockInvariant`.
* `ListStaysInOrder`: `Spec => []ListInOrder`: no event is missed, doubled or
  stands after a later one, and the daily event is the last of its day.
* `ChainsStayInTime`: `Spec => []ChainsInTime`: the chains of events go on, and
  the Arilou gate is open from the 17th to the 19th of each month, for ever.
* `ClockIsCountdown`: `Spec => ImplementsCountdown`: the list of dates is a
  countdown of days for each event.

*The calendar.* `DayNumber` of GameClock, which no code computes, gives each date
the number of its day. It grows with the date (`DatesInOrder`), a day later is
one more (`NextDayIs`), and a year, months or days later by `ValidateEvent` lie
within the bounds Countdown allows (`YearsLater`, `MonthsLater`, `DaysLater`), in
leap years too. So the list is in order when its numbers are, and a day that
goes by takes one off each.

*The loop of `ValidateEvent`* is the recursive function `Carried`. Taking a month
off the day keeps its number (`MonthOffSame`), so the function that gives each day
the date of the same number satisfies the recursion: it is the witness by which
`Carried` exists (`CarriedIs`). That the loop ends with a date, and the one of that
number, follows by the smallest day of which it does not (`CarriedDate`).

*Why `ClockInvariant` is needed.* That an event is put in its place takes a list
in order (`Sorted`, part of `ListOK`), an entry that is free (`TableSuffices`: of
the 18 there are, no more events than there are kinds) and a date that is not past.
That a chain goes on says nothing of the state in which its next event is handled:
`StoryOK` says for each state of the story which events wait. The gate's
dates (`GateOK`) depend on the day on which each of its two events was handled,
and that is the day for which it was asked because no event is missed: each of the
parts needs the others. In the middle of a day, when some of its events
are handled, the list is in order for what is left of it (`now` of `ListOK`).

*How the proof goes.* `InsertedIs` says what `AddEvent` does to a list in order;
`StoryKept`, `ListHandled` and `GateHandled` what one event does to the story,
the list and the gate. The other actions move the date with nothing due, ask for
one event, or change the length of the day, of which a part is always left
(`RescaledIs`). The refinement compares days to go before and after (`TogoStep`).

### The missions

`AdventureProofs` also proves, for any days that three and six months may have
(1 to 366), any marches of the Kohr-Ah (1 to 255 days), any of the seven other
races as their prey, and the conversations at any time (`MissionsAssumption`):

* `MissionsInvariant`: `MissionsSpec => []MissionsInv`.
* `LastOneIsGone`: `MissionsSpec => []LastOneGone`: the game ends only when every
  fleet the Kohr-Ah hunt is destroyed ("All spheres of influence are gone - game
  over", `gameev.c:371`), although the search breaks off at the Druuge and the
  Mycon may be on their way. It is the safety half of `KohrAhWin`, proved from
  `MissionsInv` and itself: only the turn of the Kohr-Ah, the last of a day, can
  end the game (`KohrahEventOn`), and only where it finds nobody (`GenocideEnds`).
* `MissionsCarryOn`: `MissionsSpec => []MissionsGoOn`: the types, among them that
  days fit into their byte; a mission that has begun always has a fleet or an
  event that takes it on; it costs half of the ships but for the share of a
  day; and `LastOneGone`.
* `RendezvousKept`: `MissionsSpec => []Rendezvous`: the Thraddash are on their way
  home, or come to the battle two days after the Ilwrath at most.

*Why `MissionsInv` is needed.* That a fleet has half of its ships says nothing of
the days before. Each mission has a course (`PkunkPlot`, `MyconPlot`, `UtwigPlot`,
`ThraddPlot`, `KohrahPlot`): at home, on its way, in a fight, on its way back,
with what the fleet, the event and the GAME_STATE are there. In a fight strength
and remainder together (`Fought`) are what the days so far have left:
`256 * strength + err` falls by the same amount each day, as `err` never equals
`fract` in a fight (where it does, `check_race_growth` takes a ship one day
early: `StrongerFought`). `Aside` says that the
fleets no mission has sent are where they began, or killed by the Kohr-Ah.

*The order within a day* matters: the event comes first, then the fleets in the
order of `avail_race_q`. Between the turn of the Supox and that of the Utwig the
two are a day apart, between the Thraddash and the Ilwrath the distance of the
two is one more or one less. The plots have parameters for what is yet to be felt
of a day; the invariant is the plot at the beginning of one. The two days of
`Rendezvous` are one for the call and one for the Thraddash, who move first.

*How the proof goes.* `GrownIs` says what a turn of one fleet does, `AllGrownIs` takes
the recursive function of the day apart into eight turns, and `Else` is what a
mission leaves alone in one. For each mission there is a lemma on its function
(`MyconMissionIs`, `ThraddMissionIs`, ...), one on the event of a day, one on each
turn of its fleets and one on the day (`PkunkDay`, ...). The Ilwrath and the Thraddash
call each other: `IlwrathEngages`, `ThraddReturn` and `BattleEnds` are the three
calls, in every state of the other.

### Only model-checked

* All liveness properties, `KohrAhWin` of Missions among them: there is no rule
  for fairness and `ENABLED` among the provers.
* What a recursive operator computes, where no witness can be stated as for
  `Carried` or the turns of Missions, and no least counterexample as for the
  loops of TrackPlayer.

## 5. Not modelled

* The element list, physics, ships and planets: arithmetic and content. The
  battle modules see them as a deterministic function of the inputs.
* Tasks and threads (`tasklib.c`, `thrcommon.c`): the slots of tasks are taken by
  one thread only and given back when the program ends, so nothing races for them.
  The two tasks that matter are part of DrawQueue and TrackPlayer.
* The heap: it holds alarms, of which there are at most two. Its removal of an
  inner entry sifts only down, which is wrong for an entry smaller than its new
  parent; that takes six entries or more.
* Saved games, resources, files and the summary of a conversation: sequential
  I/O.
* Packet layouts, urgent packets (no caller), music and its fades, sound
  effects, the oscilloscope, OpenAL.
* `Async_timeBeforeNextMs` returns a time where `netInputAux` expects a duration
  (`netmelee.c:172`, `libs/callback/alarm.c:168`): it can only lengthen a poll.
* Third-party and platform code.

`PROJECT.json` has the reason for each part.

## 6. Findings

`reset_hang` is a run; the others are stated here with the instance that shows
each, so that the runs can be spent on the properties that hold. In each module
the property named is defined and commented.

* **A side waits for ever after a reset** (`reset_hang`): one that waits at a
  meeting when the RESET comes waits on (`netmelee.c:505`).
* **A late CANCEL drops the connection**: both players confirm, one withdraws
  before the other's second packet arrives, and the CANCEL reaches a side that
  has gone to `preBattle` (`proto/npconfirm.c:61`; `protocol` forbids the
  withdrawal at that point). NetConfirm, `NoPacketRefused`; `OnlyLateCancelRefused` says that nothing else is.
* **Two team names sent at once are both kept**: the tie breaker tests for
  equality where it means inequality (`melee.c:2585`). NetUpdate,
  `QuietAgreement`.
* **Different fleets**: after an edit within a turn the received value is noted
  as the one sent; three edits of one slot let players start with different
  fleets (`melee.c:2557`). NetSetup with `ThreeEditsOfOne` of MCNetSetup,
  `AlwaysSameFleets`; `SameFleets` excepts such slots only.
* **An assertion after a reset**: the ready flags survive it (`proto/reset.c:114`
  clears the reset flags only), and `Netplay_localReady` fails in the next game
  (`proto/ready.c:55`). NetGame with two games of one death, `NoAssertionFails`.
* **A game goes on without ships**: when one poll brings the last
  choice of a ship and the end of the game, `DoGetMelee` throws the choices away
  and clears `CHECK_ABORT`, but the players stay `done` (`pickmele.c:372`), so
  `GetMeleeStarShips` negotiates on and returns ships that are not there
  (`pickmele.c:785`). At the start of a battle `GetInitialStarShips` locks and spawns
  them (`ship.c:552`); later `new_ship` finds none and leaves the game. NetGame with
  one game of one death, `AbortedGameEnds`.
* **A packet after a RESET**: a side that has answered one still sends READY or
  BATTLEINPUT, which the peer in its menu refuses (`proto/reset.c:149`). NetGame,
  `OnlyLatePacketRefused`, which says that nothing else is.
* **A packet sent in parts is garbled**: after a partial `send()` the loop sends
  the first bytes of the packet again, not the rest (`netsend.c:64`; `data` is
  not advanced by the call before it). NetStream: `PacketsArriveWhole`;
  `PipeUntilSplit` stops at a split for this reason.
* **A flush within a handler**: a handler that answers may flush, and a flush
  that fails closes the connection whose data `dataReadyCallback` is reading, or
  meets one that another player's handler has closed a moment before
  (`netmisc.c:130`). NetConnection, the two exceptions of `NothingStale`; the
  comment at `netmelee.c:153` explains why the flush of the main loop is safe.
* **The main thread waits for itself**: when the fullscreen key is pressed while
  the queue is full it pushes a command and waits for the flush only it can do
  (`starcon.c:131`; the comment in `checkExclusiveThread` calls it safe).
  DrawQueue, `MainNeverWaits`. Also, `DCQ_FORCE_BREAK_SIZE` equals `DCQ_MAX`,
  which `FullSize` never reaches, so the code behind it never runs.
* **A change of mode shows half a batch**: `REINITVIDEO` redraws the
  screen within the flush (`dcqueue.c:606`), and the fullscreen key pushes it
  from the main thread whatever batch the game has open (`starcon.c:131`; "will
  never be flipped to the screen half-rendered", `gfx_common.c:82`). DrawQueue,
  `NeverHalfRendered`.
* **A smooth rewind may hang the speech**: between the pass that unqueues the
  last buffer and the pass that notices the end, `FastReverse_Smooth` finds the
  stream playing and does not restart it (`trackplayer.c:689`). TrackPlayer,
  `PhraseEnds` without its condition on the scroll.
* **A phrase replayed from its start**: when the last track ends between two
  talk segues, the second finds nothing playing and starts at the first page
  (`comm.c:683`). Part of TrackPlayer (`Talk`).
* **Empty pages lose a buffer** of the stream (`stream.c:465`, where the comment
  says "we should never get here"), after which the subtitle is no longer set by
  the buffer queued last; hence the condition of `SubtitleInStep`.

Met while reading and not modelled: an edit made between the opening of a
connection and the peer's INIT fails an assertion of the bootstrap
(`melee.c:2476`); `waitReady` is followed by an assertion that a lost connection
breaks (`tactrans.c:218`); a decoder that fails leaves the conversation waiting
(`stream.c:461`); and OpenAL ignores the pause of a source that has run dry.

## 7. Plan

1. **ElementList**: the display list of a battle, whose elements add and remove
   elements while it is walked.
2. **Music**: fades and the section callbacks of `music.c` and `fileinst.c`.
3. **SavedClock**: what of the event list and the fleets a saved game keeps.
