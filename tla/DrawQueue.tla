------------------------------ MODULE DrawQueue ------------------------------
(***************************************************************************)
(* The draw command queue (libs/graphics/dcqueue.c) between the thread of  *)
(* the game, which pushes commands, and the main thread, whose loop calls  *)
(* TFB_FlushGraphics.  The queue is a ring with one part that the main     *)
(* thread may draw (Front to Back) and one part that waits for the end of  *)
(* a batch (Back to InsertionPoint).                                       *)
(*                                                                         *)
(* The game holds DCQ_Mutex only within one operation, which is one step   *)
(* here; the main thread keeps it over a whole flush once it has to slow   *)
(* the game down (livelock_deterrence).  Reads of Size outside the mutex   *)
(* are steps of their own.  A command is the tag of the batch it belongs   *)
(* to, or a signal, or a change of the video mode: what it draws does not  *)
(* matter here.  A change of mode updates the screen within the flush; one *)
(* that was pushed while the game had a batch open is told from the rest.  *)
(* A slot whose command was taken is shown as "none".                      *)
(***************************************************************************)
EXTENDS Integers

CONSTANTS
  DCQ_MAX,                    \* slots of the ring
  DCQ_FORCE_SLOWDOWN_SIZE,    \* flushes of more commands hold the mutex
  DCQ_LIVELOCK_MAX,           \* so do flushes that have become this long
  MaxBatching,                \* bound: nesting of batches in the game
  ReinitFromMain              \* whether the fullscreen key may be pressed

ASSUME DrawQueueAssumption ==
  /\ DCQ_MAX \in Nat \ {0, 1}
  /\ DCQ_FORCE_SLOWDOWN_SIZE \in Nat
  /\ DCQ_LIVELOCK_MAX \in Nat
  /\ MaxBatching \in Nat
  /\ ReinitFromMain \in BOOLEAN

VARIABLES
  DCQ,         \* the slots
  queue,       \* DrawCommandQueue
  game,        \* where the thread of the game is
  op,          \* the command it pushes: "draw" or "signal"
  main,        \* where the main thread is in its loop
  deterrence,  \* livelock_deterrence: the main thread holds the mutex
  handled,     \* commands_handled, counted up to DCQ_LIVELOCK_MAX + 1
  cmd,         \* the command in hand, or the last one
  signalled,   \* the semaphore flushSem of the game is posted
  batch,       \* which of two batches in a row the commands belong to
  frame        \* history: the last command taken that is no change of mode

vars ==
  <<DCQ, queue, game, op, main, deterrence, handled, cmd, signalled, batch, frame>>

Slots    == 0 .. DCQ_MAX - 1
Batches  == {"batch0", "batch1"}
Modes    == {"reinit", "reinitInBatch"}
Commands == {"draw", "signal"} \cup Modes \cup Batches

(* The states of the threads.  gap: it has let go of the mutex and not yet *)
(* begun to wait for RenderingCond.                                        *)
GameStates == {"run", "gap", "waiting", "retry", "signal"}
MainStates == {"loop", "begin", "lock", "pop", "check", "handle",
               "redraw", "swap", "stuck"}

-----------------------------------------------------------------------------
Distance(from, to) == IF from <= to THEN to - from ELSE to + DCQ_MAX - from
Next1(i) == (i + 1) % DCQ_MAX

(* Faulty: batches are not held back.                                      *)
SynchronizeAlways(q) ==
  LET size == Distance(q.Front, q.InsertionPoint)
  IN  [q EXCEPT !.Back = q.InsertionPoint, !.Size = size, !.FullSize = size]

(* Faulty: the end of the visible part stays where it was.                 *)
SynchronizeSizeOnly(q) ==
  IF q.Batching # 0 THEN q
  ELSE LET size == Distance(q.Front, q.InsertionPoint)
       IN  [q EXCEPT !.Size = size, !.FullSize = size]

Synchronize(q) ==
  IF q.Batching # 0 THEN q
  ELSE LET size == Distance(q.Front, q.InsertionPoint)
       IN  [q EXCEPT !.Back = q.InsertionPoint, !.Size = size, !.FullSize = size]

BatchReset(q) == Synchronize([q EXCEPT !.Batching = 0])

Inserted(q) ==
  Synchronize([q EXCEPT !.InsertionPoint = Next1(@), !.FullSize = @ + 1])

(* Faulty: the last slot of the ring is used as well.                      *)
OverloadedByOne == queue.FullSize >= DCQ_MAX

(* The loop of Lock_DCQ (1) goes on while this holds. *)
Overloaded == queue.FullSize >= DCQ_MAX - 1

Other == [b \in Batches |-> IF b = "batch0" THEN "batch1" ELSE "batch0"]

(* What the queue holds at place k.                                        *)
Held(k) == DCQ[(queue.Front + k) % DCQ_MAX]

(* A command of the open batch is held back.                               *)
BatchWaits == \E k \in queue.Size .. queue.FullSize - 1 : Held(k) = batch

(* The commands after the end of a batch that is not empty are of another. *)
BatchAfter(q) ==
  IF queue.Batching # 0 /\ q.Batching = 0 /\ BatchWaits THEN Other[batch] ELSE batch

Init ==
  /\ DCQ = [i \in Slots |-> "none"]
  /\ queue = [Front |-> 0, Back |-> 0, InsertionPoint |-> 0, Batching |-> 0,
              FullSize |-> 0, Size |-> 0]
  /\ game = "run" /\ op = "draw"
  /\ main = "loop" /\ deterrence = FALSE /\ handled = 0
  /\ cmd = "draw" /\ signalled = FALSE /\ batch = "batch0"
  /\ frame = "draw"

-----------------------------------------------------------------------------
(* The game.                                                               *)
GameIdle == game \in {"run", "retry"} /\ ~deterrence
Wants(o) == game = "run" \/ op = o

Push ==
  /\ GameIdle /\ Wants("draw") /\ ~Overloaded
  /\ DCQ' = [DCQ EXCEPT ![queue.InsertionPoint] =
               IF queue.Batching = 0 THEN "draw" ELSE batch]
  /\ queue' = Inserted(queue)
  /\ game' = "run" /\ op' = "draw"
  /\ UNCHANGED <<main, deterrence, handled, cmd, signalled, batch, frame>>

WaitForSignal ==
  /\ GameIdle /\ Wants("signal") /\ ~Overloaded
  /\ LET q == BatchReset(queue)
     IN  /\ DCQ' = [DCQ EXCEPT ![q.InsertionPoint] = "signal"]
         /\ queue' = Inserted(q)
         /\ batch' = BatchAfter(q)
  /\ game' = "signal" /\ op' = "signal"
  /\ UNCHANGED <<main, deterrence, handled, cmd, signalled, frame>>

WaitForSpace ==
  /\ GameIdle /\ Overloaded
  /\ \E o \in {"draw", "signal"} : Wants(o) /\ op' = o
  /\ queue' = BatchReset(queue)
  /\ batch' = BatchAfter(BatchReset(queue))
  /\ game' = "gap"
  /\ UNCHANGED <<DCQ, main, deterrence, handled, cmd, signalled, frame>>

WaitCond ==
  /\ game = "gap"
  /\ game' = "waiting"
  /\ UNCHANGED <<DCQ, queue, op, main, deterrence, handled, cmd, signalled, batch, frame>>

(* Faulty: the semaphore stays posted.                                     *)
TakeSignalAgain ==
  /\ game = "signal" /\ signalled
  /\ game' = "run"
  /\ UNCHANGED <<DCQ, queue, op, main, deterrence, handled, cmd, signalled, batch, frame>>

TakeSignal ==
  /\ game = "signal" /\ signalled
  /\ signalled' = FALSE /\ game' = "run"
  /\ UNCHANGED <<DCQ, queue, op, main, deterrence, handled, cmd, batch, frame>>

BatchGraphics ==
  /\ game = "run" /\ ~deterrence /\ queue.Batching < MaxBatching
  /\ queue' = [queue EXCEPT !.Batching = @ + 1]
  /\ UNCHANGED <<DCQ, game, op, main, deterrence, handled, cmd, signalled, batch, frame>>

(* Faulty: an unmatched call makes the count negative.                     *)
UnbatchedUnchecked(q) == Synchronize([q EXCEPT !.Batching = @ - 1])

Unbatched(q) ==
  Synchronize([q EXCEPT !.Batching = IF @ # 0 THEN @ - 1 ELSE 0])

UnbatchGraphics ==
  /\ game = "run" /\ ~deterrence
  /\ queue' = Unbatched(queue)
  /\ batch' = BatchAfter(Unbatched(queue))
  /\ UNCHANGED <<DCQ, game, op, main, deterrence, handled, cmd, signalled, frame>>

-----------------------------------------------------------------------------
(* The main thread: ProcessUtilityKeys and TFB_FlushGraphics.              *)
Broadcast == game' = IF game = "waiting" THEN "retry" ELSE game

Reinit ==
  /\ main = "loop" /\ ReinitFromMain
  /\ IF Overloaded
     THEN /\ queue' = BatchReset(queue) /\ batch' = BatchAfter(BatchReset(queue))
          /\ main' = "stuck"
          /\ UNCHANGED DCQ
     ELSE /\ DCQ' = [DCQ EXCEPT ![queue.InsertionPoint] =
                       IF queue.Batching = 0 THEN "reinit" ELSE "reinitInBatch"]
          /\ queue' = Inserted(queue)
          /\ UNCHANGED <<main, batch, frame>>
  /\ UNCHANGED <<game, op, deterrence, handled, cmd, signalled, frame>>

(* Faulty: only a flush that drew something wakes the game.                *)
FlushNothingQuietly ==
  /\ main = "loop" /\ queue.Size = 0
  /\ UNCHANGED vars

FlushNothing ==
  /\ main = "loop" /\ queue.Size = 0
  /\ Broadcast
  /\ UNCHANGED <<DCQ, queue, op, main, deterrence, handled, cmd, signalled, batch, frame>>

FlushStart ==
  /\ main = "loop" /\ queue.Size # 0
  /\ main' = "begin" /\ handled' = 0
  /\ UNCHANGED <<DCQ, queue, game, op, deterrence, cmd, signalled, batch, frame>>

FlushBegin ==
  /\ main = "begin"
  /\ main' = IF queue.Size > DCQ_FORCE_SLOWDOWN_SIZE THEN "lock" ELSE "pop"
  /\ UNCHANGED <<DCQ, queue, game, op, deterrence, handled, cmd, signalled, batch, frame>>

HoldQueue ==
  /\ main = "lock"
  /\ deterrence' = TRUE
  /\ main' = IF handled = 0 THEN "pop" ELSE "handle"
  /\ UNCHANGED <<DCQ, queue, game, op, handled, cmd, signalled, batch, frame>>

(* The case the code logs as an assertion failure. *)
Inconsistent == queue.Front = queue.Back /\ queue.Size # DCQ_MAX

CanPop == queue.Size # 0 /\ ~Inconsistent

(* Faulty: the commands of a batch that is open are no longer counted.     *)
PoppedAll(q) ==
  [q EXCEPT !.Front = Next1(@), !.Size = @ - 1, !.FullSize = q.Size - 1]

Popped(q) == [q EXCEPT !.Front = Next1(@), !.Size = @ - 1, !.FullSize = @ - 1]

Pop ==
  /\ main = "pop" /\ CanPop
  /\ cmd' = DCQ[queue.Front]
  /\ DCQ' = [DCQ EXCEPT ![queue.Front] = "none"]
  /\ queue' = Popped(queue)
  /\ handled' = IF handled > DCQ_LIVELOCK_MAX THEN handled ELSE handled + 1
  /\ main' = "check"
  /\ frame' = IF cmd' \in Modes THEN frame ELSE cmd'
  /\ UNCHANGED <<game, op, deterrence, signalled, batch>>

PopNothing ==
  /\ main = "pop" /\ ~CanPop
  /\ queue' = [queue EXCEPT !.Size = 0]
  /\ deterrence' = FALSE
  /\ main' = "swap"
  /\ UNCHANGED <<DCQ, game, op, handled, cmd, signalled, batch, frame>>

(* Faulty: no livelock deterrence.                                         *)
NeverTooLong == FALSE

TooLong == ~deterrence /\ handled + queue.Size > DCQ_LIVELOCK_MAX

CheckLivelock ==
  /\ main = "check"
  /\ main' = IF TooLong THEN "lock" ELSE "handle"
  /\ UNCHANGED <<DCQ, queue, game, op, deterrence, handled, cmd, signalled, batch, frame>>

Handle ==
  /\ main = "handle"
  /\ signalled' = (signalled \/ cmd = "signal")
  /\ main' = IF cmd \in Modes THEN "redraw" ELSE "pop"
  /\ UNCHANGED <<DCQ, queue, game, op, deterrence, handled, cmd, batch, frame>>

(* TFB_SwapBuffers (TFB_REDRAW_YES) at the end of a REINITVIDEO            *)
Redraw ==
  /\ main = "redraw"
  /\ main' = "pop"
  /\ UNCHANGED <<DCQ, queue, game, op, deterrence, handled, cmd, signalled, batch, frame>>

SwapBuffers ==
  /\ main = "swap"
  /\ Broadcast
  /\ main' = "loop"
  /\ UNCHANGED <<DCQ, queue, op, deterrence, handled, cmd, signalled, batch, frame>>

-----------------------------------------------------------------------------
Main == \/ FlushNothing \/ FlushStart \/ FlushBegin \/ HoldQueue \/ Pop
        \/ PopNothing \/ CheckLivelock \/ Handle \/ Redraw \/ SwapBuffers
Push1 == Push \/ WaitForSignal \/ WaitForSpace
Next == \/ Main \/ Reinit \/ Push1 \/ WaitCond \/ TakeSignal
        \/ BatchGraphics \/ UnbatchGraphics

(* The main loop goes round for ever; the game goes on with a push it has  *)
(* begun, but need never begin one.                                        *)
Fairness ==
  /\ WF_vars(Main)
  /\ WF_vars(game = "retry" /\ Push1)
  /\ WF_vars(WaitCond) /\ WF_vars(TakeSignal)

Spec == Init /\ [][Next]_vars /\ Fairness
-----------------------------------------------------------------------------
TypeOK ==
  /\ DCQ \in [Slots -> Commands \cup {"none"}]
  /\ queue \in [Front : Slots, Back : Slots, InsertionPoint : Slots,
                Batching : 0 .. MaxBatching, FullSize : 0 .. DCQ_MAX, Size : 0 .. DCQ_MAX]
  /\ game \in GameStates /\ op \in {"draw", "signal"}
  /\ main \in MainStates /\ deterrence \in BOOLEAN
  /\ handled \in 0 .. DCQ_LIVELOCK_MAX + 1
  /\ cmd \in Commands /\ signalled \in BOOLEAN /\ batch \in Batches
  /\ frame \in Commands \ Modes

(* The counters of the queue, which threads read without the mutex and     *)
(* which decide about waiting, always agree with its pointers, one slot of *)
(* the ring stays free (so that a full ring is not taken for an empty      *)
(* one), nothing is held back while no batch is open, and each slot that   *)
(* counts as taken holds a command.                                        *)
SizesAgree ==
  /\ queue.Size = Distance(queue.Front, queue.Back)
  /\ queue.FullSize = Distance(queue.Front, queue.InsertionPoint)
  /\ queue.Size <= queue.FullSize /\ queue.FullSize < DCQ_MAX
  /\ queue.Batching = 0 => queue.Back = queue.InsertionPoint
  /\ \A i \in Slots : Distance(queue.Front, i) < queue.FullSize => DCQ[i] # "none"

(* TFB_DrawCommandQueue_Pop never meets the case it logs as "Assertion     *)
(* failure in DCQ", in which it would throw the queue away.                *)
NothingThrownAway == main = "pop" /\ queue.Size # 0 => ~Inconsistent

(* A command of the batch of the last one drawn is the next of the game.   *)
Torn ==
  frame \in Batches /\ \E k \in 0 .. queue.FullSize - 1 :
    Held(k) = frame /\ \A j \in 0 .. k - 1 : Held(j) \in Modes

(* The purpose of batches: when the screen is updated, no batch is drawn in *)
(* part, even if the queue overflowed or the game waited for a signal      *)
(* within the batch (both end it).  The screen is updated at the end of a  *)
(* flush, between two flushes (a fade, an uncovered window) and, within a  *)
(* flush, by a change of mode.  Excepted is a change of mode pushed while  *)
(* the game has a batch open: what it shows may be a part of that batch.   *)
NoTornFrame ==
  main \in {"loop", "swap"} \/ (main = "redraw" /\ cmd = "reinit") => ~Torn

(* The comment at BatchGraphics: "A Batch is a collection of DrawCommands   *)
(* that will never be flipped to the screen half-rendered".                *)
NeverHalfRendered == main \in {"loop", "swap", "redraw"} => ~Torn

(* FlushGraphics "sleeps this thread until all Draw Commands queued by     *)
(* that thread have been processed": once the signal is given, no command  *)
(* of the game is left, whatever was in a batch when it asked.             *)
SignalMeansDone ==
  game = "signal" /\ signalled =>
    \A k \in 0 .. DCQ_MAX - 1 : k < queue.FullSize => Held(k) \in Modes

(* The ring implements the two-part list of DrawOrder.                     *)
RingPart(from, size) == [i \in 1 .. size |-> DCQ[(from + i - 1) % DCQ_MAX]]

Order == INSTANCE DrawOrder WITH
  Command <- Commands,
  visible <- RingPart(queue.Front, queue.Size),
  pending <- RingPart(queue.Back, queue.FullSize - queue.Size),
  drawn   <- cmd

ImplementsOrder == Order!Spec

(* The comment on livelock deterrence: however fast the game pushes, a     *)
(* flush comes to its end.                                                 *)
FlushEnds == (main = "begin") ~> (main = "swap")

(* A game that waits for room, or for its commands to be drawn, goes on:   *)
(* no broadcast of RenderingCond is lost for good, though the game lets go *)
(* of the mutex before it waits.  The main thread must not have stopped    *)
(* itself in a push of its own (Reinit), nor push such commands for ever.  *)
GameGoesOn ==
  \/ (game # "run") ~> (game = "run" \/ main = "stuck")
  \/ []<><<Reinit>>_vars

(* "It is queued from the main() thread, which is safe to do"              *)
(* (checkExclusiveThread): the main thread never waits for itself.         *)
MainNeverWaits == main # "stuck"

(* What any thread may rely on at any moment, with the mutex or without.   *)
QueueConsistent == TypeOK /\ SizesAgree /\ NothingThrownAway

(* Neither the flush nor a game that waits for it goes on for ever.        *)
NobodyWaits == FlushEnds /\ GameGoesOn
=============================================================================
