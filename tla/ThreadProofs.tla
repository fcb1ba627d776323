---------------------------- MODULE ThreadProofs ----------------------------
(***************************************************************************)
(* Proofs about the two places where threads of one machine share data.    *)
(* The draw command queue, for every size of the ring: its type, that its  *)
(* counters agree with its pointers, and that no command is thrown away;   *)
(* then, about the commands in it, that frames are whole and signals true, *)
(* and that it implements the list DrawOrder.  A spoken phrase, for every  *)
(* number of chunks, lengths and keys: what the decoder task reads is      *)
(* there, the subtitle is of the page that is heard, and no page is        *)
(* skipped.                                                                *)
(***************************************************************************)
EXTENDS DrawQueue, TrackPlayer, FiniteSetTheorems, SequenceTheorems, WellFoundedInduction, TLAPS
(* The pointers move around the ring one slot at a time.                   *)
LEMMA NextSlot ==
  ASSUME NEW i \in Slots
  PROVE  /\ Next1(i) \in Slots
         /\ Next1(i) = IF i = DCQ_MAX - 1 THEN 0 ELSE i + 1
<1>1. CASE i = DCQ_MAX - 1
  <2>1. (i + 1) % DCQ_MAX = 0
    BY <1>1, DrawQueueAssumption, SMT DEF Slots
  <2> QED BY <1>1, <2>1, DrawQueueAssumption DEF Next1, Slots
<1>2. CASE i # DCQ_MAX - 1
  <2>1. (i + 1) % DCQ_MAX = i + 1
    BY <1>2, DrawQueueAssumption, SMT DEF Slots
  <2> QED BY <1>2, <2>1, DrawQueueAssumption DEF Next1, Slots
<1> QED BY <1>1, <1>2

(* What a queue with agreeing counters is; used for the queue before and   *)
(* after each operation on it.                                             *)
Counters == [Front : Slots, Back : Slots, InsertionPoint : Slots,
             Batching : 0 .. MaxBatching, FullSize : 0 .. DCQ_MAX, Size : 0 .. DCQ_MAX]

Agree(q) ==
  /\ q.Size = Distance(q.Front, q.Back)
  /\ q.FullSize = Distance(q.Front, q.InsertionPoint)
  /\ q.Size <= q.FullSize /\ q.FullSize < DCQ_MAX
  /\ q.Batching = 0 => q.Back = q.InsertionPoint

LEMMA DistanceType ==
  ASSUME NEW i \in Slots, NEW j \in Slots
  PROVE  /\ Distance(i, j) \in Slots
         /\ Distance(i, j) = 0 <=> i = j
BY DrawQueueAssumption DEF Distance, Slots

(* Operations that move neither pointer leave the same slots taken.        *)
SameSlots(q, r) == r.Front = q.Front /\ r.InsertionPoint = q.InsertionPoint

LEMMA SynchronizeAgrees ==
  ASSUME NEW q \in Counters,
         q.Batching # 0 => Agree(q)
  PROVE  /\ Synchronize(q) \in Counters /\ Agree(Synchronize(q))
         /\ SameSlots(q, Synchronize(q))
<1>1. CASE q.Batching # 0
  BY <1>1 DEF Synchronize, SameSlots
<1>2. CASE q.Batching = 0
  <2> DEFINE d == Distance(q.Front, q.InsertionPoint)
             r == [q EXCEPT !.Back = q.InsertionPoint, !.Size = d, !.FullSize = d]
  <2>1. q.Front \in Slots /\ q.InsertionPoint \in Slots
    BY DEF Counters
  <2>2. d \in Slots
    BY <2>1, DistanceType
  <2>3. d \in 0 .. DCQ_MAX /\ d <= d /\ d < DCQ_MAX
    BY <2>2, DrawQueueAssumption DEF Slots
  <2>4. /\ r.Front = q.Front /\ r.Back = q.InsertionPoint
        /\ r.InsertionPoint = q.InsertionPoint
        /\ r.Size = d /\ r.FullSize = d /\ r.Batching = q.Batching
    BY DEF Counters
  <2>5. Synchronize(q) = r
    BY <1>2 DEF Synchronize
  <2>6. r \in Counters
    BY <2>1, <2>3 DEF Counters
  <2>7. Agree(r)
    BY <2>3, <2>4 DEF Agree
  <2> QED BY <2>4, <2>5, <2>6, <2>7 DEF SameSlots
<1> QED BY <1>1, <1>2

LEMMA BatchResetAgrees ==
  ASSUME NEW q \in Counters
  PROVE  /\ BatchReset(q) \in Counters /\ Agree(BatchReset(q))
         /\ SameSlots(q, BatchReset(q))
<1> DEFINE r == [q EXCEPT !.Batching = 0]
<1>1. r \in Counters /\ r.Batching = 0 /\ SameSlots(q, r)
  BY DrawQueueAssumption DEF Counters, SameSlots
<1> QED BY <1>1, SynchronizeAgrees DEF BatchReset, SameSlots

(* The guard of Lock_DCQ (1) leaves room for one more command.             *)
LEMMA InsertedAgrees ==
  ASSUME NEW q \in Counters, Agree(q), ~(q.FullSize >= DCQ_MAX - 1)
  PROVE  /\ Inserted(q) \in Counters /\ Agree(Inserted(q))
         /\ Inserted(q).Front = q.Front
         /\ Inserted(q).FullSize = q.FullSize + 1
<1> DEFINE r == [q EXCEPT !.InsertionPoint = Next1(@), !.FullSize = @ + 1]
<1>1. /\ q.InsertionPoint \in Slots /\ q.Front \in Slots /\ q.Back \in Slots
      /\ q.FullSize \in 0 .. DCQ_MAX
  BY DEF Counters
<1>2. Next1(q.InsertionPoint) \in Slots
  BY <1>1, NextSlot
<1>3. q.FullSize + 1 \in 0 .. DCQ_MAX
  BY <1>1, DrawQueueAssumption
<1>4. r \in Counters
  BY <1>1, <1>2, <1>3 DEF Counters
<1>5. /\ r.Front = q.Front /\ r.Back = q.Back /\ r.Batching = q.Batching
      /\ r.InsertionPoint = Next1(q.InsertionPoint)
      /\ r.FullSize = q.FullSize + 1 /\ r.Size = q.Size
  BY DEF Counters
<1>6. Distance(q.Front, Next1(q.InsertionPoint)) = q.FullSize + 1
  <2>1. q.FullSize = Distance(q.Front, q.InsertionPoint)
    BY DEF Agree
  <2> QED BY <1>1, <2>1, NextSlot, DrawQueueAssumption DEF Distance, Slots
<1>7. q.Size \in 0 .. DCQ_MAX
  BY DEF Counters
<1>8. r.Batching # 0 => Agree(r)
  <2>1. r.Size <= r.FullSize /\ r.FullSize < DCQ_MAX
    BY <1>1, <1>5, <1>7, DrawQueueAssumption DEF Agree
  <2> QED BY <1>5, <1>6, <2>1 DEF Agree
<1>9. Inserted(q) \in Counters /\ Agree(Inserted(q)) /\ SameSlots(r, Inserted(q))
  BY <1>4, <1>8, SynchronizeAgrees DEF Inserted
<1>10. Inserted(q).FullSize = q.FullSize + 1
  BY <1>5, <1>6, <1>9 DEF Agree, SameSlots
<1> QED BY <1>5, <1>9, <1>10 DEF SameSlots

LEMMA PoppedAgrees ==
  ASSUME NEW q \in Counters, Agree(q), q.Size # 0
  PROVE  /\ Popped(q) \in Counters /\ Agree(Popped(q))
         /\ Popped(q).Front = Next1(q.Front)
         /\ Popped(q).FullSize = q.FullSize - 1
<1> DEFINE r == Popped(q)
<1>1. /\ q.InsertionPoint \in Slots /\ q.Front \in Slots /\ q.Back \in Slots
      /\ q.FullSize \in 0 .. DCQ_MAX /\ q.Size \in 0 .. DCQ_MAX
  BY DEF Counters
<1>2. Next1(q.Front) \in Slots
  BY <1>1, NextSlot
<1>3. /\ q.Size = Distance(q.Front, q.Back)
      /\ q.FullSize = Distance(q.Front, q.InsertionPoint)
      /\ q.Size <= q.FullSize /\ q.FullSize < DCQ_MAX
  BY DEF Agree
<1>4. q.FullSize - 1 \in 0 .. DCQ_MAX /\ q.Size - 1 \in 0 .. DCQ_MAX
  BY <1>1, <1>3, DrawQueueAssumption
<1>5. r \in Counters
  BY <1>2, <1>4 DEF Counters, Popped
<1>6. /\ r.Front = Next1(q.Front) /\ r.Back = q.Back /\ r.Batching = q.Batching
      /\ r.InsertionPoint = q.InsertionPoint
      /\ r.FullSize = q.FullSize - 1 /\ r.Size = q.Size - 1
  BY DEF Counters, Popped
<1>7. Distance(Next1(q.Front), q.Back) = q.Size - 1
  BY <1>1, <1>3, NextSlot, DrawQueueAssumption DEF Distance, Slots
<1>8. Distance(Next1(q.Front), q.InsertionPoint) = q.FullSize - 1
  BY <1>1, <1>3, NextSlot, DrawQueueAssumption DEF Distance, Slots
<1>9. r.Size <= r.FullSize /\ r.FullSize < DCQ_MAX
  BY <1>1, <1>3, <1>6, DrawQueueAssumption
<1>10. r.Batching = 0 => r.Back = r.InsertionPoint
  BY <1>6 DEF Agree
<1> QED BY <1>5, <1>6, <1>7, <1>8, <1>9, <1>10 DEF Agree

LEMMA UnbatchedAgrees ==
  ASSUME NEW q \in Counters, Agree(q)
  PROVE  /\ Unbatched(q) \in Counters /\ Agree(Unbatched(q))
         /\ SameSlots(q, Unbatched(q))
<1> DEFINE r == [q EXCEPT !.Batching = IF @ # 0 THEN @ - 1 ELSE 0]
<1>1. q.Batching \in 0 .. MaxBatching
  BY DEF Counters
<1>2. (IF q.Batching # 0 THEN q.Batching - 1 ELSE 0) \in 0 .. MaxBatching
  BY <1>1, DrawQueueAssumption
<1>3. r \in Counters
  BY <1>2 DEF Counters
<1>4. /\ r.Front = q.Front /\ r.Back = q.Back /\ r.InsertionPoint = q.InsertionPoint
      /\ r.FullSize = q.FullSize /\ r.Size = q.Size
      /\ r.Batching # 0 => q.Batching # 0
  BY DEF Counters
<1>5. r.Batching # 0 => Agree(r)
  BY <1>4 DEF Agree
<1> QED BY <1>3, <1>4, <1>5, SynchronizeAgrees DEF Unbatched, SameSlots

-----------------------------------------------------------------------------
Taken(q, i) == Distance(q.Front, i) < q.FullSize

Inv ==
  /\ TypeOK
  /\ Agree(queue)
  /\ \A i \in Slots : Taken(queue, i) => DCQ[i] # "none"

(* Which slots are taken after each kind of operation.                     *)
LEMMA TakenUnmoved ==
  ASSUME NEW q \in Counters, NEW r \in Counters, Agree(q), Agree(r), SameSlots(q, r)
  PROVE  r.FullSize = q.FullSize /\ \A i \in Slots : Taken(r, i) <=> Taken(q, i)
BY DEF Agree, SameSlots, Taken

LEMMA TakenInserted ==
  ASSUME NEW q \in Counters, Agree(q), NEW r,
         r.Front = q.Front, r.FullSize = q.FullSize + 1,
         NEW i \in Slots, Taken(r, i)
  PROVE  i = q.InsertionPoint \/ Taken(q, i)
<1>1. /\ q.InsertionPoint \in Slots /\ q.Front \in Slots
      /\ q.FullSize = Distance(q.Front, q.InsertionPoint)
  BY DEF Counters, Agree
<1> QED BY <1>1, DrawQueueAssumption DEF Taken, Distance, Slots

LEMMA TakenPopped ==
  ASSUME NEW q \in Counters, Agree(q), NEW r,
         r.Front = Next1(q.Front), r.FullSize = q.FullSize - 1,
         NEW i \in Slots, Taken(r, i)
  PROVE  i # q.Front /\ Taken(q, i)
<1>1. /\ q.Front \in Slots /\ q.FullSize \in 0 .. DCQ_MAX /\ q.FullSize < DCQ_MAX
  BY DEF Counters, Agree
<1> QED BY <1>1, NextSlot, DrawQueueAssumption DEF Taken, Distance, Slots

(* A ring whose counters agree offers a command whenever Size is not 0.    *)
LEMMA InvConsistent ==
  ASSUME Inv
  PROVE  queue.Size # 0 => ~Inconsistent
<1>1. queue.Front \in Slots /\ queue.Back \in Slots
  BY DEF Inv, TypeOK
<1>2. queue.Size = Distance(queue.Front, queue.Back)
  BY DEF Inv, Agree
<1> QED BY <1>1, <1>2, DistanceType DEF Inconsistent

(* The part of the type that a change of the queue leaves to show.         *)
LEMMA CountersOfInv ==
  ASSUME Inv
  PROVE  queue \in Counters /\ Agree(queue) /\ queue.InsertionPoint \in Slots
         /\ queue.Front \in Slots
BY DEF Inv, TypeOK, Counters

LEMMA BatchAfterType ==
  ASSUME Inv, NEW q
  PROVE  BatchAfter(q) \in Batches
BY DEF Inv, TypeOK, BatchAfter, Other, Batches

LEMMA InvInit == Init => Inv
<1> SUFFICES ASSUME Init PROVE Inv
  OBVIOUS
<1>1. 0 \in Slots /\ 0 \in 0 .. DCQ_MAX /\ 0 \in 0 .. MaxBatching
      /\ 0 \in 0 .. DCQ_LIVELOCK_MAX + 1 /\ 0 < DCQ_MAX
  BY DrawQueueAssumption DEF Slots
<1>2. TypeOK
  BY <1>1 DEF Init, TypeOK, Commands, Modes, Batches, GameStates, MainStates
<1>3. Agree(queue)
  BY <1>1 DEF Init, Agree, Distance
<1>4. \A i \in Slots : ~Taken(queue, i)
  BY <1>1, DistanceType, DrawQueueAssumption DEF Init, Taken, Slots
<1> QED BY <1>2, <1>3, <1>4 DEF Inv

(* The steps of the game.                                                  *)
LEMMA InvGame ==
  ASSUME Inv, Push1 \/ WaitCond \/ TakeSignal \/ BatchGraphics \/ UnbatchGraphics
  PROVE  Inv'
<1> USE DEF Inv, TypeOK
<1>0. queue \in Counters /\ Agree(queue) /\ queue.InsertionPoint \in Slots
  BY CountersOfInv
<1>1. CASE Push
  <2>1. queue' \in Counters /\ Agree(queue')
        /\ queue'.Front = queue.Front /\ queue'.FullSize = queue.FullSize + 1
    BY <1>0, <1>1, InsertedAgrees DEF Push, Overloaded
  <2>2. DCQ' \in [Slots -> Commands \cup {"none"}]
    BY <1>0, <1>1 DEF Push, Commands
  <2>3. \A i \in Slots : Taken(queue', i) => DCQ'[i] # "none"
    BY <1>0, <1>1, <2>1, TakenInserted DEF Push, Batches
  <2> QED BY <1>1, <2>1, <2>2, <2>3 DEF Push, Counters, GameStates
<1>2. CASE WaitForSignal
  <2> DEFINE q == BatchReset(queue)
  <2>1. q \in Counters /\ Agree(q) /\ SameSlots(queue, q)
    BY <1>0, BatchResetAgrees
  <2>2. ~(q.FullSize >= DCQ_MAX - 1) /\ q.InsertionPoint \in Slots
    BY <1>0, <1>2, <2>1, TakenUnmoved DEF WaitForSignal, Overloaded, SameSlots
  <2>3. queue' \in Counters /\ Agree(queue')
        /\ queue'.Front = q.Front /\ queue'.FullSize = q.FullSize + 1
    BY <1>2, <2>1, <2>2, InsertedAgrees DEF WaitForSignal
  <2>4. DCQ' \in [Slots -> Commands \cup {"none"}]
    BY <1>2, <2>2 DEF WaitForSignal, Commands
  <2>5. \A i \in Slots : Taken(queue', i) => i = q.InsertionPoint \/ Taken(queue, i)
    BY <1>0, <2>1, <2>3, TakenInserted, TakenUnmoved
  <2>6. \A i \in Slots : Taken(queue', i) => DCQ'[i] # "none"
    BY <1>2, <2>2, <2>5 DEF WaitForSignal
  <2> QED BY <1>2, <2>3, <2>4, <2>6, BatchAfterType DEF WaitForSignal, Counters, GameStates
<1>3. CASE WaitForSpace
  <2>1. queue' \in Counters /\ Agree(queue') /\ SameSlots(queue, queue')
    BY <1>0, <1>3, BatchResetAgrees DEF WaitForSpace
  <2>2. \A i \in Slots : Taken(queue', i) => DCQ'[i] # "none"
    BY <1>0, <1>3, <2>1, TakenUnmoved DEF WaitForSpace
  <2> QED BY <1>3, <2>1, <2>2, BatchAfterType DEF WaitForSpace, Counters, GameStates
<1>4. CASE WaitCond
  BY <1>4 DEF WaitCond, GameStates
<1>5. CASE TakeSignal
  BY <1>5 DEF TakeSignal, GameStates
<1>6. CASE BatchGraphics
  <2> DEFINE r == [queue EXCEPT !.Batching = @ + 1]
  <2>1. queue.Batching \in 0 .. MaxBatching /\ queue.Batching < MaxBatching
    BY <1>6 DEF BatchGraphics
  <2>2. queue.Batching + 1 \in 0 .. MaxBatching /\ queue.Batching + 1 # 0
    BY <2>1, DrawQueueAssumption
  <2>3. r \in Counters /\ r.Batching # 0
    BY <1>0, <2>2 DEF Counters
  <2>4. Agree(r) /\ SameSlots(queue, r)
    BY <1>0, <2>3 DEF Counters, Agree, SameSlots
  <2>5. queue' = r
    BY <1>6 DEF BatchGraphics
  <2>6. \A i \in Slots : Taken(queue', i) => DCQ'[i] # "none"
    BY <1>0, <1>6, <2>3, <2>4, <2>5, TakenUnmoved DEF BatchGraphics
  <2> QED BY <1>6, <2>3, <2>4, <2>5, <2>6 DEF BatchGraphics, Counters
<1>7. CASE UnbatchGraphics
  <2>1. queue' \in Counters /\ Agree(queue') /\ SameSlots(queue, queue')
    BY <1>0, <1>7, UnbatchedAgrees DEF UnbatchGraphics
  <2>2. \A i \in Slots : Taken(queue', i) => DCQ'[i] # "none"
    BY <1>0, <1>7, <2>1, TakenUnmoved DEF UnbatchGraphics
  <2> QED BY <1>7, <2>1, <2>2, BatchAfterType DEF UnbatchGraphics, Counters
<1> QED BY <1>1, <1>2, <1>3, <1>4, <1>5, <1>6, <1>7 DEF Push1

(* The steps of the main thread.                                           *)
LEMMA InvMain ==
  ASSUME Inv, Main \/ Reinit
  PROVE  Inv'
<1> USE DEF Inv, TypeOK
<1>0. queue \in Counters /\ Agree(queue) /\ queue.InsertionPoint \in Slots
      /\ queue.Front \in Slots
  BY CountersOfInv
<1>1. CASE Reinit /\ Overloaded
  <2>1. queue' \in Counters /\ Agree(queue') /\ SameSlots(queue, queue')
    BY <1>0, <1>1, BatchResetAgrees DEF Reinit
  <2>2. \A i \in Slots : Taken(queue', i) => DCQ'[i] # "none"
    BY <1>0, <1>1, <2>1, TakenUnmoved DEF Reinit
  <2> QED BY <1>1, <2>1, <2>2, BatchAfterType DEF Reinit, Counters, MainStates
<1>2. CASE Reinit /\ ~Overloaded
  <2>1. queue' \in Counters /\ Agree(queue')
        /\ queue'.Front = queue.Front /\ queue'.FullSize = queue.FullSize + 1
    BY <1>0, <1>2, InsertedAgrees DEF Reinit, Overloaded
  <2>2. DCQ' \in [Slots -> Commands \cup {"none"}]
    BY <1>0, <1>2 DEF Reinit, Commands, Modes
  <2>3. \A i \in Slots : Taken(queue', i) => DCQ'[i] # "none"
    BY <1>0, <1>2, <2>1, TakenInserted DEF Reinit
  <2> QED BY <1>2, <2>1, <2>2, <2>3 DEF Reinit, Counters, MainStates
<1>3. CASE FlushNothing
  BY <1>3 DEF FlushNothing, Broadcast, GameStates
<1>4. CASE FlushStart
  BY <1>4, DrawQueueAssumption DEF FlushStart, MainStates
<1>5. CASE FlushBegin
  BY <1>5 DEF FlushBegin, MainStates
<1>6. CASE HoldQueue
  BY <1>6 DEF HoldQueue, MainStates
<1>7. CASE Pop
  <2>1. queue.Size # 0
    BY <1>7 DEF Pop, CanPop
  <2>2. queue' \in Counters /\ Agree(queue')
        /\ queue'.Front = Next1(queue.Front) /\ queue'.FullSize = queue.FullSize - 1
    BY <1>0, <1>7, <2>1, PoppedAgrees DEF Pop
  <2>3. Taken(queue, queue.Front)
    <3>1. queue.Size \in 0 .. DCQ_MAX /\ queue.FullSize \in 0 .. DCQ_MAX
      BY <1>0 DEF Counters
    <3>2. queue.FullSize > 0
      BY <1>0, <2>1, <3>1, DrawQueueAssumption DEF Agree
    <3>3. Distance(queue.Front, queue.Front) = 0
      BY <1>0, DistanceType
    <3> QED BY <3>2, <3>3 DEF Taken
  <2>4. DCQ[queue.Front] \in Commands
    BY <1>0, <2>3
  <2>5. handled' \in 0 .. DCQ_LIVELOCK_MAX + 1
    BY <1>7, DrawQueueAssumption DEF Pop
  <2>6. DCQ' \in [Slots -> Commands \cup {"none"}]
    BY <1>0, <1>7 DEF Pop
  <2>7. \A i \in Slots : Taken(queue', i) => DCQ'[i] # "none"
    BY <1>0, <1>7, <2>2, TakenPopped DEF Pop
  <2>8. cmd' \in Commands /\ frame' \in Commands \ Modes
    BY <1>7, <2>4 DEF Pop
  <2> QED BY <1>7, <2>2, <2>5, <2>6, <2>7, <2>8 DEF Pop, Counters, MainStates
<1>8. CASE PopNothing
  <2>1. queue.Size = 0
    BY <1>8, InvConsistent DEF PopNothing, CanPop
  <2>2. queue' = queue
    BY <1>0, <1>8, <2>1 DEF PopNothing, Counters
  <2> QED BY <1>8, <2>2 DEF PopNothing, MainStates
<1>9. CASE CheckLivelock
  BY <1>9 DEF CheckLivelock, MainStates
<1>10. CASE Handle
  BY <1>10 DEF Handle, MainStates
<1>11. CASE SwapBuffers
  BY <1>11 DEF SwapBuffers, Broadcast, MainStates, GameStates
<1>12. CASE Redraw
  BY <1>12 DEF Redraw, MainStates
<1> QED BY <1>1, <1>2, <1>3, <1>4, <1>5, <1>6, <1>7, <1>8, <1>9, <1>10, <1>11, <1>12 DEF Main

LEMMA InvStep == Inv /\ [Next]_vars => Inv'
<1>1. ASSUME Inv, UNCHANGED vars PROVE Inv'
  BY <1>1 DEF Inv, TypeOK, vars
<1> QED BY <1>1, InvGame, InvMain DEF Next

LEMMA Invariance == Spec => []Inv
BY InvInit, InvStep, PTL DEF Spec

(* The variables of the queue stay within their ranges: no index leaves    *)
(* the ring, and no counter becomes negative.                              *)
THEOREM TypeCorrect == Spec => []TypeOK
<1>1. Inv => TypeOK
  BY DEF Inv
<1> QED BY <1>1, Invariance, PTL

(* FullSize and Size are the distances between the pointers at all times,  *)
(* whatever the size of the ring, the nesting of batches, overflows,       *)
(* signals, and slow flushes.                                              *)
THEOREM CountersAgree == Spec => []SizesAgree
<1>1. Inv => SizesAgree
  BY DEF Inv, Agree, SizesAgree, Taken
<1> QED BY <1>1, Invariance, PTL

(* The branch of TFB_DrawCommandQueue_Pop that reports an assertion        *)
(* failure and empties the queue is never taken.                           *)
THEOREM NeverThrownAway == Spec => []NothingThrownAway
<1>1. Inv => NothingThrownAway
  BY InvConsistent DEF NothingThrownAway
<1> QED BY <1>1, Invariance, PTL

(* All of these together: what any thread may rely on in any state.        *)
THEOREM Consistency == Spec => []QueueConsistent
BY TypeCorrect, CountersAgree, NeverThrownAway, PTL DEF QueueConsistent

-----------------------------------------------------------------------------
(***************************************************************************)
(* Proofs about what the draw command queue holds, for every size of the   *)
(* ring: no frame is torn, a signal means that all is drawn, and the ring  *)
(* implements the list of DrawOrder.                                       *)
(***************************************************************************)

(* The slot k places behind slot i, without the remainder.                 *)
Place(i, k) == IF i + k < DCQ_MAX THEN i + k ELSE i + k - DCQ_MAX

LEMMA Wrap ==
  ASSUME NEW i \in Slots, NEW k \in 0 .. DCQ_MAX
  PROVE  (i + k) % DCQ_MAX = Place(i, k) /\ Place(i, k) \in Slots
<1>1. CASE i + k < DCQ_MAX
  <2>1. (i + k) % DCQ_MAX = i + k
    BY <1>1, DrawQueueAssumption, SMT DEF Slots
  <2> QED BY <1>1, <2>1, DrawQueueAssumption DEF Place, Slots
<1>2. CASE ~(i + k < DCQ_MAX)
  <2>1. PICK j \in 0 .. DCQ_MAX - 1 : i + k = j + DCQ_MAX
    BY <1>2, DrawQueueAssumption DEF Slots
  <2>2. (j + DCQ_MAX) % DCQ_MAX = j
    BY DrawQueueAssumption, SMT
  <2> QED BY <1>2, <2>1, <2>2, DrawQueueAssumption DEF Place, Slots
<1> QED BY <1>1, <1>2

(* What the queue q of the ring d holds at place k.                        *)
At(d, q, k) == d[Place(q.Front, k)]

LEMMA Places ==
  ASSUME NEW q \in Counters, Agree(q)
  PROVE  /\ q.Front \in Slots /\ q.Size \in 0 .. DCQ_MAX - 1
         /\ q.FullSize \in 0 .. DCQ_MAX - 1 /\ q.Size <= q.FullSize
         /\ Place(q.Front, 0) = q.Front
         /\ Place(q.Front, q.Size) = q.Back
         /\ Place(q.Front, q.FullSize) = q.InsertionPoint
         /\ \A k \in 0 .. DCQ_MAX - 1 : Place(q.Front, k) \in Slots
         /\ \A k, l \in 0 .. DCQ_MAX - 1 :
              Place(q.Front, k) = Place(q.Front, l) => k = l
         /\ \A k \in 0 .. DCQ_MAX - 2 : Place(Next1(q.Front), k) = Place(q.Front, k + 1)
<1>1. q.Front \in Slots /\ q.Back \in Slots /\ q.InsertionPoint \in Slots
      /\ q.Size \in 0 .. DCQ_MAX /\ q.FullSize \in 0 .. DCQ_MAX
  BY DEF Counters
<1>2. q.Size \in 0 .. DCQ_MAX - 1 /\ q.FullSize \in 0 .. DCQ_MAX - 1 /\ q.Size <= q.FullSize
  BY <1>1, DrawQueueAssumption DEF Agree
<1>3. Place(q.Front, q.Size) = q.Back /\ Place(q.Front, q.FullSize) = q.InsertionPoint
  BY <1>1, DrawQueueAssumption DEF Agree, Distance, Place, Slots
<1>4. \A k \in 0 .. DCQ_MAX - 2 : Place(Next1(q.Front), k) = Place(q.Front, k + 1)
  BY <1>1, NextSlot, DrawQueueAssumption DEF Place, Slots
<1>5. Place(q.Front, 0) = q.Front
  BY <1>1, DrawQueueAssumption DEF Place, Slots
<1>6. \A k \in 0 .. DCQ_MAX - 1 : Place(q.Front, k) \in Slots
  BY <1>1, DrawQueueAssumption DEF Place, Slots
<1>7. \A k, l \in 0 .. DCQ_MAX - 1 : Place(q.Front, k) = Place(q.Front, l) => k = l
  BY <1>1, DrawQueueAssumption DEF Place, Slots
<1> QED BY <1>1, <1>2, <1>3, <1>4, <1>5, <1>6, <1>7

-----------------------------------------------------------------------------
(* The steps as seen from the list of commands: what is published, pushed  *)
(* and taken.                                                              *)

(* The list grows by c at its end.                                         *)
Pushed(d, q, e, r, c) ==
  /\ r.Front = q.Front /\ r.FullSize = q.FullSize + 1
  /\ \A k \in 0 .. q.FullSize - 1 : At(e, r, k) = At(d, q, k)
  /\ At(e, r, q.FullSize) = c

(* The list stays as it is.                                                *)
Kept(d, q, e, r) ==
  /\ r.Front = q.Front /\ r.FullSize = q.FullSize
  /\ \A k \in 0 .. q.FullSize - 1 : At(e, r, k) = At(d, q, k)

LEMMA PushedByInsert ==
  ASSUME NEW q \in Counters, Agree(q), ~(q.FullSize >= DCQ_MAX - 1),
         NEW d \in [Slots -> Commands \cup {"none"}], NEW c,
         NEW e, e = [d EXCEPT ![q.InsertionPoint] = c]
  PROVE  /\ Pushed(d, q, e, Inserted(q), c)
         /\ Inserted(q).Size = IF q.Batching # 0 THEN q.Size ELSE q.FullSize + 1
         /\ Inserted(q).Batching = q.Batching
<1> DEFINE r == Inserted(q)
<1>1. r \in Counters /\ Agree(r) /\ r.Front = q.Front /\ r.FullSize = q.FullSize + 1
  BY InsertedAgrees
<1>2. q.InsertionPoint \in Slots
  BY DEF Counters
<1>3. \A k \in 0 .. q.FullSize - 1 :
        At(e, r, k) = At(d, q, k)
  <2> SUFFICES ASSUME NEW k \in 0 .. q.FullSize - 1 PROVE At(e, r, k) = At(d, q, k)
    OBVIOUS
  <2>1. k \in 0 .. DCQ_MAX - 1 /\ k # q.FullSize /\ q.FullSize \in 0 .. DCQ_MAX - 1
    BY Places, DrawQueueAssumption
  <2>2. Place(q.Front, k) # q.InsertionPoint /\ Place(q.Front, k) \in Slots
    BY <2>1, Places
  <2> QED BY <1>1, <2>2 DEF At
<1>4. At(e, r, q.FullSize) = c
  BY <1>1, <1>2, Places DEF At
<1>5. r.Batching = q.Batching /\ q.Batching # 0 => r.Size = q.Size
  BY DEF Inserted, Synchronize, Counters
<1>6. r.Batching = q.Batching
  BY DEF Inserted, Synchronize, Counters
<1>7. q.Batching = 0 => r.Size = r.FullSize
  BY <1>1, <1>6 DEF Agree
<1> QED BY <1>1, <1>3, <1>4, <1>5, <1>6, <1>7 DEF Pushed

LEMMA KeptBySameSlots ==
  ASSUME NEW q \in Counters, NEW r \in Counters, Agree(q), Agree(r), SameSlots(q, r), NEW d
  PROVE  Kept(d, q, d, r)
BY TakenUnmoved DEF Kept, At, SameSlots

LEMMA BatchResetEffect ==
  ASSUME NEW q \in Counters, Agree(q)
  PROVE  /\ BatchReset(q) \in Counters /\ Agree(BatchReset(q)) /\ SameSlots(q, BatchReset(q))
         /\ BatchReset(q).Batching = 0
         /\ BatchReset(q).Size = q.FullSize /\ BatchReset(q).FullSize = q.FullSize
<1>1. BatchReset(q) \in Counters /\ Agree(BatchReset(q)) /\ SameSlots(q, BatchReset(q))
  BY BatchResetAgrees
<1>2. BatchReset(q).Batching = 0
  BY DrawQueueAssumption DEF BatchReset, Synchronize, Counters
<1>3. BatchReset(q).FullSize = q.FullSize
  BY <1>1, TakenUnmoved
<1>4. BatchReset(q).Size = BatchReset(q).FullSize
  BY <1>1, <1>2 DEF Agree
<1> QED BY <1>1, <1>2, <1>3, <1>4

(* Nothing is held back while no batch is open.                            *)
LEMMA HeldBack ==
  ASSUME NEW q \in Counters, Agree(q), q.Batching = 0
  PROVE  q.Size = q.FullSize
BY DEF Agree

-----------------------------------------------------------------------------
(* The kinds of steps.  Flip: a batch that is published is over.           *)
BatchHeld == \E k \in queue.Size .. queue.FullSize - 1 : At(DCQ, queue, k) = batch
Flip == batch' = IF BatchHeld THEN Other[batch] ELSE batch

Same ==
  Kept(DCQ, queue, DCQ', queue') /\ queue'.Size = queue.Size /\ batch' = batch
Publishes ==
  Kept(DCQ, queue, DCQ', queue') /\ queue'.Size = queue.FullSize /\ Flip
Puts(c) ==
  /\ c \in {batch, "reinitInBatch"} /\ Pushed(DCQ, queue, DCQ', queue', c)
  /\ queue'.Size = queue.Size /\ batch' = batch
Appends(c) ==
  /\ c \in Commands \ Batches /\ Pushed(DCQ, queue, DCQ', queue', c)
  /\ queue'.Size = queue.FullSize + 1 /\ Flip
Takes ==
  /\ queue.Size # 0 /\ cmd' = At(DCQ, queue, 0)
  /\ queue'.Size = queue.Size - 1 /\ queue'.FullSize = queue.FullSize - 1
  /\ \A k \in 0 .. queue.FullSize - 2 :
       At(DCQ', queue', k) = At(DCQ, queue, k + 1)
  /\ batch' = batch

LEMMA HeldAt ==
  ASSUME Inv
  PROVE  /\ \A k \in 0 .. DCQ_MAX - 1 : Held(k) = At(DCQ, queue, k)
         /\ BatchWaits <=> BatchHeld
<1>1. queue.Front \in Slots
  BY CountersOfInv
<1>2. \A k \in 0 .. DCQ_MAX - 1 : Held(k) = At(DCQ, queue, k)
  BY <1>1, Wrap, DrawQueueAssumption DEF Held, At
<1>3. queue.Size \in 0 .. DCQ_MAX - 1 /\ queue.FullSize \in 0 .. DCQ_MAX - 1
  BY CountersOfInv, Places
<1>4. \A k \in queue.Size .. queue.FullSize - 1 : k \in 0 .. DCQ_MAX - 1
  BY <1>3, DrawQueueAssumption
<1>5. BatchWaits => BatchHeld
  BY <1>2, <1>4 DEF BatchWaits, BatchHeld
<1>6. BatchHeld => BatchWaits
  BY <1>2, <1>4 DEF BatchWaits, BatchHeld
<1> QED BY <1>2, <1>5, <1>6

(* A batch that ends is flipped.                                           *)
LEMMA FlipByReset ==
  ASSUME Inv, NEW q, q.Batching = 0, batch' = BatchAfter(q)
  PROVE  Flip
<1>1. queue.Batching = 0 => queue.Size = queue.FullSize
  BY CountersOfInv, HeldBack
<1>2. queue.Size \in Nat /\ queue.FullSize \in Nat
  BY CountersOfInv, Places, DrawQueueAssumption
<1>3. queue.Batching = 0 => ~BatchHeld
  BY <1>1, <1>2 DEF BatchHeld
<1>4. BatchWaits <=> BatchHeld
  BY HeldAt
<1>5. CASE BatchHeld
  BY <1>3, <1>4, <1>5 DEF BatchAfter, Flip
<1>6. CASE ~BatchHeld
  BY <1>4, <1>6 DEF BatchAfter, Flip
<1> QED BY <1>5, <1>6

LEMMA InsertKind ==
  ASSUME Inv, ~Overloaded, NEW c, NEW b, c \in Commands \ Batches,
         b \in {batch, "reinitInBatch"},
         DCQ' = [DCQ EXCEPT ![queue.InsertionPoint] = IF queue.Batching = 0 THEN c ELSE b],
         queue' = Inserted(queue), batch' = batch
  PROVE  IF queue.Batching = 0 THEN Appends(c) ELSE Puts(b)
<1>1. queue \in Counters /\ Agree(queue) /\ DCQ \in [Slots -> Commands \cup {"none"}]
  BY CountersOfInv DEF Inv, TypeOK
<1>2. /\ Pushed(DCQ, queue, DCQ', queue', IF queue.Batching = 0 THEN c ELSE b)
      /\ queue'.Size = IF queue.Batching # 0 THEN queue.Size ELSE queue.FullSize + 1
  BY <1>1, PushedByInsert DEF Overloaded
<1>3. CASE queue.Batching = 0
  <2>1. queue.Size = queue.FullSize /\ queue.FullSize \in Nat
    BY <1>1, <1>3, HeldBack, Places, DrawQueueAssumption
  <2>2. Flip
    BY <2>1 DEF Flip, BatchHeld
  <2> QED BY <1>2, <1>3, <2>2 DEF Appends
<1>4. CASE queue.Batching # 0
  BY <1>2, <1>4 DEF Puts
<1> QED BY <1>3, <1>4

LEMMA GameKinds ==
  ASSUME Inv
  PROVE  /\ Push => Puts(batch) \/ Appends("draw")
         /\ WaitForSignal => Appends("signal")
         /\ WaitForSpace => Publishes
         /\ BatchGraphics => Same
         /\ UnbatchGraphics => Same \/ Publishes
<1>1. queue \in Counters /\ Agree(queue) /\ DCQ \in [Slots -> Commands \cup {"none"}]
  BY CountersOfInv DEF Inv, TypeOK
<1>2. ASSUME Push PROVE Puts(batch) \/ Appends("draw")
  <2>1. "draw" \in Commands \ Batches /\ batch \in {batch, "reinitInBatch"}
    BY DEF Commands, Batches
  <2>2. /\ ~Overloaded /\ queue' = Inserted(queue) /\ batch' = batch
        /\ DCQ' = [DCQ EXCEPT ![queue.InsertionPoint] =
                     IF queue.Batching = 0 THEN "draw" ELSE batch]
    BY <1>2 DEF Push
  <2>3. IF queue.Batching = 0 THEN Appends("draw") ELSE Puts(batch)
    BY <2>1, <2>2, InsertKind, Zenon
  <2> QED BY <2>3
<1>3. ASSUME WaitForSignal PROVE Appends("signal")
  <2> DEFINE q == BatchReset(queue)
  <2>1. /\ q \in Counters /\ Agree(q) /\ SameSlots(queue, q) /\ q.Batching = 0
        /\ q.Size = queue.FullSize /\ q.FullSize = queue.FullSize
    BY <1>1, BatchResetEffect
  <2>2. Pushed(DCQ, q, DCQ', queue', "signal") /\ queue'.Size = queue.FullSize + 1
    BY <1>1, <1>3, <2>1, PushedByInsert DEF WaitForSignal, Overloaded
  <2>3. Pushed(DCQ, queue, DCQ', queue', "signal")
    BY <2>1, <2>2 DEF Pushed, At, SameSlots
  <2>4. Flip
    BY <1>3, <2>1, FlipByReset DEF WaitForSignal
  <2> QED BY <2>2, <2>3, <2>4 DEF Appends, Commands, Batches
<1>4. ASSUME WaitForSpace PROVE Publishes
  <2>1. /\ queue' \in Counters /\ Agree(queue') /\ SameSlots(queue, queue')
        /\ queue'.Batching = 0 /\ queue'.Size = queue.FullSize
    BY <1>1, <1>4, BatchResetEffect DEF WaitForSpace
  <2>2. Kept(DCQ, queue, DCQ', queue')
    BY <1>1, <1>4, <2>1, KeptBySameSlots DEF WaitForSpace
  <2>3. Flip
    BY <1>4, <2>1, FlipByReset DEF WaitForSpace
  <2> QED BY <2>1, <2>2, <2>3 DEF Publishes
<1>5. ASSUME BatchGraphics PROVE Same
  BY <1>1, <1>5 DEF BatchGraphics, Same, Kept, At, Counters
<1>6. ASSUME UnbatchGraphics PROVE Same \/ Publishes
  <2>1. queue' \in Counters /\ Agree(queue') /\ SameSlots(queue, queue')
    BY <1>1, <1>6, UnbatchedAgrees DEF UnbatchGraphics
  <2>2. Kept(DCQ, queue, DCQ', queue')
    BY <1>1, <1>6, <2>1, KeptBySameSlots DEF UnbatchGraphics
  <2>3. CASE queue'.Batching # 0
    <3>1. queue'.Size = queue.Size /\ batch' = batch
      BY <1>1, <1>6, <2>3 DEF UnbatchGraphics, Unbatched, Synchronize, BatchAfter, Counters
    <3> QED BY <2>2, <3>1 DEF Same
  <2>4. CASE queue'.Batching = 0
    <3>1. queue'.Size = queue.FullSize
      BY <2>1, <2>2, <2>4, HeldBack DEF Kept
    <3>2. Flip
      BY <1>6, <2>4, FlipByReset DEF UnbatchGraphics
    <3> QED BY <2>2, <3>1, <3>2 DEF Publishes
  <2> QED BY <2>3, <2>4
<1> QED BY <1>2, <1>3, <1>4, <1>5, <1>6

LEMMA MainKinds ==
  ASSUME Inv
  PROVE  /\ Reinit => Publishes \/ Puts("reinitInBatch") \/ Appends("reinit")
         /\ Pop => Takes
         /\ PopNothing => Same /\ queue.Size = 0
<1>1. queue \in Counters /\ Agree(queue) /\ DCQ \in [Slots -> Commands \cup {"none"}]
  BY CountersOfInv DEF Inv, TypeOK
<1>2. ASSUME Reinit, Overloaded PROVE Publishes
  <2>1. /\ queue' \in Counters /\ Agree(queue') /\ SameSlots(queue, queue')
        /\ queue'.Batching = 0 /\ queue'.Size = queue.FullSize
    BY <1>1, <1>2, BatchResetEffect DEF Reinit
  <2>2. Kept(DCQ, queue, DCQ', queue')
    BY <1>1, <1>2, <2>1, KeptBySameSlots DEF Reinit
  <2>3. Flip
    BY <1>2, <2>1, FlipByReset DEF Reinit
  <2> QED BY <2>1, <2>2, <2>3 DEF Publishes
<1>3. ASSUME Reinit, ~Overloaded PROVE Puts("reinitInBatch") \/ Appends("reinit")
  <2>1. "reinit" \in Commands \ Batches /\ "reinitInBatch" \in {batch, "reinitInBatch"}
    BY DEF Commands, Modes, Batches
  <2>2. /\ ~Overloaded /\ queue' = Inserted(queue) /\ batch' = batch
        /\ DCQ' = [DCQ EXCEPT ![queue.InsertionPoint] =
                     IF queue.Batching = 0 THEN "reinit" ELSE "reinitInBatch"]
    BY <1>3 DEF Reinit
  <2>3. IF queue.Batching = 0 THEN Appends("reinit") ELSE Puts("reinitInBatch")
    BY <2>1, <2>2, InsertKind, Zenon
  <2> QED BY <2>3
<1>4. ASSUME Pop PROVE Takes
  <2>1. queue.Size # 0
    BY <1>4 DEF Pop, CanPop
  <2>2. queue'.Front = Next1(queue.Front) /\ queue'.FullSize = queue.FullSize - 1
    BY <1>1, <1>4, <2>1, PoppedAgrees DEF Pop
  <2>3. queue'.Size = queue.Size - 1
    BY <1>1, <1>4 DEF Pop, Popped, Counters
  <2>4. cmd' = At(DCQ, queue, 0) /\ batch' = batch
    BY <1>1, <1>4, Places DEF Pop, At
  <2>5. ASSUME NEW k \in 0 .. queue.FullSize - 2
        PROVE  At(DCQ', queue', k) = At(DCQ, queue, k + 1)
    <3>1. k \in 0 .. DCQ_MAX - 2 /\ k + 1 \in 0 .. DCQ_MAX - 1 /\ k + 1 # 0
          /\ 0 \in 0 .. DCQ_MAX - 1
      BY <1>1, Places, DrawQueueAssumption
    <3>2. Place(Next1(queue.Front), k) = Place(queue.Front, k + 1)
      BY <1>1, <3>1, Places
    <3>3. Place(queue.Front, k + 1) \in Slots /\ Place(queue.Front, k + 1) # queue.Front
      BY <1>1, <3>1, Places
    <3> QED BY <1>1, <1>4, <2>2, <3>2, <3>3 DEF Pop, At
  <2> QED BY <2>1, <2>2, <2>3, <2>4, <2>5 DEF Takes
<1>5. ASSUME PopNothing PROVE Same /\ queue.Size = 0
  <2>1. queue.Size = 0
    BY <1>5, InvConsistent DEF PopNothing, CanPop
  <2>2. queue' = queue
    BY <1>1, <1>5, <2>1 DEF PopNothing, Counters
  <2> QED BY <1>5, <2>1, <2>2 DEF PopNothing, Same, Kept, At
<1> QED BY <1>2, <1>3, <1>4, <1>5
-----------------------------------------------------------------------------
(* The signal a waiting game pushed is in the list, with nothing of the    *)
(* game behind it, or in the hand of the main thread, or given.            *)
InHand == main \in {"check", "handle"} \/ (main = "lock" /\ handled # 0)
Handed == InHand /\ cmd = "signal"
OnlyModes(lo) == \A k \in 0 .. queue.FullSize - 1 : lo <= k => At(DCQ, queue, k) \in Modes
NoSignal(hi) == \A k \in 0 .. queue.FullSize - 1 : k < hi => At(DCQ, queue, k) # "signal"

Listed(k) ==
  k < queue.FullSize /\ At(DCQ, queue, k) = "signal" /\ NoSignal(k) /\ OnlyModes(k + 1)

SignalInv ==
  /\ main = "check" => handled # 0
  /\ main = "begin" => handled = 0
  /\ game # "signal" => ~signalled /\ ~Handed /\ NoSignal(queue.FullSize)
  /\ game = "signal" =>
       \/ signalled /\ ~Handed /\ OnlyModes(0)
       \/ ~signalled /\ Handed /\ OnlyModes(0)
       \/ ~signalled /\ ~Handed /\ \E k \in 0 .. DCQ_MAX - 1 : Listed(k)

LEMMA ListFacts ==
  ASSUME Inv
  PROVE  /\ queue.Size \in Nat /\ queue.FullSize \in Nat /\ queue.Size <= queue.FullSize
         /\ queue.FullSize \in 0 .. DCQ_MAX - 1
         /\ batch \in Batches /\ Other[batch] \in Batches
         /\ Other[batch] # batch /\ Other[Other[batch]] = batch
         /\ Modes \cap Batches = {} /\ "signal" \notin Modes
         /\ "reinit" \in Modes /\ "reinitInBatch" \in Modes
         /\ frame \notin Modes
<1>1. queue \in Counters /\ Agree(queue)
  BY CountersOfInv
<1>2. queue.Size \in Nat /\ queue.FullSize \in Nat /\ queue.Size <= queue.FullSize
      /\ queue.FullSize \in 0 .. DCQ_MAX - 1
  BY <1>1, Places, DrawQueueAssumption
<1>3. batch \in Batches /\ frame \notin Modes
  BY DEF Inv, TypeOK
<1> QED BY <1>2, <1>3 DEF Batches, Other, Modes

-----------------------------------------------------------------------------
(* Batches.  The commands in a row, the last one drawn in front: what      *)
(* waits is of the batch that is open, or a change of mode; nothing in     *)
(* sight of that batch is the last in sight, changes of mode aside; no     *)
(* change of mode pushed outside a batch stands within one.                *)
Item(k) == IF k = 0 THEN frame ELSE At(DCQ, queue, k - 1)

Split(i, k) ==
  /\ i < k /\ Item(i) \in Batches /\ Item(k) = Item(i)
  /\ \A j \in i + 1 .. k - 1 : Item(j) \in Modes

Waiting == \A k \in queue.Size + 1 .. queue.FullSize : Item(k) \in {batch, "reinitInBatch"}
InSight ==
  \A i \in 0 .. queue.Size : Item(i) = batch => \E j \in i + 1 .. queue.Size : Item(j) \notin Modes
Unsplit ==
  \A i, k \in 0 .. queue.FullSize : Split(i, k) => \A j \in i + 1 .. k - 1 : Item(j) # "reinit"
OnScreen == cmd = "reinit" \/ main \in {"swap", "loop"}
Undivided == OnScreen => \A k \in 1 .. queue.FullSize : ~Split(0, k)

BatchInv == Waiting /\ InSight /\ Unsplit /\ Undivided

(* The list as the steps change it: kept, longer by c, shorter by one.     *)
LEMMA ItemsKept ==
  ASSUME Inv, Kept(DCQ, queue, DCQ', queue'), frame' = frame
  PROVE  /\ queue'.FullSize = queue.FullSize
         /\ \A k \in 0 .. queue.FullSize : Item(k)' = Item(k)
BY ListFacts DEF Kept, Item

LEMMA ItemsPushed ==
  ASSUME Inv, NEW c, Pushed(DCQ, queue, DCQ', queue', c), frame' = frame,
         NEW n \in Nat, n = queue.FullSize + 1
  PROVE  /\ queue'.FullSize = n
         /\ \A k \in 0 .. n - 1 : Item(k)' = Item(k)
         /\ Item(n)' = c
<1>1. queue.FullSize \in Nat /\ n # 0 /\ n - 1 = queue.FullSize
  BY ListFacts
<1> QED BY <1>1 DEF Pushed, Item

LEMMA SplitKept ==
  ASSUME Inv, \A k \in 0 .. queue.FullSize : Item(k)' = Item(k),
         NEW i \in 0 .. queue.FullSize, NEW k \in 0 .. queue.FullSize
  PROVE  Split(i, k)' <=> Split(i, k)
<1>1. \A j \in i + 1 .. k - 1 : j \in 0 .. queue.FullSize
  BY ListFacts
<1> QED BY <1>1 DEF Split

(* What the end of a batch brings in sight is of the batch before.         *)
LEMMA InSightByFlip ==
  ASSUME Inv, BatchInv, Flip
  PROVE  \A i \in 0 .. queue.FullSize :
           Item(i) = batch' => \E j \in i + 1 .. queue.FullSize : Item(j) \notin Modes
<1> SUFFICES ASSUME NEW i \in 0 .. queue.FullSize, Item(i) = batch'
             PROVE  \E j \in i + 1 .. queue.FullSize : Item(j) \notin Modes
  OBVIOUS
<1>1. \A k \in queue.Size + 1 .. queue.FullSize : Item(k) \in {batch, "reinitInBatch"}
  BY DEF BatchInv, Waiting
<1>2. batch \notin Modes /\ Other[batch] \notin Modes /\ Other[batch] # batch
  BY ListFacts
<1>3. CASE BatchHeld
  <2>1. PICK k \in queue.Size .. queue.FullSize - 1 : At(DCQ, queue, k) = batch
    BY <1>3 DEF BatchHeld
  <2>2. k + 1 \in queue.Size + 1 .. queue.FullSize /\ k + 1 # 0 /\ (k + 1) - 1 = k
    BY <2>1, ListFacts
  <2>3. Item(k + 1) = batch
    BY <2>1, <2>2 DEF Item
  <2>4. Item(i) = Other[batch]
    BY <1>3 DEF Flip
  <2>5. i \notin queue.Size + 1 .. queue.FullSize
    BY <1>1, <1>2, <2>4, ListFacts
  <2>6. k + 1 \in i + 1 .. queue.FullSize
    BY <2>2, <2>5, ListFacts
  <2> QED BY <1>2, <2>3, <2>6
<1>4. CASE ~BatchHeld
  <2>1. Item(i) = batch
    BY <1>4 DEF Flip
  <2>2. i \notin queue.Size + 1 .. queue.FullSize
    <3>1. ASSUME i \in queue.Size + 1 .. queue.FullSize PROVE FALSE
      <4>1. i - 1 \in queue.Size .. queue.FullSize - 1 /\ i # 0
        BY <3>1, ListFacts
      <4>2. At(DCQ, queue, i - 1) = batch
        BY <2>1, <4>1 DEF Item
      <4> QED BY <1>4, <4>1, <4>2 DEF BatchHeld
    <3> QED BY <3>1
  <2>3. i \in 0 .. queue.Size
    BY <2>2, ListFacts
  <2>4. PICK j \in i + 1 .. queue.Size : Item(j) \notin Modes
    BY <2>1, <2>3 DEF BatchInv, InSight
  <2>5. j \in i + 1 .. queue.FullSize
    BY <2>4, ListFacts
  <2> QED BY <2>4, <2>5
<1> QED BY <1>3, <1>4

LEMMA BatchSame ==
  ASSUME Inv, BatchInv, Same, frame' = frame, OnScreen' => OnScreen \/ queue.Size = 0
  PROVE  BatchInv'
<1>1. queue'.Size = queue.Size /\ batch' = batch /\ queue'.FullSize = queue.FullSize
      /\ \A k \in 0 .. queue.FullSize : Item(k)' = Item(k)
  BY ItemsKept DEF Same
<1>2. Waiting' /\ InSight'
  <2>1. \A k \in queue.Size + 1 .. queue.FullSize : k \in 0 .. queue.FullSize
    BY ListFacts
  <2>2. \A i \in 0 .. queue.Size : /\ i \in 0 .. queue.FullSize
          /\ \A j \in i + 1 .. queue.Size : j \in 0 .. queue.FullSize
    BY ListFacts
  <2>3. Waiting'
    BY <1>1, <2>1 DEF BatchInv, Waiting
  <2>4. InSight'
    BY <1>1, <2>2 DEF BatchInv, InSight
  <2> QED BY <2>3, <2>4
<1>3. Unsplit'
  <2> SUFFICES ASSUME NEW i \in 0 .. queue.FullSize, NEW k \in 0 .. queue.FullSize,
                      Split(i, k)', NEW j \in i + 1 .. k - 1
               PROVE  Item(j)' # "reinit"
    BY <1>1 DEF Unsplit
  <2>1. Split(i, k) /\ j \in 0 .. queue.FullSize
    BY <1>1, SplitKept, ListFacts
  <2> QED BY <1>1, <2>1 DEF BatchInv, Unsplit
<1>4. Undivided'
  <2> SUFFICES ASSUME OnScreen', NEW k \in 1 .. queue.FullSize, Split(0, k)' PROVE FALSE
    BY <1>1 DEF Undivided
  <2>1. Split(0, k)
    BY <1>1, SplitKept, ListFacts
  <2>2. CASE queue.Size = 0
    <3>1. Item(k) \in {batch, "reinitInBatch"}
      BY <2>2, ListFacts DEF BatchInv, Waiting
    <3>2. Item(0) = batch
      BY <2>1, <3>1, ListFacts DEF Split
    <3> QED BY <2>2, <3>2, ListFacts DEF BatchInv, InSight
  <2> QED BY <2>1, <2>2 DEF BatchInv, Undivided
<1> QED BY <1>2, <1>3, <1>4 DEF BatchInv

LEMMA BatchPublishes ==
  ASSUME Inv, BatchInv, Publishes, frame' = frame, OnScreen' => OnScreen
  PROVE  BatchInv'
<1>1. queue'.Size = queue.FullSize /\ Flip /\ queue'.FullSize = queue.FullSize
      /\ \A k \in 0 .. queue.FullSize : Item(k)' = Item(k)
  BY ItemsKept DEF Publishes
<1>2. Waiting'
  BY <1>1, ListFacts DEF Waiting
<1>3. InSight'
  <2>1. \A i \in 0 .. queue.FullSize : \A j \in i + 1 .. queue.FullSize : j \in 0 .. queue.FullSize
    BY ListFacts
  <2> QED BY <1>1, <2>1, InSightByFlip DEF InSight
<1>4. Unsplit'
  <2> SUFFICES ASSUME NEW i \in 0 .. queue.FullSize, NEW k \in 0 .. queue.FullSize,
                      Split(i, k)', NEW j \in i + 1 .. k - 1
               PROVE  Item(j)' # "reinit"
    BY <1>1 DEF Unsplit
  <2>1. Split(i, k) /\ j \in 0 .. queue.FullSize
    BY <1>1, SplitKept, ListFacts
  <2> QED BY <1>1, <2>1 DEF BatchInv, Unsplit
<1>5. Undivided'
  <2> SUFFICES ASSUME OnScreen', NEW k \in 1 .. queue.FullSize, Split(0, k)' PROVE FALSE
    BY <1>1 DEF Undivided
  <2>1. Split(0, k)
    BY <1>1, SplitKept, ListFacts
  <2> QED BY <2>1 DEF BatchInv, Undivided
<1> QED BY <1>2, <1>3, <1>4, <1>5 DEF BatchInv

(* A command behind the rest splits no batch: one of the open batch comes  *)
(* behind others in sight, and the rest is of no batch.                    *)
LEMMA PushedSplit ==
  ASSUME Inv, BatchInv, NEW c, Pushed(DCQ, queue, DCQ', queue', c), frame' = frame,
         c \in Batches => c = batch, OnScreen' => OnScreen
  PROVE  Unsplit' /\ Undivided'
<1>0. PICK n \in Nat : n = queue.FullSize + 1
  BY ListFacts
<1>1. queue'.FullSize = n /\ Item(n)' = c /\ n = queue.FullSize + 1
      /\ \A k \in 0 .. queue.FullSize : Item(k)' = Item(k)
  BY <1>0, ItemsPushed, ListFacts
<1>2. ASSUME NEW i \in 0 .. queue.FullSize, Split(i, n)'
      PROVE  /\ Item(i) = batch /\ i > queue.Size
  <2>1. Item(i) = batch
    BY <1>1, <1>2 DEF Split
  <2>2. ASSUME i \in 0 .. queue.Size PROVE FALSE
    <3>1. PICK j \in i + 1 .. queue.Size : Item(j) \notin Modes
      BY <2>1, <2>2 DEF BatchInv, InSight
    <3>2. j \in i + 1 .. n - 1 /\ j \in 0 .. queue.FullSize
      BY <1>0, <3>1, ListFacts
    <3>3. Item(j)' \in Modes
      BY <1>2, <3>2 DEF Split
    <3>4. Modes' = Modes
      BY DEF Modes
    <3> QED BY <1>1, <3>1, <3>2, <3>3, <3>4
  <2> QED BY <2>1, <2>2, ListFacts
<1>3. Unsplit'
  <2> SUFFICES ASSUME NEW i \in 0 .. n, NEW k \in 0 .. n,
                      Split(i, k)', NEW j \in i + 1 .. k - 1
               PROVE  Item(j)' # "reinit"
    BY <1>1 DEF Unsplit
  <2>1. i \in 0 .. queue.FullSize /\ j \in 0 .. queue.FullSize
    BY <1>0, ListFacts
  <2>2. CASE k \in 0 .. queue.FullSize
    <3>1. Split(i, k)
      BY <1>1, <2>1, <2>2, SplitKept
    <3> QED BY <1>1, <2>1, <2>2, <3>1 DEF BatchInv, Unsplit
  <2>3. CASE k = n
    <3>1. j \in queue.Size + 1 .. queue.FullSize
      BY <1>2, <2>1, <2>3, ListFacts
    <3>2. Item(j) \in {batch, "reinitInBatch"}
      BY <3>1 DEF BatchInv, Waiting
    <3>3. batch # "reinit" /\ "reinitInBatch" # "reinit"
      BY ListFacts
    <3> QED BY <1>1, <2>1, <3>2, <3>3
  <2> QED BY <1>0, <2>2, <2>3, ListFacts
<1>4. Undivided'
  <2> SUFFICES ASSUME OnScreen', NEW k \in 1 .. n, Split(0, k)' PROVE FALSE
    BY <1>1 DEF Undivided
  <2>1. CASE k \in 1 .. queue.FullSize
    <3>1. Split(0, k)
      BY <1>1, <2>1, SplitKept, ListFacts
    <3> QED BY <2>1, <3>1 DEF BatchInv, Undivided
  <2>2. CASE k = n
    BY <1>0, <1>2, <2>2, ListFacts
  <2> QED BY <1>0, <2>1, <2>2, ListFacts
<1> QED BY <1>3, <1>4

LEMMA BatchPuts ==
  ASSUME Inv, BatchInv, NEW c, Puts(c), frame' = frame, OnScreen' => OnScreen
  PROVE  BatchInv'
<1>0. PICK n \in Nat : n = queue.FullSize + 1
  BY ListFacts
<1>1. Pushed(DCQ, queue, DCQ', queue', c) /\ c \in {batch, "reinitInBatch"}
      /\ queue'.Size = queue.Size /\ batch' = batch
  BY DEF Puts
<1>2. queue'.FullSize = n /\ Item(n)' = c /\ n = queue.FullSize + 1
      /\ \A k \in 0 .. queue.FullSize : Item(k)' = Item(k)
  BY <1>0, <1>1, ItemsPushed, ListFacts
<1>3. Unsplit' /\ Undivided'
  BY <1>1, PushedSplit, ListFacts
<1>4. Waiting'
  <2> SUFFICES ASSUME NEW k \in queue.Size + 1 .. n
               PROVE  Item(k)' \in {batch, "reinitInBatch"}
    BY <1>1, <1>2 DEF Waiting
  <2>1. CASE k = n
    BY <1>1, <1>2, <2>1
  <2>2. CASE k # n
    <3>1. k \in queue.Size + 1 .. queue.FullSize /\ k \in 0 .. queue.FullSize
      BY <1>0, <2>2, ListFacts
    <3> QED BY <1>2, <3>1 DEF BatchInv, Waiting
  <2> QED BY <2>1, <2>2
<1>5. InSight'
  <2>1. \A i \in 0 .. queue.Size : /\ i \in 0 .. queue.FullSize
          /\ \A j \in i + 1 .. queue.Size : j \in 0 .. queue.FullSize
    BY ListFacts
  <2> QED BY <1>1, <1>2, <2>1 DEF BatchInv, InSight
<1> QED BY <1>3, <1>4, <1>5 DEF BatchInv

LEMMA BatchAppends ==
  ASSUME Inv, BatchInv, NEW c, Appends(c), frame' = frame, OnScreen' => OnScreen
  PROVE  BatchInv'
<1>0. PICK n \in Nat : n = queue.FullSize + 1
  BY ListFacts
<1>1. Pushed(DCQ, queue, DCQ', queue', c) /\ c \notin Batches
      /\ queue'.Size = n /\ Flip
  BY <1>0 DEF Appends
<1>2. queue'.FullSize = n /\ Item(n)' = c /\ n = queue.FullSize + 1
      /\ \A k \in 0 .. queue.FullSize : Item(k)' = Item(k)
  BY <1>0, <1>1, ItemsPushed, ListFacts
<1>3. Unsplit' /\ Undivided'
  BY <1>1, PushedSplit
<1>4. Waiting'
  BY <1>1, <1>2, ListFacts DEF Waiting
<1>5. InSight'
  <2> SUFFICES ASSUME NEW i \in 0 .. n, Item(i)' = batch'
               PROVE  \E j \in i + 1 .. n : Item(j)' \notin Modes
    BY <1>1 DEF InSight, Modes
  <2>1. batch' \in Batches
    BY <1>1, ListFacts DEF Flip
  <2>2. i \in 0 .. queue.FullSize /\ Item(i) = batch'
    BY <1>1, <1>2, <2>1, ListFacts
  <2>3. PICK j \in i + 1 .. queue.FullSize : Item(j) \notin Modes
    BY <1>1, <2>2, InSightByFlip
  <2>4. j \in i + 1 .. n /\ j \in 0 .. queue.FullSize
    BY <1>0, <2>2, <2>3, ListFacts
  <2> QED BY <1>2, <2>3, <2>4
<1> QED BY <1>3, <1>4, <1>5 DEF BatchInv

(* The first command becomes the last one drawn, unless it is a change of  *)
(* mode: then it goes from between the two.                                *)
LEMMA ItemsTaken ==
  ASSUME Inv, Takes, frame' = IF cmd' \in Modes THEN frame ELSE cmd'
  PROVE  /\ queue.FullSize # 0 /\ queue.Size # 0 /\ cmd' = Item(1)
         /\ queue'.Size = queue.Size - 1 /\ queue'.FullSize = queue.FullSize - 1
         /\ \A k \in 1 .. queue.FullSize - 1 : Item(k)' = Item(k + 1)
         /\ Item(0)' = IF Item(1) \in Modes THEN Item(0) ELSE Item(1)
<1>1. queue.Size # 0 /\ cmd' = At(DCQ, queue, 0)
      /\ queue'.Size = queue.Size - 1 /\ queue'.FullSize = queue.FullSize - 1
      /\ \A k \in 0 .. queue.FullSize - 2 : At(DCQ', queue', k) = At(DCQ, queue, k + 1)
  BY DEF Takes
<1>2. ASSUME NEW k \in 1 .. queue.FullSize - 1 PROVE Item(k)' = Item(k + 1)
  <2>1. k - 1 \in 0 .. queue.FullSize - 2 /\ (k - 1) + 1 = k /\ (k + 1) - 1 = k
        /\ k # 0 /\ k + 1 # 0
    BY ListFacts
  <2> QED BY <1>1, <2>1 DEF Item
<1>3. cmd' = Item(1)
  BY <1>1 DEF Item
<1>4. Item(0)' = IF Item(1) \in Modes THEN Item(0) ELSE Item(1)
  BY <1>3 DEF Item
<1> QED BY <1>1, <1>2, <1>3, <1>4, ListFacts

(* Two parts of a batch were two parts before the step.                    *)
LEMMA SplitTaken ==
  ASSUME Inv, Takes, frame' = IF cmd' \in Modes THEN frame ELSE cmd',
         NEW i \in 0 .. queue.FullSize - 1, NEW k \in 0 .. queue.FullSize - 1, Split(i, k)'
  PROVE  LET h == IF i = 0 /\ Item(1) \in Modes THEN 0 ELSE i + 1
         IN  /\ h \in 0 .. queue.FullSize /\ k + 1 \in 0 .. queue.FullSize
             /\ Split(h, k + 1) /\ i <= h
<1> DEFINE h == IF i = 0 /\ Item(1) \in Modes THEN 0 ELSE i + 1
<1>1. queue.FullSize # 0 /\ queue.FullSize \in Nat
      /\ Item(0)' = (IF Item(1) \in Modes THEN Item(0) ELSE Item(1))
      /\ \A j \in 1 .. queue.FullSize - 1 : Item(j)' = Item(j + 1)
  BY ItemsTaken, ListFacts
<1>2. i < k /\ k \in 1 .. queue.FullSize - 1 /\ h \in 0 .. queue.FullSize
      /\ k + 1 \in 0 .. queue.FullSize /\ i <= h /\ h < k + 1
  BY <1>1 DEF Split
<1>3. Item(i)' = Item(h)
  <2>1. CASE i = 0
    BY <1>1, <2>1
  <2>2. CASE i # 0
    <3>1. i \in 1 .. queue.FullSize - 1 /\ h = i + 1
      BY <2>2
    <3> QED BY <1>1, <3>1
  <2> QED BY <2>1, <2>2
<1>4. Item(k + 1) = Item(k)'
  BY <1>1, <1>2
<1>5. Item(h) \in Batches /\ Item(k + 1) = Item(h)
  BY <1>3, <1>4 DEF Split, Batches
<1>6. ASSUME NEW j \in h + 1 .. (k + 1) - 1 PROVE Item(j) \in Modes
  <2>1. CASE j = 1
    <3>1. h = 0
      BY <1>2, <2>1
    <3> QED BY <2>1, <3>1
  <2>2. CASE j # 1
    <3>1. j - 1 \in i + 1 .. k - 1 /\ j - 1 \in 1 .. queue.FullSize - 1 /\ (j - 1) + 1 = j
      <4>1. j - 1 \in i + 1 .. k - 1
        <5>1. CASE h = 0
          BY <1>2, <2>2, <5>1
        <5>2. CASE h = i + 1
          BY <1>2, <5>2
        <5> QED BY <1>2, <5>1, <5>2
      <4> QED BY <1>1, <1>2, <4>1
    <3>2. Item(j - 1)' \in Modes
      BY <3>1 DEF Split, Modes
    <3> QED BY <1>1, <3>1, <3>2
  <2> QED BY <2>1, <2>2
<1> HIDE DEF h
<1>7. Split(h, k + 1)
  BY <1>2, <1>5, <1>6 DEF Split
<1> QED BY <1>2, <1>7 DEF h

LEMMA BatchTakes ==
  ASSUME Inv, BatchInv, Takes, frame' = IF cmd' \in Modes THEN frame ELSE cmd',
         main' \notin {"swap", "loop"}
  PROVE  BatchInv'
<1>1. queue.FullSize # 0 /\ queue.Size # 0 /\ cmd' = Item(1) /\ batch' = batch
      /\ queue'.Size = queue.Size - 1 /\ queue'.FullSize = queue.FullSize - 1
      /\ Item(0)' = (IF Item(1) \in Modes THEN Item(0) ELSE Item(1))
      /\ \A k \in 1 .. queue.FullSize - 1 : Item(k)' = Item(k + 1)
  BY ItemsTaken DEF Takes
<1>2. Waiting'
  <2> SUFFICES ASSUME NEW k \in (queue.Size - 1) + 1 .. queue.FullSize - 1
               PROVE  Item(k)' \in {batch, "reinitInBatch"}
    BY <1>1 DEF Waiting
  <2>1. k \in 1 .. queue.FullSize - 1 /\ k + 1 \in queue.Size + 1 .. queue.FullSize
    BY <1>1, ListFacts
  <2> QED BY <1>1, <2>1 DEF BatchInv, Waiting
<1>3. InSight'
  <2> SUFFICES ASSUME NEW i \in 0 .. queue.Size - 1, Item(i)' = batch
               PROVE  \E j \in i + 1 .. queue.Size - 1 : Item(j)' \notin Modes
    BY <1>1 DEF InSight, Modes
  <2>1. PICK h \in 0 .. queue.Size :
          Item(h) = batch /\ (h = i + 1 \/ (h = 0 /\ i = 0 /\ Item(1) \in Modes))
    <3>1. CASE i = 0
      BY <1>1, <3>1, ListFacts
    <3>2. CASE i # 0
      <4>1. i \in 1 .. queue.FullSize - 1 /\ i + 1 \in 0 .. queue.Size
        BY <3>2, ListFacts
      <4> QED BY <1>1, <4>1
    <3> QED BY <3>1, <3>2
  <2>2. PICK j \in h + 1 .. queue.Size : Item(j) \notin Modes
    BY <2>1 DEF BatchInv, InSight
  <2>3. j - 1 \in i + 1 .. queue.Size - 1 /\ j - 1 \in 1 .. queue.FullSize - 1 /\ (j - 1) + 1 = j
    <3>1. j # 1
      BY <2>1, <2>2
    <3> QED BY <2>1, <2>2, <3>1, ListFacts
  <2> QED BY <1>1, <2>2, <2>3
<1>4. Unsplit'
  <2> SUFFICES ASSUME NEW i \in 0 .. queue.FullSize - 1, NEW k \in 0 .. queue.FullSize - 1,
                      Split(i, k)', NEW j \in i + 1 .. k - 1
               PROVE  Item(j)' # "reinit"
    BY <1>1 DEF Unsplit
  <2>1. PICK h \in 0 .. queue.FullSize :
          h <= i + 1 /\ Split(h, k + 1) /\ k + 1 \in 0 .. queue.FullSize
    BY SplitTaken, ListFacts
  <2>2. j + 1 \in h + 1 .. (k + 1) - 1 /\ j \in 1 .. queue.FullSize - 1
    BY <2>1, ListFacts
  <2> QED BY <1>1, <2>1, <2>2 DEF BatchInv, Unsplit
<1>5. Undivided'
  <2> SUFFICES ASSUME Item(1) = "reinit", NEW k \in 1 .. queue.FullSize - 1, Split(0, k)'
               PROVE  FALSE
    BY <1>1 DEF Undivided, OnScreen
  <2>1. Split(0, k + 1) /\ k + 1 \in 0 .. queue.FullSize /\ 0 \in 0 .. queue.FullSize
    BY SplitTaken, ListFacts
  <2>2. 1 \in 0 + 1 .. (k + 1) - 1
    BY ListFacts
  <2> QED BY <2>1, <2>2 DEF BatchInv, Unsplit
<1> QED BY <1>2, <1>3, <1>4, <1>5 DEF BatchInv

LEMMA BatchStep ==
  ASSUME Inv, BatchInv, [Next]_vars
  PROVE  BatchInv'
<1>1. CASE Push
  <2>1. frame' = frame /\ OnScreen' = OnScreen
    BY <1>1 DEF Push, OnScreen
  <2> QED BY <1>1, <2>1, GameKinds, BatchPuts, BatchAppends
<1>2. CASE WaitForSignal
  <2>1. frame' = frame /\ OnScreen' = OnScreen
    BY <1>2 DEF WaitForSignal, OnScreen
  <2> QED BY <1>2, <2>1, GameKinds, BatchAppends
<1>3. CASE WaitForSpace
  <2>1. frame' = frame /\ OnScreen' = OnScreen
    BY <1>3 DEF WaitForSpace, OnScreen
  <2> QED BY <1>3, <2>1, GameKinds, BatchPublishes
<1>4. CASE BatchGraphics
  <2>1. frame' = frame /\ OnScreen' = OnScreen
    BY <1>4 DEF BatchGraphics, OnScreen
  <2> QED BY <1>4, <2>1, GameKinds, BatchSame
<1>5. CASE UnbatchGraphics
  <2>1. frame' = frame /\ OnScreen' = OnScreen
    BY <1>5 DEF UnbatchGraphics, OnScreen
  <2> QED BY <1>5, <2>1, GameKinds, BatchSame, BatchPublishes
<1>6. CASE Reinit
  <2>1. frame' = frame /\ OnScreen
    BY <1>6 DEF Reinit, OnScreen
  <2> QED BY <1>6, <2>1, MainKinds, BatchPublishes, BatchPuts, BatchAppends
<1>7. CASE Pop
  <2>1. main' \notin {"swap", "loop"} /\ frame' = IF cmd' \in Modes THEN frame ELSE cmd'
    BY <1>7 DEF Pop
  <2> QED BY <1>7, <2>1, MainKinds, BatchTakes
<1>8. CASE PopNothing
  <2>1. frame' = frame
    BY <1>8 DEF PopNothing
  <2> QED BY <1>8, <2>1, MainKinds, BatchSame
<1>9. CASE UNCHANGED <<DCQ, queue, batch, frame>> /\ (OnScreen' => OnScreen)
  <2>1. Same
    BY <1>9 DEF Same, Kept, At
  <2> QED BY <1>9, <2>1, BatchSame
<1>10. CASE \/ FlushNothing \/ FlushStart \/ FlushBegin \/ HoldQueue \/ CheckLivelock
            \/ Handle \/ Redraw \/ SwapBuffers \/ WaitCond \/ TakeSignal \/ UNCHANGED vars
  BY <1>9, <1>10 DEF FlushNothing, FlushStart, FlushBegin, HoldQueue, CheckLivelock, OnScreen,
                     Handle, Redraw, SwapBuffers, WaitCond, TakeSignal, vars
<1> QED BY <1>1, <1>2, <1>3, <1>4, <1>5, <1>6, <1>7, <1>8, <1>10 DEF Next, Main, Push1

-----------------------------------------------------------------------------
(* Signals.                                                                *)
LEMMA SignalKept ==
  ASSUME Inv, Kept(DCQ, queue, DCQ', queue')
  PROVE  /\ queue'.FullSize = queue.FullSize
         /\ \A k \in Nat : OnlyModes(k) => OnlyModes(k)'
         /\ \A k \in Nat : NoSignal(k) => NoSignal(k)'
         /\ \A k \in 0 .. DCQ_MAX - 1 : Listed(k) => Listed(k)'
<1>1. queue'.FullSize = queue.FullSize
      /\ \A k \in 0 .. queue.FullSize - 1 : At(DCQ', queue', k) = At(DCQ, queue, k)
  BY DEF Kept
<1>2. \A k \in Nat : OnlyModes(k) => OnlyModes(k)'
  BY <1>1 DEF OnlyModes
<1>3. \A k \in Nat : NoSignal(k) => NoSignal(k)'
  BY <1>1 DEF NoSignal
<1>4. ASSUME NEW k \in 0 .. DCQ_MAX - 1, Listed(k) PROVE Listed(k)'
  <2>1. k \in Nat /\ k + 1 \in Nat /\ k \in 0 .. queue.FullSize - 1
    BY <1>4, ListFacts, DrawQueueAssumption DEF Listed
  <2>2. k < queue.FullSize /\ At(DCQ, queue, k) = "signal"
        /\ NoSignal(k) /\ OnlyModes(k + 1)
    BY <1>4 DEF Listed
  <2>3. NoSignal(k)' /\ OnlyModes(k + 1)'
    BY <1>2, <1>3, <2>1, <2>2
  <2>4. k < queue'.FullSize /\ At(DCQ', queue', k) = "signal"
    BY <1>1, <2>1, <2>2
  <2> QED BY <2>3, <2>4 DEF Listed
<1> QED BY <1>1, <1>2, <1>3, <1>4

(* What a signal in the list needs stays true behind a mode.               *)
LEMMA SignalPushed ==
  ASSUME Inv, NEW c, Pushed(DCQ, queue, DCQ', queue', c),
         NEW n \in Nat, n = queue.FullSize
  PROVE  /\ queue'.FullSize = n + 1
         /\ c \in Modes => \A k \in Nat : OnlyModes(k) => OnlyModes(k)'
         /\ c \in Modes => \A k \in 0 .. DCQ_MAX - 1 : Listed(k) => Listed(k)'
         /\ c # "signal" /\ NoSignal(n) => NoSignal(n + 1)'
         /\ c = "signal" /\ NoSignal(n) => Listed(n)'
<1>1. queue'.FullSize = n + 1 /\ At(DCQ', queue', n) = c
      /\ \A k \in 0 .. n - 1 : At(DCQ', queue', k) = At(DCQ, queue, k)
  BY DEF Pushed
<1>2. \A k \in 0 .. queue'.FullSize - 1 : k = n \/ k \in 0 .. n - 1
  BY <1>1
<1>3. ASSUME c \in Modes, NEW k \in Nat, OnlyModes(k) PROVE OnlyModes(k)'
  BY <1>1, <1>2, <1>3 DEF OnlyModes
<1>4. ASSUME c # "signal", NoSignal(n) PROVE NoSignal(n + 1)'
  <2>1. \A k \in 0 .. n - 1 : At(DCQ, queue, k) # "signal"
    BY <1>4 DEF NoSignal
  <2>2. \A k \in 0 .. queue'.FullSize - 1 : At(DCQ', queue', k) # "signal"
    BY <1>1, <1>2, <1>4, <2>1
  <2> QED BY <2>2 DEF NoSignal
<1>5. ASSUME c \in Modes, NEW k \in 0 .. DCQ_MAX - 1, Listed(k) PROVE Listed(k)'
  <2>1. k \in Nat /\ k + 1 \in Nat /\ k < n /\ k < n + 1 /\ k \in 0 .. n - 1
        /\ At(DCQ, queue, k) = "signal" /\ NoSignal(k) /\ OnlyModes(k + 1)
    BY <1>5, DrawQueueAssumption DEF Listed
  <2>2. NoSignal(k)'
    BY <1>1, <1>2, <1>5, <2>1 DEF NoSignal
  <2>3. OnlyModes(k + 1)'
    BY <1>3, <1>5, <2>1
  <2>4. At(DCQ', queue', k) = "signal" /\ k < queue'.FullSize
    BY <1>1, <2>1
  <2> QED BY <2>2, <2>3, <2>4 DEF Listed
<1>6. ASSUME c = "signal", NoSignal(n) PROVE Listed(n)'
  <2>1. \A k \in 0 .. queue'.FullSize - 1 : k < n => At(DCQ', queue', k) # "signal"
    BY <1>1, <1>2, <1>6 DEF NoSignal
  <2>2. \A k \in 0 .. queue'.FullSize - 1 : ~(n + 1 <= k)
    BY <1>1
  <2>3. n < queue'.FullSize
    BY <1>1
  <2> QED BY <1>1, <1>6, <2>1, <2>2, <2>3 DEF Listed, NoSignal, OnlyModes
<1> QED BY <1>1, <1>3, <1>4, <1>5, <1>6

(* The list loses its first command.                                       *)
LEMMA SignalTaken ==
  ASSUME Inv, Takes
  PROVE  /\ queue'.FullSize = queue.FullSize - 1 /\ queue.FullSize # 0
         /\ OnlyModes(0) => OnlyModes(0)' /\ cmd' \in Modes
         /\ NoSignal(queue.FullSize) => NoSignal(queue.FullSize)' /\ cmd' # "signal"
         /\ \A k \in 0 .. DCQ_MAX - 1 : Listed(k) =>
              IF k = 0 THEN OnlyModes(0)' /\ cmd' = "signal"
              ELSE k - 1 \in 0 .. DCQ_MAX - 1 /\ Listed(k - 1)' /\ cmd' # "signal"
<1>1. queue.Size # 0 /\ cmd' = At(DCQ, queue, 0)
      /\ queue'.FullSize = queue.FullSize - 1 /\ queue.FullSize # 0
      /\ \A k \in 0 .. queue.FullSize - 2 : At(DCQ', queue', k) = At(DCQ, queue, k + 1)
  BY ListFacts DEF Takes
<1>2. 0 \in 0 .. queue.FullSize - 1
      /\ \A k \in 0 .. queue'.FullSize - 1 : k \in 0 .. queue.FullSize - 2
                                            /\ k + 1 \in 0 .. queue.FullSize - 1
  BY <1>1, ListFacts
<1>3. ASSUME OnlyModes(0) PROVE OnlyModes(0)' /\ cmd' \in Modes
  <2>1. \A k \in 0 .. queue.FullSize - 1 : At(DCQ, queue, k) \in Modes
    BY <1>3 DEF OnlyModes
  <2> QED BY <1>1, <1>2, <2>1 DEF OnlyModes
<1>4. ASSUME NoSignal(queue.FullSize)
      PROVE  NoSignal(queue.FullSize)' /\ cmd' # "signal"
  <2>1. \A k \in 0 .. queue.FullSize - 1 : At(DCQ, queue, k) # "signal"
    BY <1>4, ListFacts DEF NoSignal
  <2> QED BY <1>1, <1>2, <2>1 DEF NoSignal
<1>5. ASSUME NEW k \in 0 .. DCQ_MAX - 1, Listed(k), k = 0
      PROVE  OnlyModes(0)' /\ cmd' = "signal"
  <2>1. At(DCQ, queue, 0) = "signal" /\ OnlyModes(1)
    BY <1>5 DEF Listed
  <2>2. \A j \in 0 .. queue.FullSize - 1 : 1 <= j => At(DCQ, queue, j) \in Modes
    BY <2>1 DEF OnlyModes
  <2>3. \A j \in 0 .. queue'.FullSize - 1 : At(DCQ', queue', j) \in Modes
    BY <1>1, <1>2, <2>2
  <2> QED BY <1>1, <2>1, <2>3 DEF OnlyModes
<1>6. ASSUME NEW k \in 0 .. DCQ_MAX - 1, Listed(k), k # 0
      PROVE  k - 1 \in 0 .. DCQ_MAX - 1 /\ Listed(k - 1)' /\ cmd' # "signal"
  <2>1. k - 1 \in 0 .. DCQ_MAX - 1 /\ k - 1 \in 0 .. queue.FullSize - 2
        /\ (k - 1) + 1 = k /\ k \in 0 .. queue.FullSize - 1 /\ k - 1 < queue.FullSize - 1
        /\ 0 < k
    BY <1>6, ListFacts, DrawQueueAssumption DEF Listed
  <2>2. At(DCQ, queue, k) = "signal" /\ NoSignal(k) /\ OnlyModes(k + 1)
    BY <1>6 DEF Listed
  <2>3. At(DCQ', queue', k - 1) = "signal" /\ k - 1 < queue'.FullSize
    BY <1>1, <2>1, <2>2
  <2>4. cmd' # "signal"
    BY <1>1, <1>2, <2>1, <2>2 DEF NoSignal
  <2>5. NoSignal(k - 1)'
    <3>1. \A j \in 0 .. queue.FullSize - 1 : j < k => At(DCQ, queue, j) # "signal"
      BY <2>2 DEF NoSignal
    <3>2. \A j \in 0 .. queue'.FullSize - 1 : j < k - 1 => j + 1 < k
      BY <2>1
    <3> QED BY <1>1, <1>2, <3>1, <3>2 DEF NoSignal
  <2>6. OnlyModes((k - 1) + 1)'
    <3>1. \A j \in 0 .. queue.FullSize - 1 : k + 1 <= j => At(DCQ, queue, j) \in Modes
      BY <2>2 DEF OnlyModes
    <3>2. \A j \in 0 .. queue'.FullSize - 1 : (k - 1) + 1 <= j => k + 1 <= j + 1
      BY <2>1
    <3> QED BY <1>1, <1>2, <3>1, <3>2 DEF OnlyModes
  <2> QED BY <2>1, <2>3, <2>4, <2>5, <2>6 DEF Listed
<1> QED BY <1>1, <1>3, <1>4, <1>5, <1>6

(* Steps that leave the list, or add a command that is no signal while the *)
(* game does not wait for one, or a change of mode.                           *)
LEMMA SignalQuiet ==
  ASSUME Inv, SignalInv, Kept(DCQ, queue, DCQ', queue'),
         signalled' = signalled, Handed' = Handed,
         game' = "signal" <=> game = "signal",
         main' = "check" => handled' # 0, main' = "begin" => handled' = 0
  PROVE  SignalInv'
<1>1. queue'.FullSize = queue.FullSize
  BY SignalKept
<1>2. ASSUME game # "signal"
      PROVE  ~signalled' /\ ~Handed' /\ NoSignal(queue.FullSize)'
  <2>1. PICK n \in Nat : n = queue.FullSize
    BY ListFacts
  <2>2. NoSignal(n)
    BY <1>2, <2>1 DEF SignalInv
  <2>3. NoSignal(n)'
    BY <2>2, SignalKept
  <2> QED BY <1>1, <1>2, <2>1, <2>3 DEF SignalInv, NoSignal
<1>3. OnlyModes(0) => OnlyModes(0)'
  BY SignalKept
<1>4. (\E k \in 0 .. DCQ_MAX - 1 : Listed(k)) => (\E k \in 0 .. DCQ_MAX - 1 : Listed(k)')
  BY SignalKept
<1> QED BY <1>2, <1>3, <1>4 DEF SignalInv

LEMMA SignalAdds ==
  ASSUME Inv, SignalInv, NEW c, Pushed(DCQ, queue, DCQ', queue', c),
         signalled' = signalled, Handed' = Handed, c # "signal",
         game' = "signal" <=> game = "signal",
         game = "signal" => c \in Modes,
         main' = "check" => handled' # 0, main' = "begin" => handled' = 0
  PROVE  SignalInv'
<1>0. PICK n \in Nat : n = queue.FullSize
  BY ListFacts
<1>1. queue'.FullSize = n + 1
  BY <1>0, SignalPushed
<1>2. ASSUME game # "signal"
      PROVE  ~signalled' /\ ~Handed' /\ NoSignal(queue.FullSize)'
  <2>1. NoSignal(n)
    BY <1>0, <1>2 DEF SignalInv
  <2>2. NoSignal(n + 1)'
    BY <1>0, <2>1, SignalPushed
  <2> QED BY <1>1, <1>2, <2>2 DEF SignalInv, NoSignal
<1>3. c \in Modes => (OnlyModes(0) => OnlyModes(0)')
  BY <1>0, SignalPushed
<1>4. c \in Modes /\ (\E k \in 0 .. DCQ_MAX - 1 : Listed(k))
        => (\E k \in 0 .. DCQ_MAX - 1 : Listed(k)')
  BY <1>0, SignalPushed
<1> QED BY <1>2, <1>3, <1>4 DEF SignalInv

LEMMA SignalAsked ==
  ASSUME Inv, SignalInv, Appends("signal"), UNCHANGED <<signalled, main, handled, cmd>>,
         game # "signal", game' = "signal"
  PROVE  SignalInv'
<1>0. PICK n \in Nat : n = queue.FullSize
  BY ListFacts
<1>1. Pushed(DCQ, queue, DCQ', queue', "signal") /\ n \in 0 .. DCQ_MAX - 1
  BY <1>0, ListFacts DEF Appends
<1>2. NoSignal(n) /\ ~signalled /\ ~Handed
  BY <1>0 DEF SignalInv
<1>3. Listed(n)'
  BY <1>0, <1>1, <1>2, SignalPushed
<1>4. ~Handed'
  BY <1>2 DEF Handed, InHand
<1>5. \E k \in 0 .. DCQ_MAX - 1 : Listed(k)'
  BY <1>1, <1>3
<1> QED BY <1>2, <1>4, <1>5 DEF SignalInv

LEMMA SignalTakes ==
  ASSUME Inv, SignalInv, Pop
  PROVE  SignalInv'
<1>1. Takes /\ signalled' = signalled /\ game' = game /\ main = "pop" /\ main' = "check"
  BY MainKinds DEF Pop
<1>2. handled' # 0
  BY DrawQueueAssumption DEF Pop, Inv, TypeOK
<1>3. ~Handed /\ (Handed' <=> cmd' = "signal")
  BY <1>1 DEF Handed, InHand
<1>4. CASE game # "signal"
  BY <1>1, <1>2, <1>3, <1>4, SignalTaken DEF SignalInv
<1>5. CASE game = "signal" /\ signalled /\ OnlyModes(0)
  BY <1>1, <1>2, <1>3, <1>5, SignalTaken, ListFacts DEF SignalInv
<1>6. CASE game = "signal" /\ ~signalled /\ \E k \in 0 .. DCQ_MAX - 1 : Listed(k)
  <2>1. PICK k \in 0 .. DCQ_MAX - 1 : Listed(k)
    BY <1>6
  <2>2. CASE k = 0
    <3>1. OnlyModes(0)' /\ cmd' = "signal"
      BY <1>1, <2>1, <2>2, SignalTaken
    <3> QED BY <1>1, <1>2, <1>3, <1>6, <3>1 DEF SignalInv
  <2>3. CASE k # 0
    <3>1. k - 1 \in 0 .. DCQ_MAX - 1 /\ Listed(k - 1)' /\ cmd' # "signal"
      BY <1>1, <2>1, <2>3, SignalTaken
    <3>2. \E j \in 0 .. DCQ_MAX - 1 : Listed(j)'
      BY <3>1
    <3> QED BY <1>1, <1>2, <1>3, <1>6, <3>1, <3>2 DEF SignalInv
  <2> QED BY <2>2, <2>3
<1> QED BY <1>3, <1>4, <1>5, <1>6 DEF SignalInv

(* The signal in hand is given, or taken by the game.                      *)
LEMMA SignalGiven ==
  ASSUME Inv, SignalInv, Handle
  PROVE  SignalInv'
<1>1. /\ main = "handle" /\ main' \in {"pop", "redraw"} /\ (signalled' <=> signalled \/ cmd = "signal")
      /\ UNCHANGED <<DCQ, queue, game, handled, cmd>>
  BY DEF Handle
<1>2. ~Handed' /\ (Handed <=> cmd = "signal")
  BY <1>1 DEF Handed, InHand
<1>3. Kept(DCQ, queue, DCQ', queue')
  BY <1>1 DEF Kept, At
<1>4. CASE cmd # "signal"
  <2>1. signalled' = signalled
    BY <1>4 DEF Handle, Inv, TypeOK
  <2>2. Handed' = Handed
    BY <1>2, <1>4 DEF Handed
  <2> QED BY <1>1, <1>3, <2>1, <2>2, SignalQuiet
<1>5. CASE cmd = "signal"
  <2>1. game = "signal" /\ ~signalled /\ OnlyModes(0)
    BY <1>2, <1>5 DEF SignalInv
  <2>2. OnlyModes(0)'
    BY <1>3, <2>1, SignalKept
  <2> QED BY <1>1, <1>2, <1>5, <2>1, <2>2 DEF SignalInv
<1> QED BY <1>4, <1>5

LEMMA SignalUsed ==
  ASSUME Inv, SignalInv, TakeSignal
  PROVE  SignalInv'
<1>1. /\ game = "signal" /\ signalled /\ game' = "run" /\ ~signalled'
      /\ UNCHANGED <<DCQ, queue, main, handled, cmd>>
  BY DEF TakeSignal
<1>2. Kept(DCQ, queue, DCQ', queue')
  BY <1>1 DEF Kept, At
<1>3. ~Handed /\ OnlyModes(0)
  BY <1>1 DEF SignalInv
<1>4. OnlyModes(0)'
  BY <1>2, <1>3, SignalKept
<1>5. ~Handed'
  BY <1>1, <1>3 DEF Handed, InHand
<1>6. NoSignal(queue.FullSize)'
  BY <1>4, ListFacts DEF OnlyModes, NoSignal, Modes
<1> QED BY <1>1, <1>5, <1>6 DEF SignalInv

LEMMA SignalStep ==
  ASSUME Inv, SignalInv, [Next]_vars
  PROVE  SignalInv'
<1>1. CASE Push
  <2>1. /\ signalled' = signalled /\ Handed' = Handed /\ game # "signal" /\ game' # "signal"
        /\ UNCHANGED <<main, handled>>
    BY <1>1 DEF Push, GameIdle, Handed, InHand
  <2>2. PICK c : Pushed(DCQ, queue, DCQ', queue', c) /\ c # "signal"
    BY <1>1, GameKinds, ListFacts DEF Puts, Appends, Batches
  <2> QED BY <2>1, <2>2, SignalAdds DEF SignalInv
<1>2. CASE WaitForSignal
  <2>1. game # "signal" /\ game' = "signal" /\ UNCHANGED <<signalled, main, handled, cmd>>
    BY <1>2 DEF WaitForSignal, GameIdle
  <2> QED BY <1>2, <2>1, GameKinds, SignalAsked
<1>3. CASE Reinit
  <2>1. /\ UNCHANGED <<game, handled, cmd, signalled>> /\ main = "loop"
        /\ main' \in {"loop", "stuck"}
    BY <1>3 DEF Reinit
  <2>2. Handed' = Handed
    BY <2>1 DEF Handed, InHand
  <2>3. CASE Publishes
    BY <2>1, <2>2, <2>3, SignalQuiet DEF Publishes
  <2>4. CASE Puts("reinitInBatch") \/ Appends("reinit")
    BY <2>1, <2>2, <2>4, SignalAdds DEF Puts, Appends, Modes
  <2> QED BY <1>3, <2>3, <2>4, MainKinds
<1>4. CASE WaitForSpace
  <2>1. /\ signalled' = signalled /\ Handed' = Handed /\ game # "signal" /\ game' # "signal"
        /\ UNCHANGED <<main, handled>>
    BY <1>4 DEF WaitForSpace, GameIdle, Handed, InHand
  <2> QED BY <1>4, <2>1, GameKinds, SignalQuiet DEF SignalInv, Publishes
<1>5. CASE BatchGraphics \/ UnbatchGraphics
  <2>1. /\ signalled' = signalled /\ Handed' = Handed /\ game' = game
        /\ UNCHANGED <<main, handled>>
    BY <1>5 DEF BatchGraphics, UnbatchGraphics, Handed, InHand
  <2> QED BY <1>5, <2>1, GameKinds, SignalQuiet DEF SignalInv, Same, Publishes
<1>6. CASE PopNothing
  <2>1. /\ signalled' = signalled /\ Handed' = Handed /\ game' = game
        /\ main' = "swap"
    BY <1>6 DEF PopNothing, Handed, InHand
  <2> QED BY <1>6, <2>1, MainKinds, SignalQuiet DEF Same
<1>7. CASE \/ FlushNothing \/ FlushStart \/ FlushBegin \/ HoldQueue \/ CheckLivelock
           \/ Redraw \/ SwapBuffers \/ WaitCond \/ UNCHANGED vars
  <2> USE DEF FlushNothing, FlushStart, FlushBegin, HoldQueue, CheckLivelock,
              Redraw, SwapBuffers, WaitCond, Broadcast, vars
  <2>1. Kept(DCQ, queue, DCQ', queue')
    BY <1>7 DEF Kept, At
  <2>2. signalled' = signalled /\ (game' = "signal" <=> game = "signal")
    BY <1>7
  <2>3. Handed' = Handed
    BY <1>7 DEF SignalInv, Handed, InHand
  <2>4. (main' = "check" => handled' # 0) /\ (main' = "begin" => handled' = 0)
    BY <1>7 DEF SignalInv
  <2> QED BY <2>1, <2>2, <2>3, <2>4, SignalQuiet
<1> QED BY <1>1, <1>2, <1>3, <1>4, <1>5, <1>6, <1>7, SignalTakes, SignalGiven, SignalUsed
        DEF Next, Main, Push1

-----------------------------------------------------------------------------
ListInv == Inv /\ BatchInv /\ SignalInv

LEMMA ListInit == Init => ListInv
<1> SUFFICES ASSUME Init PROVE ListInv
  OBVIOUS
<1>1. queue.Size = 0 /\ queue.FullSize = 0 /\ cmd = "draw" /\ ~signalled
      /\ main = "loop" /\ game = "run"
  BY DEF Init
<1>2. BatchInv
  <2>1. Item(0) \notin Batches
    BY DEF Init, Item, Batches
  <2>2. batch \in Batches
    BY DEF Init, Batches
  <2> QED BY <1>1, <2>1, <2>2 DEF BatchInv, Waiting, InSight, Unsplit, Undivided, Split
<1>3. SignalInv
  BY <1>1 DEF SignalInv, Handed, InHand, NoSignal
<1> QED BY <1>2, <1>3, InvInit DEF ListInv

LEMMA ListInvariance == Spec => []ListInv
<1>1. ListInv /\ [Next]_vars => ListInv'
  BY InvStep, BatchStep, SignalStep DEF ListInv
<1> QED BY <1>1, ListInit, PTL DEF Spec

(* Batches, whatever the size of the ring: when the screen is updated, the *)
(* last batch that was drawn is complete, although batches end early when  *)
(* the queue is full or the game waits (Synchronize_DCQ, TFB_BatchReset)   *)
(* and a change of the video mode updates the screen within a flush;       *)
(* excepted are such updates by a change of mode that was pushed while the *)
(* game had a batch open, which do show parts of one.                      *)
THEOREM FramesWhole == Spec => []NoTornFrame
<1>1. ListInv => NoTornFrame
  <2> SUFFICES ASSUME ListInv, OnScreen, frame \in Batches,
                      NEW k \in 0 .. queue.FullSize - 1, Held(k) = frame,
                      \A j \in 0 .. k - 1 : Held(j) \in Modes
               PROVE  FALSE
    BY DEF NoTornFrame, Torn, OnScreen
  <2>1. queue.FullSize \in 0 .. DCQ_MAX - 1 /\ \A j \in 0 .. DCQ_MAX - 1 : Held(j) = At(DCQ, queue, j)
    BY HeldAt, ListFacts DEF ListInv
  <2>2. k \in 0 .. DCQ_MAX - 1 /\ k + 1 \in 1 .. queue.FullSize /\ (k + 1) - 1 = k /\ k + 1 # 0
    BY <2>1, DrawQueueAssumption
  <2>3. Item(k + 1) = frame /\ Item(0) = frame
    BY <2>1, <2>2 DEF Item
  <2>4. ASSUME NEW j \in 0 + 1 .. (k + 1) - 1 PROVE Item(j) \in Modes
    <3>1. j - 1 \in 0 .. k - 1 /\ j - 1 \in 0 .. DCQ_MAX - 1 /\ j # 0
      BY <2>2, DrawQueueAssumption
    <3> QED BY <2>1, <3>1 DEF Item
  <2>5. Split(0, k + 1)
    BY <2>2, <2>3, <2>4 DEF Split
  <2> QED BY <2>2, <2>5 DEF ListInv, BatchInv, Undivided
<1> QED BY <1>1, ListInvariance, PTL

(* When FlushGraphics returns to the game, all commands the game had       *)
(* pushed are drawn, for any size of the ring and any batches.             *)
THEOREM SignalsTrue == Spec => []SignalMeansDone
<1>1. ListInv => SignalMeansDone
  <2> SUFFICES ASSUME ListInv, game = "signal", signalled,
                      NEW i \in 0 .. DCQ_MAX - 1, i < queue.FullSize
               PROVE  Held(i) \in Modes
    BY DEF SignalMeansDone
  <2>1. OnlyModes(0)
    BY DEF ListInv, SignalInv
  <2>2. i \in 0 .. queue.FullSize - 1 /\ i \in 0 .. DCQ_MAX /\ 0 <= i
    BY ListFacts, DrawQueueAssumption DEF ListInv
  <2>3. At(DCQ, queue, i) \in Modes
    BY <2>1, <2>2 DEF OnlyModes
  <2> QED BY <2>3, HeldAt DEF ListInv
<1> QED BY <1>1, ListInvariance, PTL

-----------------------------------------------------------------------------
(* The refinement.  The two parts of the list of DrawOrder:                *)
Visible == RingPart(queue.Front, queue.Size)
Pending == RingPart(queue.Back, queue.FullSize - queue.Size)

PartsRight ==
  /\ queue.Size \in Nat /\ queue.FullSize \in Nat /\ queue.Size <= queue.FullSize
  /\ Visible \in Seq(Commands) /\ Len(Visible) = queue.Size
  /\ \A i \in 1 .. queue.Size : Visible[i] = At(DCQ, queue, i - 1)
  /\ Pending \in Seq(Commands) /\ Len(Pending) = queue.FullSize - queue.Size
  /\ \A i \in 1 .. queue.FullSize - queue.Size :
       Pending[i] = At(DCQ, queue, queue.Size + i - 1)

LEMMA Parts == Inv => PartsRight
<1> SUFFICES ASSUME Inv PROVE PartsRight
  OBVIOUS
<1>1. /\ queue \in Counters /\ Agree(queue) /\ queue.Front \in Slots /\ queue.Back \in Slots
      /\ DCQ \in [Slots -> Commands \cup {"none"}]
      /\ \A i \in Slots : Taken(queue, i) => DCQ[i] # "none"
  BY CountersOfInv DEF Inv, TypeOK
<1>2. /\ queue.Size \in Nat /\ queue.FullSize \in Nat /\ queue.Size <= queue.FullSize
      /\ queue.FullSize \in 0 .. DCQ_MAX - 1
  BY ListFacts
<1>3. ASSUME NEW k \in 0 .. queue.FullSize - 1 PROVE At(DCQ, queue, k) \in Commands
  <2>1. k \in 0 .. DCQ_MAX /\ k < queue.FullSize /\ Place(queue.Front, k) \in Slots
    BY <1>1, <1>2, Wrap, DrawQueueAssumption
  <2>2. Distance(queue.Front, Place(queue.Front, k)) = k
    BY <1>1, <1>2, DrawQueueAssumption DEF Distance, Place, Slots
  <2> QED BY <1>1, <2>1, <2>2 DEF Taken, At
<1>4. ASSUME NEW i \in 1 .. queue.Size
      PROVE  DCQ[(queue.Front + i - 1) % DCQ_MAX] = At(DCQ, queue, i - 1)
  <2>1. i - 1 \in 0 .. DCQ_MAX /\ queue.Front + i - 1 = queue.Front + (i - 1)
    BY <1>1, <1>2, DrawQueueAssumption DEF Slots
  <2>2. (queue.Front + (i - 1)) % DCQ_MAX = Place(queue.Front, i - 1)
    BY <1>1, <2>1, Wrap
  <2> QED BY <2>1, <2>2 DEF At
<1>5. ASSUME NEW i \in 1 .. queue.FullSize - queue.Size
      PROVE  DCQ[(queue.Back + i - 1) % DCQ_MAX] = At(DCQ, queue, queue.Size + i - 1)
  <2>1. i - 1 \in 0 .. DCQ_MAX /\ queue.Back + i - 1 = queue.Back + (i - 1)
    BY <1>1, <1>2, DrawQueueAssumption DEF Slots
  <2>2. (queue.Back + (i - 1)) % DCQ_MAX = Place(queue.Back, i - 1)
    BY <1>1, <2>1, Wrap
  <2>3. Place(queue.Back, i - 1) = Place(queue.Front, queue.Size + i - 1)
    <3>1. queue.Back = Place(queue.Front, queue.Size)
      BY <1>1, Places
    <3> QED BY <1>1, <1>2, <3>1, DrawQueueAssumption, SMTT(30) DEF Place, Slots
  <2> QED BY <2>1, <2>2, <2>3 DEF At
<1>6. /\ Visible \in [1 .. queue.Size -> Commands]
      /\ \A i \in 1 .. queue.Size : Visible[i] = At(DCQ, queue, i - 1)
  <2>1. \A i \in 1 .. queue.Size : i - 1 \in 0 .. queue.FullSize - 1
    BY <1>2
  <2> QED BY <1>3, <1>4, <2>1 DEF Visible, RingPart
<1>7. /\ Pending \in [1 .. queue.FullSize - queue.Size -> Commands]
      /\ \A i \in 1 .. queue.FullSize - queue.Size :
           Pending[i] = At(DCQ, queue, queue.Size + i - 1)
  <2>1. \A i \in 1 .. queue.FullSize - queue.Size : queue.Size + i - 1 \in 0 .. queue.FullSize - 1
    BY <1>2
  <2> QED BY <1>3, <1>5, <2>1 DEF Pending, RingPart
<1>8. \A n \in Nat : \A f \in [1 .. n -> Commands] : f \in Seq(Commands) /\ Len(f) = n
  BY SeqDef
<1>9. queue.FullSize - queue.Size \in Nat
  BY <1>2
<1> QED BY <1>2, <1>6, <1>7, <1>8, <1>9 DEF PartsRight

(* Each kind of step is a step of the list.                                *)
LEMMA SameList ==
  ASSUME PartsRight, PartsRight', Same
  PROVE  Visible' = Visible /\ Pending' = Pending
<1>1. queue'.FullSize = queue.FullSize /\ queue'.Size = queue.Size
      /\ \A k \in 0 .. queue.FullSize - 1 : At(DCQ', queue', k) = At(DCQ, queue, k)
  BY DEF Same, Kept
<1>2. Visible' = Visible
  <2>1. \A i \in 1 .. queue.Size : Visible'[i] = Visible[i]
    BY <1>1 DEF PartsRight
  <2>2. Len(Visible) = queue.Size /\ Len(Visible') = queue.Size
    BY <1>1 DEF PartsRight
  <2> QED BY <2>1, <2>2, SeqEqual DEF PartsRight
<1>3. Pending' = Pending
  <2>1. \A i \in 1 .. queue.FullSize - queue.Size : Pending'[i] = Pending[i]
    <3>1. \A i \in 1 .. queue.FullSize - queue.Size :
            queue.Size + i - 1 \in 0 .. queue.FullSize - 1
      BY DEF PartsRight
    <3> QED BY <1>1, <3>1 DEF PartsRight
  <2> QED BY <1>1, <2>1, SeqEqual DEF PartsRight
<1> QED BY <1>2, <1>3

LEMMA Joined ==
  ASSUME PartsRight
  PROVE  /\ Visible \o Pending \in Seq(Commands)
         /\ Len(Visible \o Pending) = queue.FullSize
         /\ \A i \in 1 .. queue.FullSize : (Visible \o Pending)[i] = At(DCQ, queue, i - 1)
<1>1. /\ Visible \o Pending \in Seq(Commands)
      /\ Len(Visible \o Pending) = queue.Size + (queue.FullSize - queue.Size)
      /\ \A i \in 1 .. queue.Size + (queue.FullSize - queue.Size) :
           (Visible \o Pending)[i] =
             IF i <= queue.Size THEN Visible[i] ELSE Pending[i - queue.Size]
  BY ConcatProperties, SMTT(30) DEF PartsRight
<1>2. queue.Size + (queue.FullSize - queue.Size) = queue.FullSize
  BY DEF PartsRight
<1>3. ASSUME NEW i \in 1 .. queue.FullSize
      PROVE  (Visible \o Pending)[i] = At(DCQ, queue, i - 1)
  <2>1. CASE i <= queue.Size
    BY <1>1, <1>2, <2>1 DEF PartsRight
  <2>2. CASE ~(i <= queue.Size)
    <3>1. i - queue.Size \in 1 .. queue.FullSize - queue.Size
          /\ queue.Size + (i - queue.Size) - 1 = i - 1
      BY <2>2 DEF PartsRight
    <3> QED BY <1>1, <1>2, <2>2, <3>1 DEF PartsRight
  <2> QED BY <2>1, <2>2
<1> QED BY <1>1, <1>2, <1>3

LEMMA NothingPending ==
  ASSUME PartsRight', queue'.Size = queue'.FullSize
  PROVE  Pending' = <<>>
<1>1. Len(Pending') = 0
  BY DEF PartsRight
<1> QED BY <1>1, EmptySeq DEF PartsRight

LEMMA PublishedList ==
  ASSUME PartsRight, PartsRight', Publishes
  PROVE  Visible' = Visible \o Pending /\ Pending' = <<>>
<1>1. queue'.FullSize = queue.FullSize /\ queue'.Size = queue.FullSize
      /\ \A k \in 0 .. queue.FullSize - 1 : At(DCQ', queue', k) = At(DCQ, queue, k)
  BY DEF Publishes, Kept
<1>2. \A i \in 1 .. queue.FullSize : Visible'[i] = (Visible \o Pending)[i]
  BY <1>1, Joined, SMTT(30) DEF PartsRight
<1>3. Visible' = Visible \o Pending
  BY <1>1, <1>2, Joined, SeqEqual DEF PartsRight
<1> QED BY <1>1, <1>3, NothingPending

LEMMA AppendedList ==
  ASSUME PartsRight, PartsRight', NEW c, Appends(c)
  PROVE  Visible' = Visible \o Pending \o <<c>> /\ Pending' = <<>>
<1>1. queue'.FullSize = queue.FullSize + 1 /\ queue'.Size = queue.FullSize + 1
      /\ c \in Commands /\ At(DCQ', queue', queue.FullSize) = c
      /\ \A k \in 0 .. queue.FullSize - 1 : At(DCQ', queue', k) = At(DCQ, queue, k)
  BY DEF Appends, Pushed
<1> DEFINE s == Visible \o Pending
           t == s \o <<c>>
<1>2. s \in Seq(Commands) /\ Len(s) = queue.FullSize
      /\ \A i \in 1 .. queue.FullSize : s[i] = At(DCQ, queue, i - 1)
  BY Joined
<1>3. <<c>> \in Seq(Commands) /\ Len(<<c>>) = 1 /\ <<c>>[1] = c
  BY <1>1
<1> HIDE DEF s
<1>4. t \in Seq(Commands) /\ Len(t) = queue.FullSize + 1
      /\ \A i \in 1 .. queue.FullSize + 1 :
           t[i] = IF i <= queue.FullSize THEN s[i] ELSE <<c>>[i - queue.FullSize]
  BY <1>2, <1>3, ConcatProperties
<1> HIDE DEF t
<1>5. ASSUME NEW i \in 1 .. queue.FullSize + 1 PROVE Visible'[i] = t[i]
  <2>1. Visible'[i] = At(DCQ', queue', i - 1)
    BY <1>1 DEF PartsRight
  <2>2. CASE i <= queue.FullSize
    <3>1. i \in 1 .. queue.FullSize /\ i - 1 \in 0 .. queue.FullSize - 1
      BY <2>2 DEF PartsRight
    <3> QED BY <1>1, <1>2, <1>4, <2>1, <2>2, <3>1
  <2>3. CASE ~(i <= queue.FullSize)
    <3>1. i - 1 = queue.FullSize /\ i - queue.FullSize = 1
      BY <2>3 DEF PartsRight
    <3> QED BY <1>1, <1>3, <1>4, <2>1, <2>3, <3>1
  <2> QED BY <2>2, <2>3
<1>6. Visible' = t
  BY <1>1, <1>4, <1>5, SeqEqual DEF PartsRight
<1> QED BY <1>1, <1>6, NothingPending DEF s, t

LEMMA PutList ==
  ASSUME PartsRight, PartsRight', NEW c \in Commands, Puts(c)
  PROVE  Visible' = Visible /\ Pending' = Append(Pending, c)
<1>1. queue'.FullSize = queue.FullSize + 1 /\ queue'.Size = queue.Size
      /\ At(DCQ', queue', queue.FullSize) = c
      /\ \A k \in 0 .. queue.FullSize - 1 : At(DCQ', queue', k) = At(DCQ, queue, k)
  BY DEF Puts, Pushed
<1>2. Visible' = Visible
  <2>1. \A i \in 1 .. queue.Size : Visible'[i] = Visible[i]
    BY <1>1 DEF PartsRight
  <2>2. Len(Visible) = queue.Size /\ Len(Visible') = queue.Size
    BY <1>1 DEF PartsRight
  <2> QED BY <2>1, <2>2, SeqEqual DEF PartsRight
<1> DEFINE t == Append(Pending, c)
           m == queue.FullSize - queue.Size
<1>3. m \in Nat /\ Pending \in Seq(Commands) /\ Len(Pending) = m
      /\ queue'.FullSize - queue'.Size = m + 1
      /\ queue.Size + m = queue.FullSize
  BY <1>1 DEF PartsRight
<1>4. t \in Seq(Commands) /\ Len(t) = m + 1 /\ t[m + 1] = c
      /\ \A i \in 1 .. m : t[i] = Pending[i]
  <2>1. t \in Seq(Commands) /\ Len(t) = Len(Pending) + 1 /\ t[Len(Pending) + 1] = c
        /\ \A i \in 1 .. Len(Pending) : t[i] = Pending[i]
    BY <1>3
  <2> QED BY <1>3, <2>1
<1> HIDE DEF t
<1>5. ASSUME NEW i \in 1 .. m + 1 PROVE Pending'[i] = t[i]
  <2>1. Pending'[i] = At(DCQ', queue', queue.Size + i - 1)
    BY <1>1, <1>3 DEF PartsRight
  <2>2. CASE i = m + 1
    <3>1. queue.Size + i - 1 = queue.FullSize
      BY <1>3, <2>2 DEF PartsRight
    <3> QED BY <1>1, <1>4, <2>1, <2>2, <3>1
  <2>3. CASE i # m + 1
    <3>1. i \in 1 .. m /\ queue.Size + i - 1 \in 0 .. queue.FullSize - 1
      <4>1. \A z, y, u \in Nat : \A j \in 1 .. y + 1 :
              j # y + 1 /\ z + y = u => j \in 1 .. y /\ z + j - 1 \in 0 .. u - 1
        OBVIOUS
      <4>2. m \in Nat /\ queue.Size \in Nat /\ queue.FullSize \in Nat
            /\ queue.Size + m = queue.FullSize
        BY <1>3 DEF PartsRight
      <4> HIDE DEF m
      <4> QED BY <2>3, <4>1, <4>2
    <3>2. Pending[i] = At(DCQ, queue, queue.Size + i - 1)
      BY <3>1 DEF PartsRight
    <3> QED BY <1>1, <1>4, <2>1, <3>1, <3>2
  <2> QED BY <2>2, <2>3
<1>6. Pending' = t
  BY <1>3, <1>4, <1>5, SeqEqual DEF PartsRight
<1> QED BY <1>2, <1>6 DEF t

LEMMA TakenList ==
  ASSUME PartsRight, PartsRight', Takes
  PROVE  Visible # <<>> /\ cmd' = Head(Visible) /\ Visible' = Tail(Visible)
         /\ Pending' = Pending
<1>1. queue.Size # 0 /\ cmd' = At(DCQ, queue, 0)
      /\ queue'.Size = queue.Size - 1 /\ queue'.FullSize = queue.FullSize - 1
      /\ \A k \in 0 .. queue.FullSize - 2 : At(DCQ', queue', k) = At(DCQ, queue, k + 1)
  BY DEF Takes
<1>2. Visible \in Seq(Commands) /\ Len(Visible) = queue.Size /\ Visible # <<>>
      /\ 1 \in 1 .. queue.Size
  BY <1>1, EmptySeq DEF PartsRight
<1>3. Tail(Visible) \in Seq(Commands) /\ Len(Tail(Visible)) = queue.Size - 1
      /\ (\A i \in 1 .. queue.Size - 1 : Tail(Visible)[i] = Visible[i + 1])
  BY <1>2, HeadTailProperties
<1>4. Head(Visible) = At(DCQ, queue, 0)
  <2>1. Head(Visible) = Visible[1]
    BY <1>2
  <2> QED BY <1>2, <2>1 DEF PartsRight
<1>5. ASSUME NEW i \in 1 .. queue.Size - 1 PROVE Visible'[i] = Tail(Visible)[i]
  <2>1. i + 1 \in 1 .. queue.Size /\ i - 1 \in 0 .. queue.FullSize - 2
        /\ (i + 1) - 1 = i /\ (i - 1) + 1 = i
    BY DEF PartsRight
  <2>2. Visible[i + 1] = At(DCQ, queue, i)
    BY <2>1 DEF PartsRight
  <2>3. Visible'[i] = At(DCQ', queue', i - 1)
    BY <1>1 DEF PartsRight
  <2>4. At(DCQ', queue', i - 1) = At(DCQ, queue, i)
    BY <1>1, <2>1
  <2> QED BY <1>3, <2>2, <2>3, <2>4
<1>6. Visible' = Tail(Visible)
  BY <1>1, <1>3, <1>5, SeqEqual, SMTT(30) DEF PartsRight
<1>7. Pending' = Pending
  <2>1. queue'.FullSize - queue'.Size = queue.FullSize - queue.Size
        /\ Len(Pending) = queue.FullSize - queue.Size
        /\ Len(Pending') = queue.FullSize - queue.Size
    BY <1>1 DEF PartsRight
  <2>2. ASSUME NEW i \in 1 .. queue.FullSize - queue.Size PROVE Pending'[i] = Pending[i]
    <3>1. (queue.Size - 1) + i - 1 \in 0 .. queue.FullSize - 2
          /\ ((queue.Size - 1) + i - 1) + 1 = queue.Size + i - 1
      <4>1. \A z, u \in Nat : \A j \in 1 .. u - z : z # 0 =>
              (z - 1) + j - 1 \in 0 .. u - 2 /\ ((z - 1) + j - 1) + 1 = z + j - 1
        OBVIOUS
      <4>2. queue.Size \in Nat /\ queue.FullSize \in Nat
        BY DEF PartsRight
      <4> QED BY <1>1, <4>1, <4>2
    <3>2. Pending'[i] = At(DCQ', queue', (queue.Size - 1) + i - 1)
      BY <1>1, <2>1 DEF PartsRight
    <3>3. Pending[i] = At(DCQ, queue, queue.Size + i - 1)
      BY DEF PartsRight
    <3> QED BY <1>1, <3>1, <3>2, <3>3
  <2>3. Pending \in Seq(Commands) /\ Pending' \in Seq(Commands)
    BY DEF PartsRight
  <2> QED BY <2>1, <2>2, <2>3, SeqEqual
<1> QED BY <1>1, <1>2, <1>4, <1>6, <1>7

LEMMA OrderInit == Init => Order!Init
<1> SUFFICES ASSUME Init PROVE Order!Init
  OBVIOUS
<1>1. PartsRight /\ queue.Size = 0 /\ queue.FullSize = 0 /\ cmd \in Commands
  BY InvInit, Parts DEF Init, Commands
<1>2. Len(Visible) = 0 /\ Len(Pending) = 0
  BY <1>1 DEF PartsRight
<1>3. Visible = <<>> /\ Pending = <<>>
  BY <1>1, <1>2, EmptySeq DEF PartsRight
<1> QED BY <1>1, <1>3 DEF Order!Init, Visible, Pending

(* The steps of the list that the kinds of steps are.                      *)
LEMMA KindsImplement ==
  ASSUME PartsRight, PartsRight', batch \in Batches
  PROVE  /\ Same /\ cmd' = cmd => UNCHANGED <<Visible, Pending, cmd>>
         /\ Publishes /\ cmd' = cmd => Order!Next
         /\ \A c \in Commands : (Puts(c) \/ Appends(c)) /\ cmd' = cmd => Order!Next
         /\ Takes => Order!Next
<1> USE DEF Order!Next, Order!Put, Order!Publish, Order!Draw, Visible, Pending
<1>1. Same => Visible' = Visible /\ Pending' = Pending
  BY SameList
<1>2. ASSUME Publishes, cmd' = cmd PROVE Order!Publish(<<>>)
  <2>1. Visible' = Visible \o Pending /\ Pending' = <<>>
    BY <1>2, PublishedList
  <2>2. Visible \o Pending \o <<>> = Visible \o Pending
    BY Joined, ConcatEmptySeq
  <2> QED BY <1>2, <2>1, <2>2
<1>3. ASSUME NEW c \in Commands, Puts(c), cmd' = cmd PROVE Order!Put(c)
  BY <1>3, PutList
<1>4. ASSUME NEW c \in Commands, Appends(c), cmd' = cmd PROVE Order!Publish(<<c>>)
  BY <1>4, AppendedList
<1>5. ASSUME Takes PROVE Order!Draw
  BY <1>5, TakenList
<1> QED BY <1>1, <1>2, <1>3, <1>4, <1>5

LEMMA OrderStep ==
  ASSUME PartsRight, PartsRight', Inv, [Next]_vars
  PROVE  Order!Next \/ UNCHANGED <<Visible, Pending, cmd>>
<1>0. batch \in Batches /\ batch \in Commands /\ "draw" \in Commands
      /\ "signal" \in Commands /\ "reinit" \in Commands /\ "reinitInBatch" \in Commands
  BY ListFacts DEF Commands
<1>1. CASE Push \/ WaitForSignal \/ WaitForSpace \/ BatchGraphics \/ UnbatchGraphics
  <2>1. cmd' = cmd
    BY <1>1 DEF Push, WaitForSignal, WaitForSpace, BatchGraphics, UnbatchGraphics
  <2>2. \/ Same \/ Publishes \/ Puts(batch) \/ Appends("draw") \/ Appends("signal")
    BY <1>1, GameKinds
  <2> QED BY <1>0, <2>1, <2>2, KindsImplement
<1>2. CASE Reinit
  <2>1. cmd' = cmd
    BY <1>2 DEF Reinit
  <2>2. Publishes \/ Puts("reinitInBatch") \/ Appends("reinit")
    BY <1>2, MainKinds
  <2> QED BY <1>0, <2>1, <2>2, KindsImplement
<1>3. CASE Pop
  BY <1>0, <1>3, MainKinds, KindsImplement
<1>4. CASE PopNothing
  <2>1. cmd' = cmd /\ Same
    BY <1>4, MainKinds DEF PopNothing
  <2> QED BY <1>0, <2>1, KindsImplement
<1>5. CASE \/ FlushNothing \/ FlushStart \/ FlushBegin \/ HoldQueue \/ CheckLivelock
           \/ Handle \/ Redraw \/ SwapBuffers \/ WaitCond \/ TakeSignal \/ UNCHANGED vars
  BY <1>5 DEF FlushNothing, FlushStart, FlushBegin, HoldQueue, CheckLivelock, Handle,
              Redraw, SwapBuffers, WaitCond, TakeSignal, vars, Visible, Pending, RingPart
<1> QED BY <1>1, <1>2, <1>3, <1>4, <1>5 DEF Next, Main, Push1

(* The ring, with its pointers and counters, implements the list of        *)
(* DrawOrder for every size: commands are drawn in the order in which they *)
(* were pushed, each once, and those of a batch are published together.    *)
THEOREM OrderImplemented == Spec => ImplementsOrder
<1>1. Init => Order!Init
  BY OrderInit
<1>2. Inv /\ Inv' /\ [Next]_vars => [Order!Next]_<<Visible, Pending, cmd>>
  <2> SUFFICES ASSUME Inv, Inv', [Next]_vars
               PROVE  Order!Next \/ UNCHANGED <<Visible, Pending, cmd>>
    OBVIOUS
  <2>1. PartsRight
    BY Parts
  <2>2. PartsRight'
    BY Parts, PTL
  <2> QED BY <2>1, <2>2, OrderStep
<1> QED BY <1>1, <1>2, Invariance, PTL DEF Spec, ImplementsOrder, Order!Spec, Visible, Pending

-----------------------------------------------------------------------------
(* A phrase: its chunks follow one another without a gap.                  *)

Chunks == [tag : BOOLEAN, start : Nat, len : Lens, track : 1 .. MaxChunks]

Phrase ==
  /\ chunks \in Seq(Chunks) /\ Len(chunks) <= MaxChunks
  /\ \A c \in 1 .. Len(chunks) : chunks[c].track <= c
  /\ chunks # <<>> => chunks[1].tag /\ Start(1) = 0 /\ chunks[1].len > 0
  /\ \A c \in 1 .. Len(chunks) - 1 : Start(c + 1) = End(c)

(* Sets of numbers have a least element, and bounded ones a greatest: the  *)
(* pages and chunks that the track player searches for.                    *)
LEMMA LeastNat ==
  ASSUME NEW S, S \subseteq Nat, S # {}
  PROVE  \E n \in S : \A k \in S : n <= k
<1>1. PICK n \in S : \A k \in S : ~(<<k, n>> \in OpToRel(<, Nat))
  BY NatLessThanWellFounded, WFMin
<1>2. \A k \in S : ~(k < n)
  BY <1>1 DEF OpToRel
<1> QED
  BY <1>2

LEMMA MinIs ==
  ASSUME NEW S, S \subseteq Nat, S # {}
  PROVE  Min(S) \in S /\ \A k \in S : Min(S) <= k
BY LeastNat DEF Min

LEMMA MaxIs ==
  ASSUME NEW n \in Nat, NEW S, S \subseteq 1 .. n, S # {}
  PROVE  Max(S) \in S /\ \A k \in S : k <= Max(S)
<1> DEFINE T == {n - k : k \in S}
<1>0. \A k \in S : k \in 1 .. n /\ n - k \in Nat
  OBVIOUS
<1>1. T \subseteq Nat /\ T # {}
  BY <1>0
<1>2. PICK m \in T : \A k \in T : m <= k
  BY <1>1, LeastNat
<1>3. PICK x \in S : m = n - x
  OBVIOUS
<1>4. \A k \in S : x >= k
  <2> SUFFICES ASSUME NEW k \in S PROVE x >= k
    OBVIOUS
  <2>1. m <= n - k
    BY <1>2
  <2>2. x \in 1 .. n /\ k \in 1 .. n
    BY <1>0
  <2> QED
    BY <1>3, <2>1, <2>2
<1> QED
  BY <1>4 DEF Max

(* What the fields of a chunk are, and where it ends                       *)
LEMMA ChunkParts ==
  ASSUME Phrase, NEW c \in 1 .. Len(chunks)
  PROVE  /\ chunks[c] \in Chunks
         /\ chunks[c].tag \in BOOLEAN /\ chunks[c].len \in Nat
         /\ chunks[c].track \in 1 .. MaxChunks
         /\ Start(c) \in Nat /\ End(c) \in Nat /\ End(c) = Start(c) + chunks[c].len
         /\ Start(c) <= End(c)
<1>1. chunks[c] \in Chunks
  BY DEF Phrase
<1>2. /\ chunks[c].tag \in BOOLEAN /\ chunks[c].len \in Lens
      /\ chunks[c].start \in Nat /\ chunks[c].track \in 1 .. MaxChunks
  BY <1>1 DEF Chunks
<1>3. chunks[c].len \in Nat
  BY <1>2, TrackAssumption
<1> QED
  BY <1>1, <1>2, <1>3 DEF Start, End, EndOf

(* A later chunk starts no earlier than an earlier one ends.               *)
LEMMA OneAfterAnother ==
  ASSUME Phrase, NEW c \in 1 .. Len(chunks), NEW d \in 1 .. Len(chunks), c < d
  PROVE  End(c) <= Start(d)
<1>0. Len(chunks) \in Nat
  BY DEF Phrase
<1> DEFINE S == {e \in c + 1 .. Len(chunks) : ~(End(c) <= Start(e))}
<1>1. SUFFICES ASSUME S # {} PROVE FALSE
  BY <1>0
<1>2. S \subseteq Nat
  BY <1>0
<1>3. PICK e \in S : \A k \in S : e <= k
  BY <1>1, <1>2, LeastNat
<1>4. e \in c + 1 .. Len(chunks) /\ e - 1 \in 1 .. Len(chunks) - 1 /\ e = (e - 1) + 1
  BY <1>0, <1>3
<1>5. Start(e) = End(e - 1)
  <2>1. \A x \in 1 .. Len(chunks) - 1 : Start(x + 1) = End(x)
    BY DEF Phrase
  <2> QED
    BY <1>4, <2>1
<1>6. CASE e = c + 1
  <2>1. e - 1 = c
    BY <1>6
  <2>2. End(c) \in Nat
    BY ChunkParts
  <2> QED
    BY <1>3, <1>5, <2>1, <2>2
<1>7. CASE e # c + 1
  <2>1. e - 1 \in c + 1 .. Len(chunks) /\ e - 1 \in 1 .. Len(chunks)
    BY <1>0, <1>4, <1>7
  <2>2. e - 1 \notin S
    BY <1>3, <1>4
  <2>3. End(c) <= Start(e - 1)
    BY <2>1, <2>2
  <2>4. /\ End(c) \in Nat /\ Start(e - 1) \in Nat /\ End(e - 1) \in Nat
        /\ Start(e - 1) <= End(e - 1)
    BY <2>1, ChunkParts
  <2> QED
    BY <1>3, <1>5, <2>3, <2>4
<1> QED
  BY <1>6, <1>7

(* The whole phrase is as long as its last chunk reaches.                  *)
LEMMA Whole ==
  ASSUME Phrase
  PROVE  /\ TracksLength \in Nat
         /\ chunks # <<>> => TracksLength > 0 /\ TracksLength = End(Len(chunks))
         /\ \A c \in 1 .. Len(chunks) : End(c) <= TracksLength
<1>0. Len(chunks) \in Nat /\ (chunks # <<>> => Len(chunks) >= 1) /\ (chunks = <<>> => Len(chunks) = 0)
  BY DEF Phrase
<1>1. CASE chunks = <<>>
  BY <1>0, <1>1 DEF TracksLength
<1>2. CASE chunks # <<>>
  <2>1. TracksLength = End(Len(chunks)) /\ Len(chunks) \in 1 .. Len(chunks) /\ 1 \in 1 .. Len(chunks)
    BY <1>0, <1>2 DEF TracksLength
  <2>2. TracksLength \in Nat
    BY <2>1, ChunkParts
  <2>3. ASSUME NEW c \in 1 .. Len(chunks) PROVE End(c) <= TracksLength
    <3>1. CASE c = Len(chunks)
      BY <2>1, <2>2, <3>1
    <3>2. CASE c < Len(chunks)
      <4>1. End(c) <= Start(Len(chunks))
        BY <2>1, <3>2, OneAfterAnother
      <4>2. End(c) \in Nat /\ Start(Len(chunks)) \in Nat /\ Start(Len(chunks)) <= End(Len(chunks))
        BY <2>1, ChunkParts
      <4> QED
        BY <2>1, <2>2, <4>1, <4>2
    <3> QED
      BY <1>0, <3>1, <3>2
  <2>4. End(1) > 0 /\ End(1) \in Nat
    <3>1. Start(1) = 0 /\ chunks[1].len > 0 /\ chunks[1].len \in Nat /\ End(1) = Start(1) + chunks[1].len
      BY <1>2, <2>1, ChunkParts DEF Phrase
    <3> QED
      BY <3>1
  <2> QED
    BY <2>1, <2>2, <2>3, <2>4
<1> QED
  BY <1>1, <1>2

(* Where seek_track finds an offset                                        *)
LEMMA ChunkAtIs ==
  ASSUME Phrase, NEW x \in Nat, x < TracksLength
  PROVE  /\ ChunkAt(x) \in 1 .. Len(chunks)
         /\ Start(ChunkAt(x)) <= x /\ x < End(ChunkAt(x))
<1>0. Len(chunks) \in Nat /\ (chunks # <<>> => Len(chunks) >= 1) /\ DOMAIN chunks = 1 .. Len(chunks)
  BY DEF Phrase
<1>1. chunks # <<>> /\ TracksLength = End(Len(chunks))
  <2>1. chunks # <<>>
    BY DEF TracksLength
  <2> QED
    BY <2>1, Whole
<1> DEFINE S == {c \in DOMAIN chunks : x < End(c)}
<1>2. S \subseteq Nat /\ Len(chunks) \in S
  BY <1>0, <1>1
<1>3. ChunkAt(x) \in S /\ \A k \in S : ChunkAt(x) <= k
  BY <1>2, MinIs DEF ChunkAt
<1>4. Start(ChunkAt(x)) <= x
  <2>1. CASE ChunkAt(x) = 1
    <3>1. Start(1) = 0
      BY <1>1 DEF Phrase
    <3> QED
      BY <2>1, <3>1
  <2>2. CASE ChunkAt(x) # 1
    <3>1. ChunkAt(x) - 1 \in 1 .. Len(chunks) - 1 /\ ChunkAt(x) = (ChunkAt(x) - 1) + 1
          /\ ChunkAt(x) - 1 \in 1 .. Len(chunks)
      BY <1>0, <1>3, <2>2
    <3>2. ChunkAt(x) - 1 \notin S
      BY <1>0, <1>3, <3>1
    <3>3. ~(x < End(ChunkAt(x) - 1))
      BY <1>0, <3>1, <3>2
    <3>4. \A c \in 1 .. Len(chunks) - 1 : Start(c + 1) = End(c)
      BY DEF Phrase
    <3>5. Start(ChunkAt(x)) = End(ChunkAt(x) - 1) /\ End(ChunkAt(x) - 1) \in Nat
      BY <3>1, <3>4, ChunkParts
    <3> QED
      BY <3>3, <3>5
  <2> QED
    BY <2>1, <2>2
<1> QED
  BY <1>0, <1>3, <1>4

(* A chunk's page is the last chunk up to it that is shown.                *)
LEMMA PageOfIs ==
  ASSUME Phrase, NEW c \in 1 .. Len(chunks)
  PROVE  /\ PageOf(c) \in 1 .. c /\ chunks[PageOf(c)].tag
         /\ \A d \in 1 .. c : chunks[d].tag => d <= PageOf(c)
<1>0. Len(chunks) \in Nat /\ chunks # <<>> /\ 1 \in 1 .. c
  BY DEF Phrase
<1> DEFINE S == {d \in 1 .. c : chunks[d].tag}
<1>1. S \subseteq 1 .. c /\ 1 \in S /\ c \in Nat
  BY <1>0 DEF Phrase
<1>2. Max(S) \in S /\ \A k \in S : k <= Max(S)
  BY <1>1, MaxIs
<1> QED
  BY <1>2 DEF PageOf

(* It is the chunk itself, when that is shown, or the page before.         *)
LEMMA PageStep ==
  ASSUME Phrase, NEW c \in 1 .. Len(chunks)
  PROVE  /\ chunks[c].tag => PageOf(c) = c
         /\ c > 1 /\ ~chunks[c].tag => PageOf(c) = PageOf(c - 1)
<1>0. Len(chunks) \in Nat
  BY DEF Phrase
<1>1. PageOf(c) \in 1 .. c /\ chunks[PageOf(c)].tag
      /\ \A d \in 1 .. c : chunks[d].tag => d <= PageOf(c)
  BY PageOfIs
<1>2. chunks[c].tag => PageOf(c) = c
  <2>1. c \in 1 .. c
    BY <1>0
  <2> QED
    BY <1>1, <2>1
<1>3. ASSUME c > 1, ~chunks[c].tag PROVE PageOf(c) = PageOf(c - 1)
  <2>1. c - 1 \in 1 .. Len(chunks)
    BY <1>0, <1>3
  <2>2. /\ PageOf(c - 1) \in 1 .. c - 1 /\ chunks[PageOf(c - 1)].tag
        /\ \A d \in 1 .. c - 1 : chunks[d].tag => d <= PageOf(c - 1)
    BY <2>1, PageOfIs
  <2>3. PageOf(c) # c
    BY <1>1, <1>3
  <2>4. PageOf(c) \in 1 .. c - 1 /\ PageOf(c - 1) \in 1 .. c
    BY <1>0, <1>1, <2>2, <2>3
  <2>5. PageOf(c) <= PageOf(c - 1) /\ PageOf(c - 1) <= PageOf(c)
    BY <1>1, <2>2, <2>4
  <2> QED
    BY <2>4, <2>5
<1> QED
  BY <1>2, <1>3

(* find_next_page and find_prev_page find a page that is shown.            *)
LEMMA PageFound ==
  ASSUME Phrase, chunks # <<>>, NEW c \in 0 .. Len(chunks)
  PROVE  /\ NextPage(c) # 0 =>
              NextPage(c) \in 1 .. Len(chunks) /\ chunks[NextPage(c)].tag
         /\ PrevPage(c) \in 1 .. Len(chunks) /\ chunks[PrevPage(c)].tag
<1>0. Len(chunks) \in Nat /\ Len(chunks) >= 1 /\ chunks[1].tag
  BY DEF Phrase
<1>1. ASSUME NextPage(c) # 0
      PROVE  NextPage(c) \in 1 .. Len(chunks) /\ chunks[NextPage(c)].tag
  <2> DEFINE S == {d \in c + 1 .. Len(chunks) : chunks[d].tag}
  <2>1. S # {} /\ NextPage(c) = Min(S)
    BY <1>1 DEF NextPage
  <2>2. S \subseteq Nat
    BY <1>0
  <2>3. Min(S) \in S
    BY <2>1, <2>2, MinIs
  <2> QED
    BY <1>0, <2>1, <2>3
<1>2. PrevPage(c) \in 1 .. Len(chunks) /\ chunks[PrevPage(c)].tag
  <2> DEFINE m == IF c = 0 THEN Len(chunks) ELSE c - 1
             S == {d \in 1 .. m : chunks[d].tag}
  <2>1. m \in Nat /\ m <= Len(chunks)
    BY <1>0
  <2>2. CASE S = {}
    BY <1>0, <2>2 DEF PrevPage
  <2>3. CASE S # {}
    <3>1. S \subseteq 1 .. m
      OBVIOUS
    <3>2. Max(S) \in S
      <4> HIDE DEF m
      <4> QED
        BY <2>1, <2>3, <3>1, MaxIs
    <3>3. PrevPage(c) = Max(S)
      BY <2>3 DEF PrevPage
    <3> QED
      BY <1>0, <2>1, <3>2, <3>3
  <2> QED
    BY <2>2, <2>3
<1> QED
  BY <1>1, <1>2

-----------------------------------------------------------------------------
(* The stream: its types, and what they say of its fields.                 *)

StreamPlaces == [c : 0 .. Len(chunks), p : Nat, eof : BOOLEAN]

(* A queued buffer: its number, the chunk it was decoded from and how much *)
(* of the chunk was decoded with it                                        *)
Entries ==
  {x \in [b : Buffers, c : 1 .. Len(chunks), p : Nat \ {0}] :
     x.p <= chunks[x.c].len}

Streams ==
  [cur : 0 .. Len(chunks), sub : 0 .. Len(chunks), dec : StreamPlaces,
   queue : Seq(Entries), tags : [Buffers -> 0 .. Len(chunks)],
   lastQ : 0 .. NumBuffers, sample : BOOLEAN, should : BOOLEAN]

(* A buffer is queued once at most.                                        *)
Distinct(q) == \A i, j \in 1 .. Len(q) : q[i].b = q[j].b => i = j

Typed(s) ==
  /\ s \in Streams /\ Distinct(s.queue)
  /\ s.sample => s.dec.c # 0
  /\ s.dec.c # 0 => s.dec.p <= chunks[s.dec.c].len

(* Where in the phrase a buffer or the decoder is                          *)
Pos(x) == Start(x.c) + x.p

(* The queue holds what the decoder has read last, without a gap.          *)
Chain(s) ==
  /\ s.cur # 0 /\ s.sample /\ s.dec.c = s.cur
  /\ s.dec.eof => s.dec.p = chunks[s.cur].len
  /\ \A i \in 1 .. Len(s.queue) :
       Pos(s.queue[i]) + (Len(s.queue) - i) = Pos(s.dec)

(* The decoder has read the last chunk to its end.                         *)
AtEnd(s) == s.dec.eof /\ s.cur = Len(chunks)

(* The tag of a buffer is the page that is shown after it, if any.         *)
TagOf(s, x) ==
  IF x.c < s.cur /\ x.p = chunks[x.c].len /\ chunks[x.c + 1].tag
  THEN x.c + 1 ELSE 0

(* Every buffer in the queue has the tag of its place.                     *)
Tagged(s) ==
  \A i \in 1 .. Len(s.queue) : s.tags[s.queue[i].b] = TagOf(s, s.queue[i])

(* The subtitle is the page of the buffer that is played.                  *)
Shown(s) == s.queue # <<>> => s.sub = PageOf(s.queue[1].c)

(* At the end of a chunk last_q_buf is the last buffer of the queue, the   *)
(* one OnChunkEnd tags with the next page.                                 *)
Noted(s) ==
  s.dec.eof /\ s.cur < Len(chunks) /\ s.queue # <<>> =>
    s.lastQ = s.queue[Len(s.queue)].b

LEMMA StreamParts ==
  ASSUME NEW s \in Streams
  PROVE  /\ s.cur \in 0 .. Len(chunks) /\ s.sub \in 0 .. Len(chunks)
         /\ s.dec \in StreamPlaces /\ s.dec.c \in 0 .. Len(chunks) /\ s.dec.p \in Nat
         /\ s.dec.eof \in BOOLEAN
         /\ s.queue \in Seq(Entries) /\ s.tags \in [Buffers -> 0 .. Len(chunks)]
         /\ s.lastQ \in 0 .. NumBuffers /\ s.sample \in BOOLEAN /\ s.should \in BOOLEAN
         /\ Len(s.queue) \in Nat /\ (s.queue = <<>> <=> Len(s.queue) = 0)
<1>1. /\ s.cur \in 0 .. Len(chunks) /\ s.sub \in 0 .. Len(chunks)
      /\ s.dec \in StreamPlaces
      /\ s.queue \in Seq(Entries) /\ s.tags \in [Buffers -> 0 .. Len(chunks)]
      /\ s.lastQ \in 0 .. NumBuffers /\ s.sample \in BOOLEAN /\ s.should \in BOOLEAN
  BY DEF Streams
<1>2. s.dec.c \in 0 .. Len(chunks) /\ s.dec.p \in Nat /\ s.dec.eof \in BOOLEAN
  BY <1>1 DEF StreamPlaces
<1>3. Len(s.queue) \in Nat /\ (s.queue = <<>> <=> Len(s.queue) = 0)
  BY <1>1
<1> QED
  BY <1>1, <1>2, <1>3

LEMMA EntryParts ==
  ASSUME Phrase, NEW x \in Entries
  PROVE  /\ x.b \in Buffers /\ x.c \in 1 .. Len(chunks) /\ x.p \in Nat /\ x.p >= 1
         /\ x.p <= chunks[x.c].len /\ chunks[x.c].len \in Nat
         /\ Pos(x) \in Nat /\ Start(x.c) < Pos(x) /\ Pos(x) <= End(x.c)
<1>1. /\ x.b \in Buffers /\ x.c \in 1 .. Len(chunks) /\ x.p \in Nat /\ x.p >= 1
      /\ x.p <= chunks[x.c].len
  BY DEF Entries
<1>2. /\ chunks[x.c].len \in Nat /\ Start(x.c) \in Nat
      /\ End(x.c) = Start(x.c) + chunks[x.c].len
  BY <1>1, ChunkParts
<1> QED
  BY <1>1, <1>2 DEF Pos

(* A place after the start of a chunk is in no other chunk.                *)
LEMMA EntryAt ==
  ASSUME Phrase, NEW x \in Entries, NEW c \in 1 .. Len(chunks),
         NEW p \in 1 .. chunks[c].len, Pos(x) = Start(c) + p
  PROVE  x.c = c /\ x.p = p
<1>1. /\ x.c \in 1 .. Len(chunks) /\ x.p \in Nat
      /\ Pos(x) \in Nat /\ Start(x.c) < Pos(x) /\ Pos(x) <= End(x.c)
  BY EntryParts
<1>2. /\ chunks[c].len \in Nat /\ Start(c) \in Nat /\ End(c) = Start(c) + chunks[c].len
      /\ Start(x.c) \in Nat /\ End(x.c) \in Nat /\ End(c) \in Nat
  BY <1>1, ChunkParts
<1>3. x.c < c => End(x.c) <= Start(c)
  BY <1>1, OneAfterAnother
<1>4. c < x.c => End(c) <= Start(x.c)
  BY <1>1, OneAfterAnother
<1>5. x.c = c
  <2>1. p \in Nat /\ p >= 1 /\ p <= chunks[c].len /\ Len(chunks) \in Nat
    BY <1>2 DEF Phrase
  <2>2. ~(x.c < c)
    BY <1>1, <1>2, <1>3, <2>1
  <2>3. ~(c < x.c)
    BY <1>1, <1>2, <1>4, <2>1
  <2> QED
    BY <1>1, <2>1, <2>2, <2>3
<1> QED
  BY <1>1, <1>2, <1>5 DEF Pos

-----------------------------------------------------------------------------
(* A buffer is decoded.                                                    *)

LEMMA DecodedNothing ==
  ASSUME NEW s \in Streams, NEW b, s.dec.p >= chunks[s.dec.c].len
  PROVE  Decoded(s, b) = [s EXCEPT !.dec.eof = TRUE]
BY DEF Decoded

LEMMA DecodedMore ==
  ASSUME Phrase, NEW s \in Streams, NEW b \in Buffers,
         s.dec.c # 0, s.dec.p < chunks[s.dec.c].len,
         NEW d, d = Decoded(s, b)
  PROVE  /\ d \in Streams
         /\ d.cur = s.cur /\ d.sub = s.sub /\ d.tags = s.tags /\ d.lastQ = s.lastQ
         /\ d.sample = s.sample /\ d.should = s.should
         /\ d.dec.c = s.dec.c /\ d.dec.p = s.dec.p + 1
         /\ d.dec.eof <=> s.dec.p + 1 >= chunks[s.dec.c].len
         /\ [b |-> b, c |-> s.dec.c, p |-> s.dec.p + 1] \in Entries
         /\ d.queue = Append(s.queue, [b |-> b, c |-> s.dec.c, p |-> s.dec.p + 1])
<1> DEFINE x == [b |-> b, c |-> s.dec.c, p |-> s.dec.p + 1]
           full == s.dec.p + 1 >= chunks[s.dec.c].len
<1>1. s.dec.c \in 1 .. Len(chunks) /\ s.dec.p \in Nat /\ s.dec \in StreamPlaces
      /\ s.queue \in Seq(Entries)
  BY StreamParts DEF Phrase
<1>2. chunks[s.dec.c].len \in Nat
  BY <1>1, ChunkParts
<1>3. x \in Entries
  BY <1>1, <1>2 DEF Entries
<1>4. full \in BOOLEAN
  OBVIOUS
<1>5. d = [s EXCEPT !.dec.p = @ + 1, !.dec.eof = full, !.queue = Append(@, x)]
  BY <1>1, <1>2 DEF Decoded
<1> HIDE DEF x, full
<1>6. Append(s.queue, x) \in Seq(Entries)
  BY <1>1, <1>3
<1>7. /\ d.dec \in StreamPlaces /\ d.dec.c = s.dec.c /\ d.dec.p = s.dec.p + 1
      /\ d.dec.eof = full
  <2>1. d.dec = [s.dec EXCEPT !.p = @ + 1, !.eof = full]
    BY <1>5 DEF Streams
  <2>2. d.dec \in StreamPlaces
    <3>1. s.dec.p + 1 \in Nat
      BY <1>1
    <3>2. \A r \in StreamPlaces, n \in Nat, e \in BOOLEAN : [r EXCEPT !.p = n, !.eof = e] \in StreamPlaces
      BY DEF StreamPlaces
    <3> QED
      BY <1>1, <1>4, <2>1, <3>1, <3>2
  <2>3. d.dec.c = s.dec.c /\ d.dec.p = s.dec.p + 1
    BY <1>1, <2>1 DEF StreamPlaces
  <2>4. d.dec.eof = full
    BY <1>1, <2>1 DEF StreamPlaces
  <2> QED
    BY <2>2, <2>3, <2>4
<1>8. /\ d.queue = Append(s.queue, x)
      /\ d.cur = s.cur /\ d.sub = s.sub /\ d.tags = s.tags /\ d.lastQ = s.lastQ
      /\ d.sample = s.sample /\ d.should = s.should
  BY <1>5 DEF Streams
<1>9. d \in Streams
  BY <1>5, <1>6, <1>7 DEF Streams
<1> QED
  BY <1>3, <1>7, <1>8, <1>9 DEF x, full

LEMMA OneRead ==
  ASSUME Phrase, NEW s \in Streams, NEW b \in Buffers,
         s.dec.c # 0, s.dec.p < chunks[s.dec.c].len
  PROVE  Decoded(s, b).dec.p = s.dec.p + 1
<1> DEFINE d == Decoded(s, b)
<1>1. d = Decoded(s, b)
  OBVIOUS
<1> HIDE DEF d
<1>2. d.dec.p = s.dec.p + 1
  BY <1>1, DecodedMore
<1> QED
  BY <1>1, <1>2

(* The decoder notes that it is at the end.                                *)
LEMMA EofIs ==
  ASSUME NEW s \in Streams, NEW d, d = [s EXCEPT !.dec.eof = TRUE]
  PROVE  /\ d \in Streams
         /\ d.cur = s.cur /\ d.sub = s.sub /\ d.tags = s.tags /\ d.lastQ = s.lastQ
         /\ d.sample = s.sample /\ d.should = s.should /\ d.queue = s.queue
         /\ d.dec.c = s.dec.c /\ d.dec.p = s.dec.p /\ d.dec.eof
<1>1. s.dec \in StreamPlaces
  BY StreamParts
<1>2. d.dec = [s.dec EXCEPT !.eof = TRUE]
  BY DEF Streams
<1>3. d.dec \in StreamPlaces /\ d.dec.c = s.dec.c /\ d.dec.p = s.dec.p /\ d.dec.eof
  BY <1>1, <1>2 DEF StreamPlaces
<1>4. /\ d.cur = s.cur /\ d.sub = s.sub /\ d.tags = s.tags /\ d.lastQ = s.lastQ
      /\ d.sample = s.sample /\ d.should = s.should /\ d.queue = s.queue
  BY DEF Streams
<1>5. d \in Streams
  BY <1>3 DEF Streams
<1> QED
  BY <1>3, <1>4, <1>5

LEMMA EofKeeps ==
  ASSUME Phrase, NEW s, Typed(s), s.dec.c # 0, s.dec.p >= chunks[s.dec.c].len,
         NEW d, d = [s EXCEPT !.dec.eof = TRUE]
  PROVE  Typed(d) /\ (Chain(s) => Chain(d))
<1>1. s \in Streams
  BY DEF Typed
<1>2. /\ d \in Streams
      /\ d.cur = s.cur /\ d.sub = s.sub /\ d.tags = s.tags /\ d.lastQ = s.lastQ
      /\ d.sample = s.sample /\ d.should = s.should /\ d.queue = s.queue
      /\ d.dec.c = s.dec.c /\ d.dec.p = s.dec.p /\ d.dec.eof
  BY <1>1, EofIs
<1>3. Typed(d)
  BY <1>2 DEF Typed
<1>4. ASSUME Chain(s) PROVE Chain(d)
  <2>1. s.dec.c \in 1 .. Len(chunks) /\ s.dec.p \in Nat
    BY <1>1, StreamParts
  <2>2. chunks[s.dec.c].len \in Nat
    BY <2>1, ChunkParts
  <2>3. s.dec.p = chunks[s.dec.c].len
    BY <2>1, <2>2 DEF Typed
  <2>4. Pos(d.dec) = Pos(s.dec)
    BY <1>2 DEF Pos
  <2> QED
    BY <1>2, <1>4, <2>3, <2>4 DEF Chain
<1> QED
  BY <1>3, <1>4

(* What decoding one buffer does to the chain and to the tags              *)
LEMMA DecodedKeeps ==
  ASSUME Phrase, NEW s, Typed(s), NEW b \in Buffers,
         s.dec.c # 0, s.dec.p < chunks[s.dec.c].len,
         \A i \in 1 .. Len(s.queue) : s.queue[i].b # b,
         NEW d, d = Decoded(s, b)
  PROVE  /\ Typed(d) /\ Len(d.queue) = Len(s.queue) + 1
         /\ Pos(d.dec) = Pos(s.dec) + 1
         /\ d.queue[Len(d.queue)].b = b
         /\ Chain(s) => Chain(d)
         /\ Chain(s) /\ Tagged(s) /\ s.tags[b] = 0 => Tagged(d)
         /\ Chain(s) /\ Shown(s) /\ (s.queue = <<>> => s.sub = PageOf(s.cur)) => Shown(d)
<1> DEFINE x == [b |-> b, c |-> s.dec.c, p |-> s.dec.p + 1]
<1>1. s \in Streams
  BY DEF Typed
<1>2. /\ d \in Streams
      /\ d.cur = s.cur /\ d.sub = s.sub /\ d.tags = s.tags /\ d.lastQ = s.lastQ
      /\ d.sample = s.sample /\ d.should = s.should
      /\ d.dec.c = s.dec.c /\ d.dec.p = s.dec.p + 1
      /\ d.dec.eof <=> s.dec.p + 1 >= chunks[s.dec.c].len
      /\ x \in Entries /\ d.queue = Append(s.queue, x)
  BY <1>1, DecodedMore
<1>3. x.b = b /\ x.c = s.dec.c /\ x.p = s.dec.p + 1
  OBVIOUS
<1> HIDE DEF x
<1>4. /\ s.queue \in Seq(Entries) /\ Len(s.queue) \in Nat /\ s.dec.p \in Nat
      /\ s.dec.c \in 1 .. Len(chunks) /\ (s.queue = <<>> <=> Len(s.queue) = 0)
  BY <1>1, StreamParts
<1>5. /\ Len(d.queue) = Len(s.queue) + 1
      /\ \A i \in 1 .. Len(s.queue) : d.queue[i] = s.queue[i]
      /\ d.queue[Len(s.queue) + 1] = x
  BY <1>2, <1>4
<1>6. chunks[s.dec.c].len \in Nat /\ Start(s.dec.c) \in Nat
  BY <1>4, ChunkParts
<1>7. Pos(s.dec) \in Nat /\ Pos(d.dec) = Pos(s.dec) + 1 /\ Pos(x) = Pos(s.dec) + 1
  BY <1>2, <1>3, <1>4, <1>6 DEF Pos
<1>8. Typed(d)
  <2>1. Distinct(d.queue)
    <3> SUFFICES ASSUME NEW i \in 1 .. Len(d.queue), NEW j \in 1 .. Len(d.queue),
                        d.queue[i].b = d.queue[j].b
                 PROVE  i = j
      BY DEF Distinct
    <3>1. CASE i \in 1 .. Len(s.queue) /\ j \in 1 .. Len(s.queue)
      BY <1>5, <3>1 DEF Typed, Distinct
    <3>2. i = Len(s.queue) + 1 \/ i \in 1 .. Len(s.queue)
      BY <1>4, <1>5
    <3>3. j = Len(s.queue) + 1 \/ j \in 1 .. Len(s.queue)
      BY <1>4, <1>5
    <3> QED
      BY <1>3, <1>5, <3>1, <3>2, <3>3
  <2>2. d.dec.p <= chunks[d.dec.c].len
    BY <1>2, <1>4, <1>6
  <2> QED
    BY <1>2, <1>4, <2>1, <2>2 DEF Typed
<1>9. ASSUME Chain(s) PROVE Chain(d)
  <2>1. d.dec.eof => d.dec.p = chunks[d.cur].len
    <3>1. s.dec.c = s.cur
      BY <1>9 DEF Chain
    <3> QED
      BY <1>2, <1>4, <1>6, <3>1
  <2>2. ASSUME NEW i \in 1 .. Len(d.queue)
        PROVE  Pos(d.queue[i]) + (Len(d.queue) - i) = Pos(d.dec)
    <3>1. CASE i = Len(s.queue) + 1
      BY <1>4, <1>5, <1>7, <3>1
    <3>2. CASE i \in 1 .. Len(s.queue)
      <4>1. Pos(s.queue[i]) + (Len(s.queue) - i) = Pos(s.dec)
        BY <1>9, <3>2 DEF Chain
      <4>2. s.queue[i] \in Entries
        BY <1>4, <3>2
      <4>3. Pos(s.queue[i]) \in Nat
        BY <4>2, EntryParts
      <4>4. Pos(d.queue[i]) = Pos(s.queue[i])
        BY <1>5, <3>2
      <4>5. Len(d.queue) = Len(s.queue) + 1 /\ Pos(s.dec) \in Nat /\ Pos(d.dec) = Pos(s.dec) + 1
        BY <1>5, <1>7
      <4> QED
        BY <1>4, <3>2, <4>1, <4>3, <4>4, <4>5
    <3> QED
      BY <1>4, <1>5, <3>1, <3>2
  <2> QED
    BY <1>2, <1>9, <2>1, <2>2 DEF Chain
<1>10. ASSUME Chain(s), Tagged(s), s.tags[b] = 0 PROVE Tagged(d)
  <2> SUFFICES ASSUME NEW i \in 1 .. Len(d.queue)
               PROVE  d.tags[d.queue[i].b] = TagOf(d, d.queue[i])
    BY DEF Tagged
  <2>1. CASE i = Len(s.queue) + 1
    <3>1. x.c = d.cur
      BY <1>2, <1>3, <1>10 DEF Chain
    <3>2. TagOf(d, x) = 0
      <4>1. ~(x.c < d.cur)
        BY <1>3, <1>4, <3>1
      <4> QED
        BY <4>1 DEF TagOf
    <3> QED
      BY <1>2, <1>3, <1>5, <1>10, <2>1, <3>2
  <2>2. CASE i \in 1 .. Len(s.queue)
    <3>1. s.tags[s.queue[i].b] = TagOf(s, s.queue[i])
      BY <1>10, <2>2 DEF Tagged
    <3>2. TagOf(d, s.queue[i]) = TagOf(s, s.queue[i])
      BY <1>2 DEF TagOf
    <3> QED
      BY <1>2, <1>5, <2>2, <3>1, <3>2
  <2> QED
    BY <1>4, <1>5, <2>1, <2>2
<1>11. ASSUME Chain(s), Shown(s), s.queue = <<>> => s.sub = PageOf(s.cur)
       PROVE  Shown(d)
  <2>1. CASE s.queue = <<>>
    <3>1. d.queue[1] = x
      BY <1>4, <1>5, <2>1
    <3> QED
      BY <1>2, <1>3, <1>11, <2>1, <3>1 DEF Chain, Shown
  <2>2. CASE s.queue # <<>>
    <3>1. d.queue[1] = s.queue[1]
      BY <1>4, <1>5, <2>2
    <3> QED
      BY <1>2, <1>11, <2>2, <3>1 DEF Shown
  <2> QED
    BY <2>1, <2>2
<1> QED
  BY <1>3, <1>5, <1>7, <1>8, <1>9, <1>10, <1>11

(* The next chunk is taken.                                                *)

LEMMA ChunkEndIs ==
  ASSUME Phrase, NEW s \in Streams, NEW b, s.cur # 0, s.cur # Len(chunks),
         NEW d, d = ChunkEnd(s, b)
  PROVE  /\ d \in Streams /\ s.cur + 1 \in 1 .. Len(chunks)
         /\ d.cur = s.cur + 1 /\ d.sub = s.sub /\ d.queue = s.queue /\ d.lastQ = s.lastQ
         /\ d.sample = s.sample /\ d.should = s.should
         /\ d.dec.c = s.cur + 1 /\ d.dec.p = 0 /\ ~d.dec.eof
         /\ d.tags = IF chunks[s.cur + 1].tag /\ b \in Buffers
                     THEN [s.tags EXCEPT ![b] = s.cur + 1] ELSE s.tags
<1> DEFINE tags == IF chunks[s.cur + 1].tag /\ b \in Buffers
                   THEN [s.tags EXCEPT ![b] = s.cur + 1] ELSE s.tags
           place == [c |-> s.cur + 1, p |-> 0, eof |-> FALSE]
<1>1. /\ s.cur \in 0 .. Len(chunks) /\ s.tags \in [Buffers -> 0 .. Len(chunks)]
      /\ Len(chunks) \in Nat
  BY StreamParts DEF Phrase
<1>2. s.cur + 1 \in 1 .. Len(chunks)
  BY <1>1
<1>3. tags \in [Buffers -> 0 .. Len(chunks)]
  BY <1>1, <1>2
<1>4. place \in StreamPlaces /\ place.c = s.cur + 1 /\ place.p = 0 /\ ~place.eof
  BY <1>2 DEF StreamPlaces
<1>5. d = [s EXCEPT !.cur = s.cur + 1, !.dec = place, !.tags = tags]
  BY <1>1 DEF ChunkEnd, Rewound
<1> HIDE DEF tags, place
<1>6. /\ d.cur = s.cur + 1 /\ d.sub = s.sub /\ d.queue = s.queue /\ d.lastQ = s.lastQ
      /\ d.sample = s.sample /\ d.should = s.should /\ d.dec = place /\ d.tags = tags
  BY <1>5 DEF Streams
<1>7. d \in Streams
  <2>1. s.cur + 1 \in 0 .. Len(chunks)
    BY <1>2
  <2>2. \A c \in 0 .. Len(chunks), x \in StreamPlaces, f \in [Buffers -> 0 .. Len(chunks)] :
          [s EXCEPT !.cur = c, !.dec = x, !.tags = f] \in Streams
    BY DEF Streams
  <2> QED
    <3>1. place \in StreamPlaces
      BY <1>4
    <3>2. [s EXCEPT !.cur = s.cur + 1, !.dec = place, !.tags = tags] \in Streams
      BY <1>3, <2>1, <2>2, <3>1
    <3> QED
      BY <1>5, <3>2
<1> QED
  BY <1>2, <1>4, <1>6, <1>7 DEF tags

(* The next chunk is decoded from its start.                               *)
LEMMA NextStart ==
  ASSUME Phrase, NEW s \in Streams, NEW b, s.cur # 0, s.cur # Len(chunks)
  PROVE  ChunkEnd(s, b).dec.p = 0
<1> DEFINE d == ChunkEnd(s, b)
<1>1. d = ChunkEnd(s, b)
  OBVIOUS
<1> HIDE DEF d
<1>2. d.dec.p = 0
  BY <1>1, ChunkEndIs
<1> QED
  BY <1>1, <1>2

(* No buffer is of a later chunk than the decoder; the one of the last    *)
(* part of a chunk that has been read is the last of the queue.            *)
LEMMA NoneAhead ==
  ASSUME Phrase, NEW s, Typed(s), Chain(s), NEW i \in 1 .. Len(s.queue)
  PROVE  s.queue[i].c <= s.cur
<1>1. /\ s.queue \in Seq(Entries) /\ Len(s.queue) \in Nat /\ s.dec.p \in Nat
      /\ s.cur \in 1 .. Len(chunks)
  BY StreamParts DEF Typed, Chain
<1> DEFINE x == s.queue[i]
<1>2. x \in Entries
  BY <1>1
<1>3. /\ x.c \in 1 .. Len(chunks)
      /\ Pos(x) \in Nat /\ Start(x.c) < Pos(x)
  BY <1>2, EntryParts
<1>4. /\ Start(s.cur) \in Nat /\ chunks[s.cur].len \in Nat
      /\ End(s.cur) = Start(s.cur) + chunks[s.cur].len
  BY <1>1, ChunkParts
<1>5. /\ Pos(s.dec) <= End(s.cur) /\ Pos(s.dec) \in Nat
      /\ Pos(x) + (Len(s.queue) - i) = Pos(s.dec)
  <2>1. s.dec.c = s.cur /\ s.dec.c # 0 /\ s.dec.p <= chunks[s.cur].len
    BY <1>1 DEF Typed, Chain
  <2> QED
    BY <1>1, <1>4, <2>1 DEF Chain, Pos
<1>6. s.cur < x.c => End(s.cur) <= Start(x.c)
  BY <1>1, <1>3, OneAfterAnother
<1>7. Start(x.c) \in Nat /\ End(s.cur) \in Nat
  BY <1>1, <1>3, ChunkParts
<1>8. Pos(x) <= End(s.cur)
  BY <1>1, <1>3, <1>5, <1>7
<1>9. ~(s.cur < x.c)
  BY <1>3, <1>6, <1>7, <1>8
<1>10. s.cur \in Nat /\ x.c \in Nat
  BY <1>1, <1>3
<1> QED
  BY <1>9, <1>10

(* The buffer with the end of the chunk just read is the last of the       *)
(* queue.                                                                  *)
LEMMA LastIs ==
  ASSUME Phrase, NEW s, Typed(s), Chain(s), s.dec.eof, chunks[s.cur].len > 0,
         NEW i \in 1 .. Len(s.queue)
  PROVE  i = Len(s.queue) <=> s.queue[i].c = s.cur /\ s.queue[i].p = chunks[s.cur].len
<1>1. /\ s.queue \in Seq(Entries) /\ Len(s.queue) \in Nat /\ s.dec.p \in Nat
      /\ s.cur \in 1 .. Len(chunks)
  BY StreamParts DEF Typed, Chain
<1> DEFINE x == s.queue[i]
<1>2. x \in Entries
  BY <1>1
<1>3. x.c \in 1 .. Len(chunks) /\ Pos(x) \in Nat
  BY <1>2, EntryParts
<1>4. /\ Start(s.cur) \in Nat /\ chunks[s.cur].len \in Nat
      /\ End(s.cur) = Start(s.cur) + chunks[s.cur].len
  BY <1>1, ChunkParts
<1>5. /\ Pos(s.dec) = End(s.cur)
      /\ Pos(x) + (Len(s.queue) - i) = Pos(s.dec)
  BY <1>4 DEF Chain, Pos
<1>6. ASSUME i = Len(s.queue) PROVE x.c = s.cur /\ x.p = chunks[s.cur].len
  <2>1. Pos(x) = Start(s.cur) + chunks[s.cur].len
    BY <1>1, <1>3, <1>4, <1>5, <1>6
  <2>2. chunks[s.cur].len \in 1 .. chunks[s.cur].len
    BY <1>4
  <2> HIDE DEF x
  <2> QED
    BY <1>1, <1>2, <2>1, <2>2, EntryAt
<1>7. ASSUME x.c = s.cur, x.p = chunks[s.cur].len PROVE i = Len(s.queue)
  <2>1. Pos(x) = End(s.cur)
    BY <1>4, <1>7 DEF Pos
  <2> QED
    BY <1>1, <1>3, <1>5, <2>1
<1> QED
  BY <1>6, <1>7

LEMMA ChunkEndKeeps ==
  ASSUME Phrase, NEW s, Typed(s), NEW b, s.cur # 0, s.cur # Len(chunks),
         NEW d, d = ChunkEnd(s, b)
  PROVE  /\ Typed(d) /\ d.queue = s.queue /\ d.cur = s.cur + 1 /\ ~d.dec.eof
         /\ Chain(s) /\ s.dec.eof => Chain(d) /\ Pos(d.dec) = Pos(s.dec)
         /\ \A x \in Buffers : x # b => d.tags[x] = s.tags[x]
         /\ Shown(s) => Shown(d)
         /\ Chain(s) /\ s.dec.eof /\ chunks[s.cur].len > 0 /\ s.queue # <<>>
              /\ Tagged(s) /\ b = s.queue[Len(s.queue)].b => Tagged(d)
<1>1. s \in Streams
  BY DEF Typed
<1>2. /\ d \in Streams /\ s.cur + 1 \in 1 .. Len(chunks)
      /\ d.cur = s.cur + 1 /\ d.sub = s.sub /\ d.queue = s.queue /\ d.lastQ = s.lastQ
      /\ d.sample = s.sample /\ d.should = s.should
      /\ d.dec.c = s.cur + 1 /\ d.dec.p = 0 /\ ~d.dec.eof
      /\ d.tags = IF chunks[s.cur + 1].tag /\ b \in Buffers
                  THEN [s.tags EXCEPT ![b] = s.cur + 1] ELSE s.tags
  BY <1>1, ChunkEndIs
<1>3. /\ s.queue \in Seq(Entries) /\ Len(s.queue) \in Nat /\ s.dec.p \in Nat
      /\ s.tags \in [Buffers -> 0 .. Len(chunks)] /\ Len(chunks) \in Nat
      /\ s.cur \in 1 .. Len(chunks) - 1 /\ s.cur \in 1 .. Len(chunks)
  <2>1. Len(chunks) \in Nat
    BY DEF Phrase
  <2>2. s.cur \in 0 .. Len(chunks)
    BY <1>1, StreamParts
  <2> QED
    BY <1>1, <2>1, <2>2, StreamParts
<1>4. chunks[s.cur + 1].len \in Nat /\ Start(s.cur + 1) \in Nat
  BY <1>2, ChunkParts
<1>5. Typed(d)
  BY <1>2, <1>3, <1>4 DEF Typed
<1>6. ASSUME Chain(s), s.dec.eof PROVE Chain(d) /\ Pos(d.dec) = Pos(s.dec)
  <2>1. \A c \in 1 .. Len(chunks) - 1 : Start(c + 1) = End(c)
    BY DEF Phrase
  <2>2. Start(s.cur + 1) = End(s.cur)
    BY <1>3, <2>1
  <2>3. /\ chunks[s.cur].len \in Nat /\ Start(s.cur) \in Nat
        /\ End(s.cur) = Start(s.cur) + chunks[s.cur].len
    BY <1>3, ChunkParts
  <2>4. Pos(d.dec) = Pos(s.dec)
    BY <1>2, <1>4, <1>6, <2>2, <2>3 DEF Chain, Pos
  <2> QED
    BY <1>2, <1>3, <1>6, <2>4 DEF Chain
<1>7. \A x \in Buffers : x # b => d.tags[x] = s.tags[x]
  BY <1>2, <1>3
<1>8. Shown(s) => Shown(d)
  BY <1>2 DEF Shown
<1>9. ASSUME Chain(s), s.dec.eof, chunks[s.cur].len > 0, s.queue # <<>>,
             Tagged(s), b = s.queue[Len(s.queue)].b
      PROVE  Tagged(d)
  <2>0. Len(s.queue) \in 1 .. Len(s.queue)
    BY <1>3, <1>9
  <2> SUFFICES ASSUME NEW i \in 1 .. Len(s.queue)
               PROVE  d.tags[s.queue[i].b] = TagOf(d, s.queue[i])
    BY <1>2 DEF Tagged
  <2> DEFINE x == s.queue[i]
  <2>1. x.c <= s.cur
    BY <1>9, NoneAhead
  <2>2. i = Len(s.queue) <=> x.c = s.cur /\ x.p = chunks[s.cur].len
    BY <1>9, LastIs
  <2>3. s.tags[x.b] = TagOf(s, x)
    BY <1>9 DEF Tagged
  <2>4. x \in Entries
    BY <1>3
  <2>5. x.b \in Buffers /\ x.c \in 1 .. Len(chunks)
    BY <2>4, EntryParts
  <2>6. CASE i = Len(s.queue)
    <3>1. x.b = b /\ x.c = s.cur /\ x.p = chunks[s.cur].len
      BY <1>9, <2>2, <2>6
    <3>2. s.tags[b] = 0
      <4>1. ~(x.c < s.cur)
        BY <1>3, <3>1
      <4> QED
        BY <2>3, <3>1, <4>1 DEF TagOf
    <3>3. x.c < d.cur /\ x.p = chunks[x.c].len
      BY <1>2, <1>3, <3>1
    <3>4. TagOf(d, x) = IF chunks[s.cur + 1].tag THEN s.cur + 1 ELSE 0
      BY <3>1, <3>3 DEF TagOf
    <3>5. d.tags[b] = IF chunks[s.cur + 1].tag THEN s.cur + 1 ELSE 0
      BY <1>2, <1>3, <2>5, <3>1, <3>2
    <3> QED
      BY <3>1, <3>4, <3>5
  <2>7. CASE i # Len(s.queue)
    <3>1. x.b # b
      BY <1>9, <2>0, <2>7 DEF Typed, Distinct
    <3>2. d.tags[x.b] = s.tags[x.b]
      BY <1>7, <2>5, <3>1
    <3>3. TagOf(d, x) = TagOf(s, x)
      <4>1. CASE x.p = chunks[x.c].len
        <5>1. x.c # s.cur
          BY <2>2, <2>7, <4>1
        <5>2. x.c < s.cur /\ x.c < d.cur
          BY <1>2, <1>3, <2>1, <2>5, <5>1
        <5> QED
          BY <5>2 DEF TagOf
      <4>2. CASE x.p # chunks[x.c].len
        BY <4>2 DEF TagOf
      <4> QED
        BY <4>1, <4>2
    <3> QED
      BY <2>3, <3>2, <3>3
  <2> QED
    BY <2>6, <2>7
<1> QED
  BY <1>2, <1>5, <1>6, <1>7, <1>8, <1>9

(* The first buffer is unqueued and its tag acted on.                      *)

LEMMA UnqueuedIs ==
  ASSUME Phrase, NEW t, Typed(t.s), t.s.queue # <<>>, NEW u, u = Unqueued(t)
  PROVE  /\ u.failed = t.failed /\ u.b = t.s.queue[1].b /\ u.b \in Buffers
         /\ u.s \in Streams /\ u.s.cur = t.s.cur /\ u.s.dec = t.s.dec
         /\ u.s.lastQ = t.s.lastQ /\ u.s.sample = t.s.sample
         /\ u.s.should = t.s.should
         /\ Len(u.s.queue) = Len(t.s.queue) - 1
         /\ \A i \in 1 .. Len(u.s.queue) :
              i + 1 \in 1 .. Len(t.s.queue) /\ u.s.queue[i] = t.s.queue[i + 1]
         /\ u.s.tags = [t.s.tags EXCEPT ![u.b] = 0]
         /\ u.s.sub = IF t.s.tags[u.b] # 0 THEN t.s.tags[u.b] ELSE t.s.sub
<1> DEFINE s == t.s
           b == Head(s.queue).b
           tag == s.tags[b]
           sub == IF tag # 0 THEN tag ELSE s.sub
<1>1. s \in Streams
  BY DEF Typed
<1>2. /\ s.queue \in Seq(Entries) /\ Len(s.queue) \in Nat /\ Len(s.queue) >= 1
      /\ s.tags \in [Buffers -> 0 .. Len(chunks)] /\ s.sub \in 0 .. Len(chunks)
  BY <1>1, StreamParts
<1>3. /\ Head(s.queue) = s.queue[1] /\ s.queue[1] \in Entries
      /\ Tail(s.queue) \in Seq(Entries) /\ Len(Tail(s.queue)) = Len(s.queue) - 1
      /\ \A i \in 1 .. Len(Tail(s.queue)) : Tail(s.queue)[i] = s.queue[i + 1]
  BY <1>2
<1>4. b \in Buffers /\ b = s.queue[1].b
  BY <1>3, EntryParts
<1>5. tag \in 0 .. Len(chunks) /\ sub \in 0 .. Len(chunks)
  BY <1>2, <1>4
<1>6. [s.tags EXCEPT ![b] = 0] \in [Buffers -> 0 .. Len(chunks)]
  <2>1. 0 \in 0 .. Len(chunks)
    BY DEF Phrase
  <2> QED
    BY <1>2, <2>1
<1>7. u = [failed |-> t.failed, b |-> b,
           s |-> [s EXCEPT !.queue = Tail(@), !.tags[b] = 0, !.sub = sub]]
  BY DEF Unqueued
<1> HIDE DEF sub
<1>8. /\ u.failed = t.failed /\ u.b = b
      /\ u.s = [s EXCEPT !.queue = Tail(s.queue), !.tags = [s.tags EXCEPT ![b] = 0], !.sub = sub]
  BY <1>1, <1>7 DEF Streams
<1>9. /\ u.s.cur = s.cur /\ u.s.dec = s.dec /\ u.s.lastQ = s.lastQ
      /\ u.s.sample = s.sample /\ u.s.should = s.should
      /\ u.s.queue = Tail(s.queue) /\ u.s.tags = [s.tags EXCEPT ![b] = 0] /\ u.s.sub = sub
  BY <1>1, <1>8 DEF Streams
<1>10. u.s \in Streams
  <2>1. \A q \in Seq(Entries), f \in [Buffers -> 0 .. Len(chunks)], p \in 0 .. Len(chunks) :
          [s EXCEPT !.queue = q, !.tags = f, !.sub = p] \in Streams
    BY <1>1 DEF Streams
  <2> QED
    <3>1. [s EXCEPT !.queue = Tail(s.queue), !.tags = [s.tags EXCEPT ![b] = 0],
                    !.sub = sub] \in Streams
      <4> HIDE DEF b, s
      <4> QED
        BY <1>3, <1>5, <1>6, <2>1
    <3> QED
      BY <1>8, <3>1
<1>11. \A i \in 1 .. Len(u.s.queue) :
         i + 1 \in 1 .. Len(s.queue) /\ u.s.queue[i] = s.queue[i + 1]
  BY <1>2, <1>3, <1>9
<1> QED
  BY <1>3, <1>4, <1>8, <1>9, <1>10, <1>11 DEF sub

LEMMA UnqueuedKeeps ==
  ASSUME Phrase, NEW t, Typed(t.s), t.s.queue # <<>>, NEW u, u = Unqueued(t)
  PROVE  /\ Typed(u.s) /\ u.s.tags[u.b] = 0
         /\ \A i \in 1 .. Len(u.s.queue) : u.s.queue[i].b # u.b
         /\ Chain(t.s) => Chain(u.s)
         /\ Pos(u.s.dec) = Pos(t.s.dec)
         /\ Tagged(t.s) => Tagged(u.s)
         /\ Noted(t.s) => Noted(u.s)
         /\ Chain(t.s) /\ NoEmptyPage /\ Tagged(t.s) /\ Shown(t.s) => Shown(u.s)
<1> DEFINE s == t.s
<1>0. /\ u.b = s.queue[1].b /\ u.b \in Buffers
      /\ u.s \in Streams /\ u.s.cur = s.cur /\ u.s.dec = s.dec
      /\ u.s.lastQ = s.lastQ /\ u.s.sample = s.sample /\ u.s.should = s.should
      /\ Len(u.s.queue) = Len(s.queue) - 1
      /\ \A i \in 1 .. Len(u.s.queue) :
           i + 1 \in 1 .. Len(s.queue) /\ u.s.queue[i] = s.queue[i + 1]
      /\ u.s.tags = [s.tags EXCEPT ![u.b] = 0]
      /\ u.s.sub = IF s.tags[u.b] # 0 THEN s.tags[u.b] ELSE s.sub
  BY UnqueuedIs
<1>1. /\ s \in Streams /\ s.queue \in Seq(Entries) /\ Len(s.queue) \in Nat
      /\ Len(s.queue) >= 1 /\ 1 \in 1 .. Len(s.queue)
      /\ s.tags \in [Buffers -> 0 .. Len(chunks)]
  <2>1. s \in Streams
    BY DEF Typed
  <2> QED
    BY <2>1, StreamParts
<1>2. \A i \in 1 .. Len(u.s.queue) : u.s.queue[i].b # u.b
  <2> SUFFICES ASSUME NEW i \in 1 .. Len(u.s.queue), u.s.queue[i].b = u.b
               PROVE  FALSE
    OBVIOUS
  <2>1. i + 1 \in 1 .. Len(s.queue) /\ s.queue[i + 1].b = s.queue[1].b
    BY <1>0
  <2>2. i + 1 = 1
    BY <1>1, <2>1 DEF Typed, Distinct
  <2> QED
    BY <2>2
<1>3. Typed(u.s)
  <2>1. Distinct(u.s.queue)
    <3> SUFFICES ASSUME NEW i \in 1 .. Len(u.s.queue), NEW j \in 1 .. Len(u.s.queue),
                        u.s.queue[i].b = u.s.queue[j].b
                 PROVE  i = j
      BY DEF Distinct
    <3>1. i + 1 \in 1 .. Len(s.queue) /\ j + 1 \in 1 .. Len(s.queue)
          /\ s.queue[i + 1].b = s.queue[j + 1].b
      BY <1>0
    <3>2. i + 1 = j + 1
      BY <3>1 DEF Typed, Distinct
    <3> QED
      BY <3>2
  <2> QED
    BY <1>0, <2>1 DEF Typed
<1>4. Pos(u.s.dec) = Pos(s.dec)
  BY <1>0
<1>5. ASSUME Chain(s) PROVE Chain(u.s)
  <2>1. ASSUME NEW i \in 1 .. Len(u.s.queue)
        PROVE  Pos(u.s.queue[i]) + (Len(u.s.queue) - i) = Pos(u.s.dec)
    <3>1. /\ i + 1 \in 1 .. Len(s.queue) /\ u.s.queue[i] = s.queue[i + 1]
          /\ s.queue[i + 1] \in Entries
      BY <1>0, <1>1
    <3>2. Pos(s.queue[i + 1]) + (Len(s.queue) - (i + 1)) = Pos(s.dec)
      BY <1>5, <3>1 DEF Chain
    <3>3. Len(u.s.queue) - i = Len(s.queue) - (i + 1)
      BY <1>0, <1>1
    <3> QED
      BY <1>4, <3>1, <3>2, <3>3
  <2> QED
    BY <1>0, <1>5, <2>1 DEF Chain
<1>6. u.s.tags[u.b] = 0
  BY <1>0, <1>1
<1>7. ASSUME Tagged(s) PROVE Tagged(u.s)
  <2> SUFFICES ASSUME NEW i \in 1 .. Len(u.s.queue)
               PROVE  u.s.tags[u.s.queue[i].b] = TagOf(u.s, u.s.queue[i])
    BY DEF Tagged
  <2>1. /\ i + 1 \in 1 .. Len(s.queue) /\ u.s.queue[i] = s.queue[i + 1]
        /\ s.queue[i + 1] \in Entries
    BY <1>0, <1>1
  <2>2. s.queue[i + 1].b \in Buffers /\ s.queue[i + 1].b # u.b
    BY <1>2, <2>1, EntryParts
  <2>3. u.s.tags[s.queue[i + 1].b] = s.tags[s.queue[i + 1].b]
    BY <1>0, <1>1, <2>2
  <2>4. s.tags[s.queue[i + 1].b] = TagOf(s, s.queue[i + 1])
    BY <1>7, <2>1 DEF Tagged
  <2>5. TagOf(u.s, s.queue[i + 1]) = TagOf(s, s.queue[i + 1])
    BY <1>0 DEF TagOf
  <2> QED
    BY <2>1, <2>3, <2>4, <2>5
<1>8. ASSUME Noted(s) PROVE Noted(u.s)
  <2> SUFFICES ASSUME u.s.dec.eof, u.s.cur < Len(chunks), u.s.queue # <<>>
               PROVE  u.s.lastQ = u.s.queue[Len(u.s.queue)].b
    BY DEF Noted
  <2>1. Len(u.s.queue) \in 1 .. Len(u.s.queue)
    BY <1>0, StreamParts
  <2>2. u.s.queue[Len(u.s.queue)] = s.queue[Len(s.queue)]
    <3>1. u.s.queue[Len(u.s.queue)] = s.queue[Len(u.s.queue) + 1]
      BY <1>0, <2>1
    <3>2. Len(u.s.queue) + 1 = Len(s.queue)
      BY <1>0, <1>1
    <3> QED
      BY <3>1, <3>2
  <2> QED
    BY <1>0, <1>8, <2>2 DEF Noted
<1>9. ASSUME Chain(s), NoEmptyPage, Tagged(s), Shown(s) PROVE Shown(u.s)
  <2> SUFFICES ASSUME u.s.queue # <<>> PROVE u.s.sub = PageOf(u.s.queue[1].c)
    BY DEF Shown
  <2> DEFINE x == s.queue[1]
             y == s.queue[2]
  <2>1. 2 \in 1 .. Len(s.queue) /\ u.s.queue[1] = y
    <3>1. 1 \in 1 .. Len(u.s.queue)
      BY <1>0, StreamParts
    <3>2. 1 + 1 = 2
      OBVIOUS
    <3> QED
      BY <1>0, <3>1, <3>2
  <2>2. x \in Entries /\ y \in Entries
    BY <1>1, <2>1
  <2>3. /\ x.b \in Buffers /\ x.c \in 1 .. Len(chunks) /\ x.p \in Nat /\ x.p >= 1
        /\ x.p <= chunks[x.c].len /\ chunks[x.c].len \in Nat /\ Pos(x) \in Nat
        /\ y.c \in 1 .. Len(chunks) /\ Pos(y) \in Nat
    BY <2>2, EntryParts
  <2>4. Pos(y) = Pos(x) + 1
    <3>1. /\ Pos(x) + (Len(s.queue) - 1) = Pos(s.dec)
          /\ Pos(y) + (Len(s.queue) - 2) = Pos(s.dec)
      BY <1>1, <1>9, <2>1 DEF Chain
    <3> QED
      BY <1>1, <2>3, <3>1
  <2>5. Start(x.c) \in Nat /\ End(x.c) = Start(x.c) + chunks[x.c].len
    BY <2>3, ChunkParts
  <2>6. s.sub = PageOf(x.c) /\ s.tags[x.b] = TagOf(s, x) /\ u.b = x.b
    BY <1>0, <1>1, <1>9 DEF Shown, Tagged
  <2>7. CASE x.p < chunks[x.c].len
    <3>1. TagOf(s, x) = 0
      BY <2>3, <2>7 DEF TagOf
    <3>2. x.p + 1 \in 1 .. chunks[x.c].len /\ Pos(y) = Start(x.c) + (x.p + 1)
      <4>1. Pos(x) = Start(x.c) + x.p
        BY DEF Pos
      <4>2. x.p + 1 \in 1 .. chunks[x.c].len
        <5> HIDE DEF x, y
        <5> QED
          BY <2>3, <2>7
      <4>3. Pos(y) = Start(x.c) + (x.p + 1)
        <5> HIDE DEF x, y
        <5> QED
          BY <2>3, <2>4, <2>5, <4>1
      <4> QED
        BY <4>2, <4>3
    <3>3. y.c = x.c
      <4> HIDE DEF y, x
      <4> QED
        BY <2>2, <2>3, <3>2, EntryAt
    <3> QED
      BY <1>0, <2>1, <2>6, <3>1, <3>3
  <2>8. CASE x.p = chunks[x.c].len
    <3>1. Pos(y) = End(x.c) + 1
      BY <2>3, <2>4, <2>5, <2>8 DEF Pos
    <3>2. x.c < y.c /\ x.c \in 1 .. Len(chunks) - 1 /\ x.c + 1 \in 1 .. Len(chunks)
      <4>1. Pos(y) <= End(y.c) /\ End(y.c) \in Nat
        BY <2>2, <2>3, EntryParts, ChunkParts
      <4>2. y.c # x.c
        BY <2>5, <2>3, <3>1, <4>1
      <4>3. y.c < x.c => End(y.c) <= Start(x.c)
        BY <2>3, OneAfterAnother
      <4>4. ~(y.c < x.c)
        <5> HIDE DEF x, y
        <5> QED
          BY <2>3, <2>5, <3>1, <4>1, <4>3
      <4>5. Len(chunks) \in Nat
        BY DEF Phrase
      <4> HIDE DEF x, y
      <4> QED
        BY <2>3, <4>2, <4>4, <4>5
    <3>3. \A c \in 1 .. Len(chunks) - 1 : Start(c + 1) = End(c)
      BY DEF Phrase
    <3>4. Start(x.c + 1) = End(x.c)
      BY <3>2, <3>3
    <3>5. chunks[x.c + 1].len \in Nat /\ chunks[x.c + 1].len > 0
      <4>1. DOMAIN chunks = 1 .. Len(chunks)
        BY DEF Phrase
      <4> QED
        BY <1>9, <3>2, <4>1, ChunkParts DEF NoEmptyPage
    <3>6. 1 \in 1 .. chunks[x.c + 1].len /\ Pos(y) = Start(x.c + 1) + 1
      BY <3>1, <3>4, <3>5
    <3>7. y.c = x.c + 1
      <4> HIDE DEF y, x
      <4> QED
        BY <2>2, <3>2, <3>6, EntryAt
    <3>8. x.c < s.cur
      <4>1. y.c <= s.cur
        BY <1>9, <2>1, NoneAhead
      <4>2. s.cur \in Nat
        BY <1>1, StreamParts
      <4> HIDE DEF x, y
      <4> QED
        BY <2>3, <3>2, <4>1, <4>2
    <3>9. TagOf(s, x) = IF chunks[x.c + 1].tag THEN x.c + 1 ELSE 0
      BY <2>8, <3>8 DEF TagOf
    <3>10. /\ chunks[x.c + 1].tag => PageOf(x.c + 1) = x.c + 1
           /\ ~chunks[x.c + 1].tag => PageOf(x.c + 1) = PageOf(x.c)
      <4>1. x.c + 1 > 1 /\ (x.c + 1) - 1 = x.c
        BY <2>3
      <4> QED
        BY <3>2, <4>1, PageStep
    <3>11. x.c + 1 # 0
      BY <2>3
    <3> QED
      BY <1>0, <2>1, <2>6, <3>7, <3>9, <3>10, <3>11
  <2> QED
    BY <2>3, <2>7, <2>8
<1> QED
  BY <1>2, <1>3, <1>4, <1>5, <1>6, <1>7, <1>8, <1>9

-----------------------------------------------------------------------------
(* The inductive invariant                                                 *)

(* Without empty pages the task has every buffer queued, up to the end.    *)
Fed(s) == ~s.dec.eof => s.dec.p < chunks[s.cur].len

(* All buffers are queued unless the phrase has ended.                     *)
Full(s) == Len(s.queue) = NumBuffers \/ AtEnd(s)

(* What a subtitle in step with the sound rests on                         *)
Labelled(s) == Tagged(s) /\ Shown(s) /\ Noted(s)

(* What holds of the stream while stream_mutex is free. The smooth scroll  *)
(* may leave gaps in the queue. With a single buffer OnChunkEnd tags the   *)
(* buffer that was just unqueued, and the subtitle comes late.             *)
StreamFine(s) ==
  /\ Typed(s)
  /\ s.cur = 0 => s.queue = <<>> /\ ~s.should
  /\ scroll = "PC" /\ s.cur # 0 => Chain(s)
  /\ scroll = "PC" /\ s.cur # 0 /\ NoEmptyPage =>
       /\ Full(s) /\ Fed(s)
       /\ NumBuffers >= 2 => Labelled(s)

(* What was heard ends where the buffers to be played begin, or further on *)
(* when some are played again.                                             *)
HeardUpTo(s, n, h) ==
  /\ h[1] \in 1 .. Len(chunks) /\ h[2] \in Nat
  /\ SoundAt(h) + (Len(s.queue) - n) >= Pos(s.dec)
  /\ n > 0 \/ s.queue = <<>> => SoundAt(h) + (Len(s.queue) - n) = Pos(s.dec)

(* What the mixer has played and the clock                                 *)
MixerFine ==
  /\ done \in 0 .. Len(stream.queue)
  /\ scroll = "PC" /\ stream.cur # 0 => HeardUpTo(stream, done, heard)
  /\ device \in {"initial", "stopped", "playing", "paused"}
  /\ clock \in 0 .. TracksLength + 1

(* Where the conversation is goes with what the list and the stream are.   *)
InStep ==
  /\ counted \in BOOLEAN /\ noBreak \in BOOLEAN
  /\ mode \in {"splicing", "talking", "segue", "paused", "ended"}
  /\ noBreak => mode = "splicing" /\ chunks # <<>>
  /\ mode # "splicing" => chunks # <<>>
  /\ mode = "splicing" =>
       stream = Silent /\ done = 0 /\ device = "initial" /\ clock = 0 /\ ~counted
  /\ mode = "paused" => ~stream.should /\ device = "paused" /\ ~counted
  /\ counted => Attended

Keyed ==
  /\ waitTrack \in 0 .. ALL /\ rewind \in BOOLEAN /\ seeking \in BOOLEAN
  /\ keys \in 0 .. MaxKeys

TrackInv == Phrase /\ StreamFine(stream) /\ MixerFine /\ InStep /\ Keyed
-----------------------------------------------------------------------------
(* PlayStream fills the buffers.                                           *)

(* The turns of its loop: b buffers were looked at, and what is heard      *)
(* begins after the place at.                                              *)
Filling(t, b, at) ==
  /\ Typed(t.s) /\ Chain(t.s) /\ t.s.should /\ t.go \in BOOLEAN
  /\ \A i \in 1 .. Len(t.s.queue) : t.s.queue[i].b <= b
  /\ at + Len(t.s.queue) = Pos(t.s.dec)
  /\ t.go => ~t.s.dec.eof
  /\ NoEmptyPage =>
       /\ Fed(t.s)
       /\ t.go => Len(t.s.queue) = b
       /\ ~t.go => AtEnd(t.s)
       /\ Tagged(t.s) /\ Shown(t.s)
       /\ t.s.queue = <<>> => t.s.sub = PageOf(t.s.cur)
       /\ \A x \in Buffers : x > b => t.s.tags[x] = 0

LEMMA FullOfLen ==
  ASSUME Phrase, NoEmptyPage, NEW c \in 1 .. Len(chunks)
  PROVE  chunks[c].len > 0 /\ chunks[c].len \in Nat
<1>1. DOMAIN chunks = 1 .. Len(chunks)
  BY DEF Phrase
<1> QED
  BY <1>1, ChunkParts DEF NoEmptyPage

(* One turn of the loop of PlayStream keeps what its turns rely on.        *)
LEMMA FillStep ==
  ASSUME Phrase, NEW n \in 0 .. NumBuffers - 1, NEW at \in Nat, NEW t,
         Filling(t, n, at), t.go, NEW u, u = FillNext(t, n + 1)
  PROVE  Filling(u, n + 1, at)
<1> DEFINE s == t.s
           b == n + 1
           d == Decoded(s, b)
           e == IF d.dec.eof THEN ChunkEnd(d, b) ELSE d
<1>1. b \in Buffers /\ b \in Nat /\ n \in Nat
  BY TrackAssumption DEF Buffers
<1>2. /\ s \in Streams /\ s.dec.c = s.cur /\ s.cur # 0 /\ Typed(s) /\ Chain(s)
      /\ s.should /\ ~s.dec.eof /\ at + Len(s.queue) = Pos(s.dec)
      /\ \A i \in 1 .. Len(s.queue) : s.queue[i].b <= n
  BY DEF Filling, Typed, Chain
<1>3. /\ s.cur \in 1 .. Len(chunks) /\ s.dec.p \in Nat /\ Len(s.queue) \in Nat
      /\ s.queue \in Seq(Entries) /\ (s.queue = <<>> <=> Len(s.queue) = 0)
      /\ chunks[s.cur].len \in Nat
  <2>1. s.cur \in 1 .. Len(chunks)
    BY <1>2, StreamParts DEF Phrase
  <2> QED
    BY <1>2, <2>1, StreamParts, ChunkParts
<1>4. u = IF Len(d.queue) = Len(s.queue) THEN [s |-> d, go |-> FALSE]
          ELSE [s |-> e, go |-> ~e.dec.eof]
  BY DEF FillNext
<1> HIDE DEF d, e, s, b
<1>5. CASE s.dec.p >= chunks[s.dec.c].len
  <2>1. d = [s EXCEPT !.dec.eof = TRUE]
    BY <1>2, <1>5, DecodedNothing DEF d
  <2>2. Typed(d) /\ Chain(d)
    BY <1>2, <1>5, <2>1, EofKeeps
  <2>3. /\ d.queue = s.queue /\ d.should = s.should /\ d.dec.c = s.dec.c
        /\ d.dec.p = s.dec.p
    BY <1>2, <2>1, EofIs
  <2>4. u.s = d /\ u.go = FALSE
    BY <1>4, <2>3
  <2>5. ~NoEmptyPage
    <3>1. NoEmptyPage => Fed(s)
      BY DEF Filling, s
    <3>2. Fed(s) => s.dec.p < chunks[s.dec.c].len
      BY <1>2 DEF Fed
    <3>3. chunks[s.dec.c].len \in Nat
      BY <1>2, <1>3
    <3> QED
      BY <1>3, <1>5, <3>1, <3>2, <3>3
  <2>6. at + Len(d.queue) = Pos(d.dec)
    BY <1>2, <2>3 DEF Pos
  <2>7. \A i \in 1 .. Len(d.queue) : d.queue[i].b <= b
    <3> SUFFICES ASSUME NEW i \in 1 .. Len(s.queue) PROVE s.queue[i].b <= b
      BY <2>3
    <3>1. s.queue[i] \in Entries /\ s.queue[i].b <= n
      BY <1>2, <1>3
    <3>2. s.queue[i].b \in Nat
      BY <3>1, EntryParts, TrackAssumption DEF Buffers
    <3> QED
      BY <1>1, <3>1, <3>2 DEF b
  <2> QED
    BY <1>2, <2>2, <2>3, <2>4, <2>5, <2>6, <2>7 DEF Filling, b
<1>6. CASE s.dec.p < chunks[s.dec.c].len
  <2>1. \A i \in 1 .. Len(s.queue) : s.queue[i].b # b
    <3> SUFFICES ASSUME NEW i \in 1 .. Len(s.queue), s.queue[i].b = b PROVE FALSE
      OBVIOUS
    <3> QED
      BY <1>1, <1>2 DEF b
  <2>2. /\ Typed(d) /\ Chain(d) /\ Len(d.queue) = Len(s.queue) + 1
        /\ Pos(d.dec) = Pos(s.dec) + 1 /\ d.queue[Len(d.queue)].b = b
        /\ (Tagged(s) /\ s.tags[b] = 0 => Tagged(d))
        /\ (Shown(s) /\ (s.queue = <<>> => s.sub = PageOf(s.cur)) => Shown(d))
    BY <1>1, <1>2, <1>6, <2>1, DecodedKeeps DEF d
  <2>3. /\ d \in Streams /\ d.cur = s.cur /\ d.tags = s.tags /\ d.should = s.should
        /\ d.dec.c = s.dec.c /\ d.dec.p = s.dec.p + 1
        /\ (d.dec.eof <=> s.dec.p + 1 >= chunks[s.dec.c].len)
        /\ d.queue = Append(s.queue, [b |-> b, c |-> s.dec.c, p |-> s.dec.p + 1])
    <3>1. s.dec.c # 0
      BY <1>2
    <3>2. d = Decoded(s, b)
      BY DEF d
    <3>3. s \in Streams /\ b \in Buffers
      BY <1>1, <1>2
    <3>4. /\ d \in Streams /\ d.cur = s.cur /\ d.tags = s.tags /\ d.should = s.should
          /\ d.dec.c = s.dec.c /\ d.dec.p = s.dec.p + 1
          /\ d.queue = Append(s.queue, [b |-> b, c |-> s.dec.c, p |-> s.dec.p + 1])
      BY <1>6, <3>1, <3>2, <3>3, DecodedMore
    <3>5. d.dec.eof <=> s.dec.p + 1 >= chunks[s.dec.c].len
      BY <1>6, <3>1, <3>2, <3>3, DecodedMore
    <3> QED
      BY <3>4, <3>5
  <2>4. u.s = e /\ u.go = ~e.dec.eof
    BY <1>3, <1>4, <2>2
  <2>5. d.queue # <<>> /\ at + Len(d.queue) = Pos(d.dec) /\ Len(d.queue) \in Nat
    <3>1. Pos(s.dec) = at + Len(s.queue)
      BY <1>2
    <3>2. Len(d.queue) \in Nat /\ (d.queue = <<>> <=> Len(d.queue) = 0)
      BY <2>3, StreamParts
    <3> QED
      BY <1>3, <2>2, <3>1, <3>2
  <2>6. \A i \in 1 .. Len(d.queue) : d.queue[i].b <= b
    <3> SUFFICES ASSUME NEW i \in 1 .. Len(d.queue) PROVE d.queue[i].b <= b
      OBVIOUS
    <3>1. CASE i = Len(d.queue)
      BY <1>1, <2>2, <3>1
    <3>2. CASE i # Len(d.queue)
      <4>1. i \in 1 .. Len(s.queue)
        BY <1>3, <2>2, <3>2
      <4>2. d.queue[i] = s.queue[i] /\ s.queue[i] \in Entries
        BY <1>3, <2>3, <4>1
      <4>3. s.queue[i].b \in Nat
        BY <4>2, EntryParts, TrackAssumption DEF Buffers
      <4> QED
        BY <1>1, <1>2, <4>1, <4>2, <4>3 DEF b
    <3> QED
      BY <3>1, <3>2
  <2>7. ASSUME NoEmptyPage
        PROVE  /\ Len(d.queue) = b /\ Tagged(d) /\ Shown(d)
               /\ \A x \in Buffers : x > b => d.tags[x] = 0
    <3>1. /\ Len(s.queue) = n /\ Tagged(s) /\ Shown(s)
          /\ (s.queue = <<>> => s.sub = PageOf(s.cur))
          /\ \A x \in Buffers : x > n => s.tags[x] = 0
      BY <2>7 DEF Filling, s
    <3>2. s.tags[b] = 0
      BY <1>1, <3>1 DEF b
    <3>3. \A x \in Buffers : x > b => d.tags[x] = 0
      BY <1>1, <2>3, <3>1, TrackAssumption DEF b, Buffers
    <3> QED
      BY <1>1, <2>2, <3>1, <3>2, <3>3 DEF b
  <2>8. CASE ~d.dec.eof
    <3>1. e = d
      BY <2>8 DEF e
    <3>2. Fed(d)
      BY <1>2, <1>3, <2>3, <2>8 DEF Fed
    <3>3. u.s = d /\ u.go = TRUE
      BY <2>4, <2>8, <3>1
    <3> QED
      BY <1>2, <2>2, <2>3, <2>5, <2>6, <2>7, <2>8, <3>2, <3>3 DEF Filling, b
  <2>9. CASE d.dec.eof /\ d.cur = Len(chunks)
    <3>1. e = d
      BY <2>9 DEF e, ChunkEnd
    <3>2. Fed(d) /\ AtEnd(d)
      BY <2>9 DEF Fed, AtEnd
    <3>3. u.s = d /\ u.go = FALSE
      BY <2>4, <2>9, <3>1
    <3> QED
      BY <1>2, <2>2, <2>3, <2>5, <2>6, <2>7, <3>2, <3>3 DEF Filling, b
  <2>10. CASE d.dec.eof /\ d.cur # Len(chunks)
    <3>0. d.cur # 0 /\ e = ChunkEnd(d, b)
      BY <1>2, <2>3, <2>10 DEF e
    <3>1. /\ Typed(e) /\ e.queue = d.queue /\ ~e.dec.eof
          /\ Chain(e) /\ Pos(e.dec) = Pos(d.dec)
          /\ \A x \in Buffers : x # b => e.tags[x] = d.tags[x]
          /\ (Shown(d) => Shown(e))
          /\ (chunks[d.cur].len > 0 /\ Tagged(d) => Tagged(e))
      BY <2>2, <2>5, <2>10, <3>0, ChunkEndKeeps
    <3>2. /\ e.should = d.should /\ e.cur = d.cur + 1 /\ e.cur \in 1 .. Len(chunks)
          /\ e.dec.p = 0
      <4>1. d \in Streams /\ d.cur # Len(chunks)
        BY <2>3, <2>10
      <4>2. /\ d.cur + 1 \in 1 .. Len(chunks) /\ e.cur = d.cur + 1
            /\ e.should = d.should /\ e.dec.p = 0
        BY <3>0, <4>1, ChunkEndIs
      <4> QED
        BY <4>2
    <3>3. ASSUME NoEmptyPage
          PROVE  /\ Fed(e) /\ Tagged(e) /\ Shown(e)
                 /\ \A x \in Buffers : x > b => e.tags[x] = 0
      <4>1. chunks[d.cur].len > 0
        BY <1>3, <2>3, <3>3, FullOfLen
      <4>2. Fed(e)
        BY <3>2, <3>3, FullOfLen DEF Fed
      <4>3. \A x \in Buffers : x > b => e.tags[x] = 0
        <5>1. \A x \in Buffers : x > b => x # b
          BY <1>1, TrackAssumption DEF Buffers
        <5> QED
          BY <2>7, <3>1, <3>3, <5>1
      <4> QED
        BY <2>7, <3>1, <3>3, <4>1, <4>2, <4>3
    <3>4. u.s = e /\ u.go = TRUE
      BY <2>4, <3>1
    <3>5. /\ Typed(u.s) /\ Chain(u.s) /\ u.s.should /\ u.go \in BOOLEAN
          /\ \A i \in 1 .. Len(u.s.queue) : u.s.queue[i].b <= b
          /\ at + Len(u.s.queue) = Pos(u.s.dec)
          /\ ~u.s.dec.eof
      <4>1. u.go \in BOOLEAN /\ u.s.should /\ ~u.s.dec.eof
        BY <1>2, <2>3, <3>1, <3>2, <3>4
      <4>2. at + Len(e.queue) = Pos(e.dec)
        BY <2>5, <3>1
      <4>3. \A i \in 1 .. Len(e.queue) : e.queue[i].b <= b
        BY <2>6, <3>1
      <4> QED
        BY <3>1, <3>4, <4>1, <4>2, <4>3
    <3>6. NoEmptyPage =>
            /\ Fed(u.s) /\ Len(u.s.queue) = b
            /\ Tagged(u.s) /\ Shown(u.s) /\ u.s.queue # <<>>
            /\ \A x \in Buffers : x > b => u.s.tags[x] = 0
      BY <2>5, <2>7, <3>1, <3>3, <3>4
    <3> QED
      BY <3>4, <3>5, <3>6 DEF Filling, b
  <2> QED
    BY <2>8, <2>9, <2>10
<1> QED
  <2>1. s.dec.p \in Nat /\ chunks[s.dec.c].len \in Nat
    BY <1>2, <1>3
  <2> QED
    BY <1>5, <1>6, <2>1

LEMMA FillingStays ==
  ASSUME Phrase, NEW n \in 0 .. NumBuffers, NEW at \in Nat, NEW t,
         Filling(t, n - 1, at), ~t.go
  PROVE  Filling(t, n, at)
<1>1. \A x \in Buffers : x \in Nat
  BY TrackAssumption DEF Buffers
<1>2. t.s.queue \in Seq(Entries)
  BY StreamParts DEF Filling, Typed
<1>3. \A i \in 1 .. Len(t.s.queue) : t.s.queue[i].b \in Nat
  <2> SUFFICES ASSUME NEW i \in 1 .. Len(t.s.queue) PROVE t.s.queue[i].b \in Nat
    OBVIOUS
  <2>1. t.s.queue[i] \in Entries
    BY <1>2
  <2> QED
    BY <1>1, <2>1, EntryParts
<1>4. \A i \in 1 .. Len(t.s.queue) : t.s.queue[i].b <= n
  <2>1. \A i \in 1 .. Len(t.s.queue) : t.s.queue[i].b <= n - 1
    BY DEF Filling
  <2> QED
    BY <1>3, <2>1
<1>5. NoEmptyPage => \A x \in Buffers : x > n => t.s.tags[x] = 0
  <2>1. NoEmptyPage => \A x \in Buffers : x > n - 1 => t.s.tags[x] = 0
    BY DEF Filling
  <2>2. \A x \in Buffers : x > n => x > n - 1
    BY <1>1
  <2> QED
    BY <2>1, <2>2
<1> QED
  BY <1>4, <1>5 DEF Filling

(* The turns of the loop, one after the other                              *)
IsFilling(f, s, n) ==
  f = [b \in 0 .. n |->
        IF b = 0 THEN {[s |-> s, go |-> TRUE]}
        ELSE {IF t.go THEN FillNext(t, b) ELSE t : t \in f[b - 1]}]

LEMMA FilledIs ==
  ASSUME NEW s
  PROVE  Filled(s) =
           {t.s : t \in (CHOOSE f : IsFilling(f, s, NumBuffers))[NumBuffers]}
BY DEF Filled, IsFilling

(* The function that Filled names exists, by the least number of turns for *)
(* which it would not; so CHOOSE finds it.                                 *)
LEMMA FillingExists ==
  ASSUME NEW s, NEW m \in Nat
  PROVE  \E f : IsFilling(f, s, m)
<1> DEFINE S == {n \in Nat : ~\E f : IsFilling(f, s, n)}
<1>1. SUFFICES ASSUME S # {} PROVE FALSE
  OBVIOUS
<1>2. PICK n \in S : \A k \in S : n <= k
  BY <1>1, LeastNat
<1>3. CASE n = 0
  <2> DEFINE g == [b \in 0 .. 0 |-> {[s |-> s, go |-> TRUE]}]
  <2>1. \A b \in 0 .. 0 : b = 0
    OBVIOUS
  <2>2. g = [b \in 0 .. 0 |->
              IF b = 0 THEN {[s |-> s, go |-> TRUE]}
              ELSE {IF t.go THEN FillNext(t, b) ELSE t : t \in g[b - 1]}]
    BY <2>1, Zenon
  <2>3. IsFilling(g, s, 0)
    BY <2>2 DEF IsFilling
  <2> QED
    BY <1>2, <1>3, <2>3
<1>4. CASE n # 0
  <2>1. n - 1 \in Nat /\ n \in Nat /\ ~(n <= n - 1)
    BY <1>2, <1>4
  <2>2. PICK f : IsFilling(f, s, n - 1)
    BY <1>2, <2>1
  <2> DEFINE Turn(b, T) == {IF t.go THEN FillNext(t, b) ELSE t : t \in T}
             start == {[s |-> s, go |-> TRUE]}
             g == [b \in 0 .. n |-> IF b = n THEN Turn(n, f[n - 1]) ELSE f[b]]
  <2>3. f = [b \in 0 .. n - 1 |-> IF b = 0 THEN start ELSE Turn(b, f[b - 1])]
    BY <2>2 DEF IsFilling
  <2> HIDE DEF Turn, start
  <2>4. \A b \in 0 .. n - 1 : f[b] = IF b = 0 THEN start ELSE Turn(b, f[b - 1])
    BY <2>3
  <2>5. \A b \in 0 .. n - 1 : g[b] = f[b]
    BY <2>1
  <2>6. ASSUME NEW b \in 0 .. n
        PROVE  g[b] = IF b = 0 THEN start ELSE Turn(b, g[b - 1])
    <3>1. CASE b = n
      <4>1. g[b] = Turn(n, f[n - 1]) /\ n - 1 \in 0 .. n - 1
        BY <2>1, <3>1
      <4>2. g[n - 1] = f[n - 1]
        BY <2>5, <4>1
      <4> QED
        BY <1>4, <3>1, <4>1, <4>2
    <3>2. CASE b # n
      <4>1. b \in 0 .. n - 1 /\ (b # 0 => b - 1 \in 0 .. n - 1)
        BY <2>1, <3>2
      <4>2. g[b] = f[b] /\ (b # 0 => g[b - 1] = f[b - 1])
        BY <2>5, <4>1
      <4> QED
        BY <2>4, <4>1, <4>2
    <3> QED
      BY <3>1, <3>2
  <2>7. g = [b \in 0 .. n |-> IF b = 0 THEN start ELSE Turn(b, g[b - 1])]
    <3> DEFINE h == [b \in 0 .. n |-> IF b = 0 THEN start ELSE Turn(b, g[b - 1])]
    <3>1. \A b \in 0 .. n : g[b] = h[b]
      BY <2>6
    <3> QED
      BY <3>1
  <2>8. IsFilling(g, s, n)
    <3> HIDE DEF g
    <3> QED
      BY <2>7 DEF IsFilling, Turn, start
  <2> QED
    BY <1>2, <2>8
<1> QED
  BY <1>3, <1>4

(* After its turns PlayStream leaves a stream as it should be.             *)
LEMMA FilledKeeps ==
  ASSUME Phrase, NEW at \in Nat, NEW s, NEW t0, t0 = [s |-> s, go |-> TRUE],
         Filling(t0, 0, at), NEW r \in Filled(s)
  PROVE  \E t : r = t.s /\ Filling(t, NumBuffers, at)
<1> DEFINE f == CHOOSE h : IsFilling(h, s, NumBuffers)
<1>0. NumBuffers \in Nat
  BY TrackAssumption
<1>1. IsFilling(f, s, NumBuffers)
  BY <1>0, FillingExists
<1>2. Filled(s) = {t.s : t \in f[NumBuffers]}
  BY FilledIs
<1> HIDE DEF f
<1>3. \A b \in 0 .. NumBuffers :
        f[b] = IF b = 0 THEN {t0}
               ELSE {IF t.go THEN FillNext(t, b) ELSE t : t \in f[b - 1]}
  BY <1>1 DEF IsFilling
<1> DEFINE S == {b \in 0 .. NumBuffers : ~\A t \in f[b] : Filling(t, b, at)}
<1>4. SUFFICES ASSUME S # {} PROVE FALSE
  <2>1. NumBuffers \in 0 .. NumBuffers
    BY <1>0
  <2>2. S = {} => \A t \in f[NumBuffers] : Filling(t, NumBuffers, at)
    BY <2>1
  <2> QED
    BY <1>2, <2>2
<1>5. PICK b \in S : \A k \in S : b <= k
  <2>1. S \subseteq Nat
    OBVIOUS
  <2> QED
    BY <1>4, <2>1, LeastNat
<1>6. PICK u \in f[b] : ~Filling(u, b, at)
  BY <1>5
<1>7. CASE b = 0
  <2>1. f[b] = {t0}
    BY <1>3, <1>5, <1>7
  <2>2. u = t0
    BY <1>6, <2>1
  <2> QED
    BY <1>6, <1>7, <2>2
<1>8. CASE b # 0
  <2>1. b - 1 \in 0 .. NumBuffers - 1 /\ b - 1 \in 0 .. NumBuffers /\ ~(b <= b - 1)
        /\ b = (b - 1) + 1
    BY <1>0, <1>5, <1>8
  <2>2. b - 1 \notin S
    BY <1>5, <2>1
  <2>3. \A t \in f[b - 1] : Filling(t, b - 1, at)
    BY <2>1, <2>2
  <2>4. f[b] = {IF t.go THEN FillNext(t, b) ELSE t : t \in f[b - 1]}
    BY <1>3, <1>5, <1>8
  <2>5. PICK t \in f[b - 1] : u = IF t.go THEN FillNext(t, b) ELSE t
    BY <1>6, <2>4
  <2>6. Filling(t, b - 1, at)
    BY <2>3
  <2>7. CASE t.go
    <3>1. u = FillNext(t, (b - 1) + 1)
      BY <2>1, <2>5, <2>7
    <3>2. Filling(u, (b - 1) + 1, at)
      BY <2>1, <2>6, <2>7, <3>1, FillStep
    <3> QED
      BY <1>6, <2>1, <3>2
  <2>8. CASE ~t.go
    <3>1. u = t
      BY <2>5, <2>8
    <3> QED
      BY <1>6, <2>1, <2>6, <2>8, <3>1, FillingStays
  <2> QED
    BY <2>7, <2>8
<1> QED
  BY <1>7, <1>8

(* PlayStream on a sample that is stopped first                            *)
LEMMA Played ==
  ASSUME Phrase, NEW s \in Streams, s.cur # 0, NEW from \in Nat,
         from <= chunks[s.cur].len, NoEmptyPage => from < chunks[s.cur].len,
         chunks[s.cur].tag \/ s.sub = PageOf(s.cur),
         PlayStream(s, from)
  PROVE  /\ Typed(stream') /\ stream'.cur # 0 /\ stream'.should
         /\ Chain(stream')
         /\ NoEmptyPage => Full(stream') /\ Fed(stream') /\ Labelled(stream')
         /\ done' = 0 /\ device' = "playing" /\ clock' \in 0 .. TracksLength
         /\ HeardUpTo(stream', 0, heard')
<1> DEFINE c == s.cur
           at == Start(c) + from
           sub == IF chunks[c].tag THEN c ELSE s.sub
           place == [c |-> c, p |-> from, eof |-> FALSE]
           tags == [b \in Buffers |-> 0]
           t == [Stopped(s) EXCEPT !.dec = place, !.sub = sub, !.tags = tags,
                   !.sample = TRUE, !.should = TRUE]
           t0 == [s |-> t, go |-> TRUE]
<1>1. c \in 1 .. Len(chunks) /\ s.sub \in 0 .. Len(chunks) /\ Len(chunks) \in Nat
  BY StreamParts DEF Phrase
<1>2. /\ chunks[c].len \in Nat /\ Start(c) \in Nat
      /\ End(c) = Start(c) + chunks[c].len /\ End(c) <= TracksLength
      /\ TracksLength \in Nat
  BY <1>1, ChunkParts, Whole
<1>3. sub = PageOf(c) /\ sub \in 0 .. Len(chunks)
  <2>1. chunks[c].tag => PageOf(c) = c
    BY <1>1, PageStep
  <2> QED
    BY <1>1, <2>1
<1>4. /\ stream' \in Filled(t) /\ done' = 0 /\ device' = "playing"
      /\ clock' = at /\ heard' = <<c, from>>
  <2>1. Stopped(s).sub = s.sub
    BY DEF Stopped, Streams
  <2>2. stream' \in Filled([Stopped(s) EXCEPT !.dec = place,
                              !.sub = IF chunks[c].tag THEN c ELSE Stopped(s).sub,
                              !.tags = tags, !.sample = TRUE, !.should = TRUE])
    BY DEF PlayStream
  <2>3. stream' \in Filled(t)
    BY <2>1, <2>2
  <2> QED
    BY <2>3 DEF PlayStream
<1>5. place \in StreamPlaces /\ place.c = c /\ place.p = from /\ ~place.eof
  BY <1>1 DEF StreamPlaces
<1>6. tags \in [Buffers -> 0 .. Len(chunks)]
  BY <1>1
<1>7. at \in Nat /\ at <= TracksLength
  BY <1>2
<1>8. <<>> \in Seq(Entries)
  OBVIOUS
<1>9. /\ t.cur = c /\ t.sub = sub /\ t.dec = place /\ t.queue = <<>>
      /\ t.tags = tags /\ t.sample = TRUE /\ t.should = TRUE /\ t \in Streams
  <2> HIDE DEF sub, place, tags
  <2>1. t = [s EXCEPT !.queue = <<>>, !.dec = place, !.sub = sub, !.tags = tags,
                      !.sample = TRUE, !.should = TRUE]
    BY DEF Stopped, Streams
  <2>2. /\ t.cur = c /\ t.sub = sub /\ t.dec = place /\ t.queue = <<>>
        /\ t.tags = tags /\ t.sample = TRUE /\ t.should = TRUE
    BY <2>1 DEF Streams
  <2>3. \A q \in Seq(Entries), x \in StreamPlaces, p \in 0 .. Len(chunks),
           f \in [Buffers -> 0 .. Len(chunks)] :
          [s EXCEPT !.queue = q, !.dec = x, !.sub = p, !.tags = f,
                    !.sample = TRUE, !.should = TRUE] \in Streams
    BY DEF Streams
  <2>4. place \in StreamPlaces
    BY <1>5
  <2>5. t \in Streams
    BY <1>3, <1>6, <1>8, <2>1, <2>3, <2>4
  <2> QED
    BY <2>2, <2>5
<1> HIDE DEF t
<1>10. Filling(t0, 0, at)
  <2>1. Typed(t)
    BY <1>1, <1>5, <1>9 DEF Typed, Distinct
  <2>2. Chain(t)
    BY <1>1, <1>5, <1>9 DEF Chain
  <2>3. at + Len(t.queue) = Pos(t.dec)
    BY <1>5, <1>7, <1>9 DEF Pos
  <2>4. ASSUME NoEmptyPage
        PROVE  /\ Fed(t) /\ Len(t.queue) = 0 /\ Tagged(t) /\ Shown(t)
               /\ t.sub = PageOf(t.cur) /\ \A x \in Buffers : t.tags[x] = 0
    <3>1. Fed(t)
      BY <1>5, <1>9, <2>4 DEF Fed
    <3>2. Tagged(t) /\ Shown(t)
      BY <1>9 DEF Tagged, Shown
    <3> QED
      BY <1>3, <1>9, <3>1, <3>2
  <2>5. t0.s = t /\ t0.go = TRUE
    OBVIOUS
  <2>6. ~t.dec.eof /\ t.should /\ t.queue = <<>>
    BY <1>5, <1>9
  <2>7. \A i \in 1 .. Len(t.queue) : t.queue[i].b <= 0
    <3>1. Len(t.queue) = 0
      BY <2>6
    <3> QED
      BY <3>1
  <2> HIDE DEF t0, at
  <2>8. /\ Typed(t0.s) /\ Chain(t0.s) /\ t0.s.should /\ t0.go \in BOOLEAN
        /\ \A i \in 1 .. Len(t0.s.queue) : t0.s.queue[i].b <= 0
        /\ at + Len(t0.s.queue) = Pos(t0.s.dec)
        /\ ~t0.s.dec.eof
    BY <2>1, <2>2, <2>3, <2>5, <2>6, <2>7
  <2>9. NoEmptyPage =>
          /\ Fed(t0.s) /\ Len(t0.s.queue) = 0 /\ Tagged(t0.s) /\ Shown(t0.s)
          /\ t0.s.sub = PageOf(t0.s.cur) /\ \A x \in Buffers : t0.s.tags[x] = 0
    BY <2>4, <2>5
  <2> QED
    BY <2>5, <2>8, <2>9 DEF Filling
<1>11. PICK u : stream' = u.s /\ Filling(u, NumBuffers, at)
  <2> HIDE DEF at
  <2> QED
    BY <1>4, <1>7, <1>10, FilledKeeps
<1>12. /\ Typed(u.s) /\ Chain(u.s) /\ u.s.should /\ u.s.cur # 0
       /\ at + Len(u.s.queue) = Pos(u.s.dec)
  BY <1>11 DEF Filling, Chain
<1>13. ASSUME NoEmptyPage PROVE Full(u.s) /\ Fed(u.s) /\ Labelled(u.s)
  <2>1. /\ Fed(u.s) /\ Tagged(u.s) /\ Shown(u.s)
        /\ (u.go => Len(u.s.queue) = NumBuffers /\ ~u.s.dec.eof)
        /\ (~u.go => AtEnd(u.s))
    BY <1>11, <1>13 DEF Filling
  <2>2. Noted(u.s)
    BY <1>1, <2>1 DEF Noted, AtEnd
  <2> QED
    BY <2>1, <2>2 DEF Full, Labelled
<1>14. HeardUpTo(stream', 0, heard')
  <2>1. heard'[1] = c /\ heard'[2] = from
    BY <1>4
  <2>2. SoundAt(heard') = at
    BY <1>1, <2>1 DEF SoundAt
  <2>3. Len(u.s.queue) \in Nat
    BY <1>12, StreamParts DEF Typed
  <2> HIDE DEF at
  <2>4. /\ SoundAt(heard') + (Len(u.s.queue) - 0) >= Pos(u.s.dec)
        /\ SoundAt(heard') + (Len(u.s.queue) - 0) = Pos(u.s.dec)
    BY <1>7, <1>12, <2>2, <2>3
  <2> QED
    BY <1>1, <1>11, <2>1, <2>4 DEF HeardUpTo
<1> QED
  BY <1>4, <1>7, <1>11, <1>12, <1>13, <1>14

-----------------------------------------------------------------------------
(* The task refills the buffers that were played.                          *)

(* Of the turns of its loop: k buffers are still to be unqueued, and the   *)
(* mixer has come to the place at.                                         *)
Refilling(t, k, at) ==
  /\ Typed(t.s) /\ t.s.should /\ t.s.sample /\ t.s.cur # 0 /\ t.failed \in BOOLEAN
  /\ k <= Len(t.s.queue)
  /\ scroll = "PC" =>
       at \in Nat /\ Chain(t.s) /\ at + (Len(t.s.queue) - k) = Pos(t.s.dec)
  /\ scroll = "PC" /\ NoEmptyPage =>
       /\ Full(t.s) /\ Fed(t.s)
       /\ t.failed => AtEnd(t.s)
       /\ NumBuffers >= 2 => Labelled(t.s)

(* What holds when a buffer was unqueued and the next chunk taken          *)
ChunkTaken(t, v) ==
  /\ Typed(v.s) /\ v.s.should /\ v.s.sample /\ v.s.cur # 0 /\ v.failed = t.failed
  /\ v.b \in Buffers /\ \A i \in 1 .. Len(v.s.queue) : v.s.queue[i].b # v.b
  /\ Len(v.s.queue) = Len(t.s.queue) - 1
  /\ scroll = "PC" => Chain(v.s) /\ Pos(v.s.dec) = Pos(t.s.dec)
  /\ scroll = "PC" /\ NoEmptyPage =>
       /\ Fed(v.s)
       /\ v.s.dec.eof => AtEnd(v.s)
       /\ ~v.s.dec.eof => ~AtEnd(t.s)
       /\ NumBuffers >= 2 =>
            /\ Tagged(v.s) /\ Shown(v.s) /\ Noted(v.s) /\ v.s.tags[v.b] = 0

(* The first half of a turn of process_stream                              *)
LEMMA TakenStep ==
  ASSUME Phrase, NEW k \in Nat, k >= 1, NEW at, NEW t, Refilling(t, k, at),
         NEW v, v = ChunkDone(Unqueued(t))
  PROVE  ChunkTaken(t, v)
<1> DEFINE s == t.s
           u == Unqueued(t)
           y == u.s
           e == ChunkEnd(y, y.lastQ)
<1>1. /\ s \in Streams /\ Typed(s) /\ s.should /\ s.sample /\ s.cur # 0
      /\ t.failed \in BOOLEAN /\ Len(s.queue) \in Nat /\ Len(s.queue) >= 1
      /\ s.queue # <<>>
  <2>1. s \in Streams /\ k <= Len(s.queue)
    BY DEF Refilling, Typed
  <2>2. Len(s.queue) \in Nat
    BY <2>1, StreamParts
  <2>3. Len(s.queue) >= 1
    BY <2>1, <2>2
  <2>4. s.queue # <<>>
    BY <2>1, <2>3, StreamParts
  <2> QED
    BY <2>1, <2>2, <2>3, <2>4 DEF Refilling
<1>2. /\ u.failed = t.failed /\ u.b \in Buffers /\ y \in Streams
      /\ y.cur = s.cur /\ y.dec = s.dec /\ y.lastQ = s.lastQ
      /\ y.sample = s.sample /\ y.should = s.should
      /\ Len(y.queue) = Len(s.queue) - 1
  BY <1>1, UnqueuedIs
<1>3. /\ Typed(y) /\ y.tags[u.b] = 0 /\ Pos(y.dec) = Pos(s.dec)
      /\ \A i \in 1 .. Len(y.queue) : y.queue[i].b # u.b
      /\ (Chain(s) => Chain(y))
      /\ (Tagged(s) => Tagged(y)) /\ (Noted(s) => Noted(y))
      /\ (Chain(s) /\ NoEmptyPage /\ Tagged(s) /\ Shown(s) => Shown(y))
  BY <1>1, UnqueuedKeeps
<1>4. v = IF y.dec.eof /\ ~u.failed THEN [u EXCEPT !.s = e] ELSE u
  BY DEF ChunkDone
<1>5. u = [failed |-> u.failed, b |-> u.b, s |-> y]
  BY DEF Unqueued
<1>6. s.cur \in 1 .. Len(chunks) /\ Len(chunks) \in Nat
  BY <1>1, StreamParts DEF Phrase
<1>7. scroll = "PC" => Chain(s)
  BY DEF Refilling
<1>8. scroll = "PC" /\ NoEmptyPage =>
        /\ Full(s) /\ Fed(s) /\ (t.failed => AtEnd(s))
        /\ (NumBuffers >= 2 => Tagged(s) /\ Shown(s) /\ Noted(s))
  BY DEF Refilling, Labelled
<1> HIDE DEF u, e, s, y
<1>9. scroll = "PC" /\ NoEmptyPage => Fed(y) /\ (AtEnd(y) <=> AtEnd(s))
  BY <1>2, <1>8 DEF Fed, AtEnd
<1>10. CASE v = u /\ (y.dec.eof /\ ~t.failed => AtEnd(y))
  <2>1. scroll = "PC" /\ NoEmptyPage =>
          (y.dec.eof => AtEnd(y)) /\ (~y.dec.eof => ~AtEnd(s))
    BY <1>1, <1>2, <1>8, <1>9, <1>10 DEF AtEnd
  <2> QED
    BY <1>1, <1>2, <1>3, <1>7, <1>8, <1>9, <1>10, <2>1 DEF ChunkTaken, s, y
<1>11. CASE y.dec.eof /\ ~t.failed /\ y.cur # Len(chunks)
  <2>1. v = [u EXCEPT !.s = e]
    BY <1>2, <1>4, <1>11
  <2>2. v.s = e /\ v.b = u.b /\ v.failed = u.failed
    BY <1>5, <2>1
  <2>3. y.cur # 0 /\ e = ChunkEnd(y, y.lastQ)
    BY <1>1, <1>2 DEF e
  <2>4. /\ Typed(e) /\ e.queue = y.queue /\ e.cur = y.cur + 1 /\ ~e.dec.eof
        /\ (Chain(y) /\ y.dec.eof => Chain(e) /\ Pos(e.dec) = Pos(y.dec))
        /\ \A x \in Buffers : x # y.lastQ => e.tags[x] = y.tags[x]
        /\ (Shown(y) => Shown(e))
        /\ (Chain(y) /\ y.dec.eof /\ chunks[y.cur].len > 0 /\ y.queue # <<>>
              /\ Tagged(y) /\ y.lastQ = y.queue[Len(y.queue)].b => Tagged(e))
    BY <1>3, <1>11, <2>3, ChunkEndKeeps
  <2>5. /\ e.cur \in 1 .. Len(chunks) /\ e.should = y.should
        /\ e.sample = y.sample /\ e.dec.p = 0
    <3>1. y \in Streams /\ y.cur # Len(chunks)
      BY <1>2, <1>11
    <3>2. y.cur + 1 \in 1 .. Len(chunks)
      BY <2>3, <3>1, ChunkEndIs
    <3>3. e.cur = y.cur + 1
      BY <2>3, <3>1, ChunkEndIs
    <3>4. e.should = y.should
      BY <2>3, <3>1, ChunkEndIs
    <3>5. e.sample = y.sample
      BY <2>3, <3>1, ChunkEndIs, Zenon
    <3>6. e.dec.p = 0
      <4>1. ChunkEnd(y, y.lastQ).dec.p = 0
        BY <2>3, <3>1, NextStart
      <4> QED
        BY <2>3, <4>1
    <3> QED
      BY <3>2, <3>3, <3>4, <3>5, <3>6
  <2>6. ASSUME scroll = "PC", NoEmptyPage PROVE Fed(e) /\ ~AtEnd(s)
    <3>1. Fed(e)
      BY <2>5, <2>6, FullOfLen DEF Fed
    <3> QED
      BY <1>2, <1>11, <3>1 DEF AtEnd
  <2>7. ASSUME scroll = "PC", NoEmptyPage, NumBuffers >= 2
        PROVE  Tagged(e) /\ Shown(e) /\ Noted(e) /\ e.tags[u.b] = 0
    <3>1. Len(s.queue) = NumBuffers
      BY <1>8, <2>6, <2>7 DEF Full
    <3>2. Len(y.queue) \in Nat /\ Len(y.queue) >= 1 /\ y.queue # <<>>
      BY <1>1, <1>2, <2>7, <3>1, StreamParts
    <3>3. y.lastQ = y.queue[Len(y.queue)].b
      <4>1. Noted(y) /\ y.cur < Len(chunks)
        BY <1>2, <1>3, <1>6, <1>8, <1>11, <2>7
      <4> QED
        BY <1>11, <3>2, <4>1 DEF Noted
    <3>4. Tagged(y) /\ Shown(y) /\ Chain(y)
      BY <1>3, <1>7, <1>8, <2>7
    <3>5. chunks[y.cur].len > 0
      BY <1>2, <1>6, <2>7, FullOfLen
    <3>6. Tagged(e) /\ Shown(e)
      BY <1>11, <2>4, <3>2, <3>3, <3>4, <3>5
    <3>7. e.tags[u.b] = 0
      <4>1. Len(y.queue) \in 1 .. Len(y.queue)
        BY <3>2
      <4>2. u.b # y.lastQ
        BY <1>3, <3>3, <4>1
      <4> QED
        BY <1>2, <1>3, <2>4, <4>2
    <3> QED
      BY <2>4, <3>6, <3>7 DEF Noted
  <2>8. e.cur # 0
    BY <2>5
  <2>9. scroll = "PC" => Chain(e) /\ Pos(e.dec) = Pos(s.dec)
    BY <1>3, <1>7, <1>11, <2>4
  <2>10. Len(e.queue) = Len(s.queue) - 1 /\ \A i \in 1 .. Len(e.queue) : e.queue[i].b # u.b
    BY <1>2, <1>3, <2>4
  <2> QED
    BY <1>1, <1>2, <2>2, <2>4, <2>5, <2>6, <2>7, <2>8, <2>9, <2>10 DEF ChunkTaken, s, y
<1>12. CASE y.dec.eof /\ ~t.failed /\ y.cur = Len(chunks)
  <2>1. e = y
    BY <1>12 DEF e, ChunkEnd
  <2>2. v = [u EXCEPT !.s = y]
    BY <1>2, <1>4, <1>12, <2>1
  <2>3. v = u
    BY <1>5, <2>2
  <2> QED
    BY <1>10, <1>12, <2>3 DEF AtEnd
<1>13. CASE ~(y.dec.eof /\ ~t.failed)
  BY <1>2, <1>4, <1>10, <1>13
<1> QED
  BY <1>11, <1>12, <1>13

LEMMA NotedBy ==
  ASSUME NEW d, Typed(d), NEW b \in Buffers, NEW e, e = [d EXCEPT !.lastQ = b]
  PROVE  /\ Typed(e) /\ e.cur = d.cur /\ e.sub = d.sub /\ e.dec = d.dec
         /\ e.queue = d.queue /\ e.tags = d.tags /\ e.lastQ = b
         /\ e.sample = d.sample /\ e.should = d.should
<1>1. d \in Streams /\ b \in 0 .. NumBuffers
  BY TrackAssumption DEF Typed, Buffers
<1>2. e \in Streams
  BY <1>1 DEF Streams
<1>3. /\ e.cur = d.cur /\ e.sub = d.sub /\ e.dec = d.dec
      /\ e.queue = d.queue /\ e.tags = d.tags /\ e.lastQ = b
      /\ e.sample = d.sample /\ e.should = d.should
  BY <1>1 DEF Streams
<1> QED
  BY <1>2, <1>3 DEF Typed

(* A whole turn: one more buffer is refilled and queued.                   *)
LEMMA RefillStep ==
  ASSUME Phrase, NEW k \in Nat, k >= 1, NEW at, NEW t, Refilling(t, k, at),
         NEW w, w = Requeued(ChunkDone(Unqueued(t)))
  PROVE  Refilling(w, k - 1, at)
<1> DEFINE v == ChunkDone(Unqueued(t))
           b == v.b
           x == v.s
           d == Decoded(x, b)
<1>0. ChunkTaken(t, v) /\ w = Requeued(v)
  BY TakenStep
<1>1. v = [failed |-> v.failed, b |-> v.b, s |-> x]
  BY DEF ChunkDone, Unqueued
<1> HIDE DEF v, d, b, x
<1>2. /\ Typed(t.s) /\ t.s.should /\ t.s.sample /\ t.s.cur # 0 /\ t.failed \in BOOLEAN
      /\ k <= Len(t.s.queue)
      /\ (scroll = "PC" =>
            at \in Nat /\ Chain(t.s) /\ at + (Len(t.s.queue) - k) = Pos(t.s.dec))
      /\ (scroll = "PC" /\ NoEmptyPage => Full(t.s) /\ (t.failed => AtEnd(t.s)))
  BY DEF Refilling
<1>3. /\ Typed(x) /\ x.should /\ x.sample /\ x.cur # 0 /\ v.failed = t.failed
      /\ b \in Buffers /\ \A i \in 1 .. Len(x.queue) : x.queue[i].b # b
      /\ Len(x.queue) = Len(t.s.queue) - 1
      /\ (scroll = "PC" => Chain(x) /\ Pos(x.dec) = Pos(t.s.dec))
      /\ (scroll = "PC" /\ NoEmptyPage =>
            /\ Fed(x)
            /\ (x.dec.eof => AtEnd(x))
            /\ (~x.dec.eof => ~AtEnd(t.s))
            /\ (NumBuffers >= 2 =>
                  Tagged(x) /\ Shown(x) /\ Noted(x) /\ x.tags[b] = 0))
  BY <1>0 DEF ChunkTaken, b, x
<1>4. /\ x \in Streams /\ t.s \in Streams /\ Len(t.s.queue) \in Nat
      /\ Len(x.queue) \in Nat /\ x.dec.c \in 1 .. Len(chunks)
      /\ x.dec.p \in Nat /\ chunks[x.dec.c].len \in Nat /\ x.dec.c # 0
      /\ (x.queue = <<>> <=> Len(x.queue) = 0)
  <2>1. x \in Streams /\ t.s \in Streams
    BY <1>2, <1>3 DEF Typed
  <2>2. x.dec.c \in 1 .. Len(chunks)
    BY <1>3, <2>1, StreamParts DEF Typed, Phrase
  <2> QED
    BY <2>1, <2>2, StreamParts, ChunkParts
<1>5. scroll = "PC" =>
        /\ at \in Nat /\ Pos(x.dec) \in Nat
        /\ at + (Len(x.queue) - (k - 1)) = Pos(x.dec)
  <2>1. Pos(x.dec) \in Nat
    BY <1>4, ChunkParts DEF Pos
  <2> QED
    BY <1>2, <1>3, <1>4, <2>1
<1>6. k - 1 <= Len(x.queue) /\ k - 1 \in Nat
  BY <1>2, <1>3, <1>4
<1>7. CASE x.dec.eof
  <2>1. w = [v EXCEPT !.failed = TRUE]
    BY <1>0, <1>7 DEF Requeued, x
  <2>2. w.s = x /\ w.failed = TRUE
    BY <1>1, <2>1
  <2>3. scroll = "PC" /\ NoEmptyPage => Full(w.s) /\ AtEnd(w.s)
    BY <1>3, <1>7, <2>2 DEF Full
  <2> QED
    BY <1>2, <1>3, <1>5, <1>6, <2>2, <2>3 DEF Refilling, Labelled
<1>8. CASE ~x.dec.eof /\ x.dec.p >= chunks[x.dec.c].len
  <2>1. d = [x EXCEPT !.dec.eof = TRUE]
    BY <1>4, <1>8, DecodedNothing DEF d
  <2>2. Typed(d) /\ (Chain(x) => Chain(d))
    BY <1>3, <1>4, <1>8, <2>1, EofKeeps
  <2>3. /\ d.cur = x.cur /\ d.queue = x.queue /\ d.sample = x.sample
        /\ d.should = x.should /\ d.dec.c = x.dec.c /\ d.dec.p = x.dec.p
    BY <1>4, <2>1, EofIs
  <2>4. w = [v EXCEPT !.s = d]
    BY <1>0, <1>8, <2>3 DEF Requeued, d, b, x
  <2>5. w.s = d /\ w.failed = v.failed
    BY <1>1, <2>4
  <2>6. ~(scroll = "PC" /\ NoEmptyPage)
    <3>1. scroll = "PC" => x.dec.c = x.cur
      BY <1>3 DEF Chain
    <3>2. Fed(x) /\ x.dec.c = x.cur => x.dec.p < chunks[x.dec.c].len
      BY <1>8 DEF Fed
    <3>3. ~(x.dec.p < chunks[x.dec.c].len)
      BY <1>4, <1>8
    <3> QED
      BY <1>3, <3>1, <3>2, <3>3
  <2>7. Pos(d.dec) = Pos(x.dec)
    BY <2>3 DEF Pos
  <2> QED
    BY <1>2, <1>3, <1>5, <1>6, <2>2, <2>3, <2>5, <2>6, <2>7 DEF Refilling
<1>9. CASE ~x.dec.eof /\ x.dec.p < chunks[x.dec.c].len
  <2>0. d = Decoded(x, b)
    BY DEF d
  <2>a. Typed(x) /\ x \in Streams
    BY <1>3, <1>4
  <2>b. b \in Buffers
    BY <1>3
  <2>c. x.dec.c # 0 /\ x.dec.p < chunks[x.dec.c].len
    BY <1>4, <1>9
  <2>d. \A i \in 1 .. Len(x.queue) : x.queue[i].b # b
    BY <1>3
  <2>1. /\ Typed(d) /\ Len(d.queue) = Len(x.queue) + 1
        /\ Pos(d.dec) = Pos(x.dec) + 1 /\ d.queue[Len(d.queue)].b = b
        /\ (Chain(x) => Chain(d))
        /\ (Chain(x) /\ Tagged(x) /\ x.tags[b] = 0 => Tagged(d))
        /\ (Chain(x) /\ Shown(x) /\ (x.queue = <<>> => x.sub = PageOf(x.cur))
              => Shown(d))
    BY <2>0, <2>a, <2>b, <2>c, <2>d, DecodedKeeps
  <2>2. /\ d.cur = x.cur /\ d.sample = x.sample /\ d.should = x.should
        /\ d.dec.c = x.dec.c /\ d.dec.p = x.dec.p + 1
    <3>1. /\ d.cur = x.cur /\ d.sample = x.sample /\ d.should = x.should
          /\ d.dec.c = x.dec.c
      BY <2>0, <2>a, <2>b, <2>c, DecodedMore
    <3>2. Decoded(x, b).dec.p = x.dec.p + 1
      BY <2>a, <2>b, <2>c, OneRead
    <3> QED
      BY <2>0, <3>1, <3>2
  <2>3. d.dec.eof <=> x.dec.p + 1 >= chunks[x.dec.c].len
    BY <2>0, <2>a, <2>b, <2>c, DecodedMore
  <2> DEFINE e == [d EXCEPT !.lastQ = b]
  <2>4. w = [v EXCEPT !.s = e]
    <3>1. Requeued(v) = IF x.dec.eof THEN [v EXCEPT !.failed = TRUE]
                        ELSE IF Len(d.queue) = Len(x.queue) THEN [v EXCEPT !.s = d]
                        ELSE [v EXCEPT !.s = e]
      BY DEF Requeued, d, b, x
    <3>2. Len(d.queue) # Len(x.queue)
      BY <1>4, <2>1
    <3> QED
      BY <1>0, <1>9, <3>1, <3>2
  <2>5. w.s = e /\ w.failed = v.failed
    BY <1>1, <2>4
  <2>6. /\ Typed(e) /\ e.cur = d.cur /\ e.sub = d.sub /\ e.dec = d.dec
        /\ e.queue = d.queue /\ e.tags = d.tags /\ e.lastQ = b
        /\ e.sample = d.sample /\ e.should = d.should
    BY <1>3, <2>1, NotedBy
  <2> HIDE DEF e
  <2>7. ASSUME scroll = "PC"
        PROVE  Chain(e) /\ at + (Len(e.queue) - (k - 1)) = Pos(e.dec)
    <3>1. Chain(d)
      BY <1>3, <2>1, <2>7
    <3>2. Chain(e)
      BY <2>6, <3>1 DEF Chain
    <3>3. at + (Len(d.queue) - (k - 1)) = Pos(d.dec)
      BY <1>4, <1>5, <1>6, <2>1, <2>7
    <3> QED
      BY <2>6, <3>2, <3>3
  <2>8. ASSUME scroll = "PC", NoEmptyPage
        PROVE  /\ Full(e) /\ Fed(e) /\ ~t.failed
               /\ NumBuffers >= 2 => Labelled(e)
    <3>1. ~AtEnd(t.s) /\ ~t.failed /\ Len(t.s.queue) = NumBuffers
      BY <1>2, <1>3, <1>9, <2>8 DEF Full
    <3>2. Full(e)
      BY <1>3, <1>4, <2>1, <2>6, <3>1 DEF Full
    <3>3. Fed(e)
      <4>1. x.dec.c = x.cur
        BY <1>3, <2>8 DEF Chain
      <4>2. ~d.dec.eof => d.dec.p < chunks[d.cur].len
        BY <1>4, <2>2, <2>3, <4>1
      <4> QED
        BY <2>6, <4>2 DEF Fed
    <3>4. ASSUME NumBuffers >= 2 PROVE Labelled(e)
      <4>1. x.queue # <<>>
        BY <1>3, <1>4, <3>1, <3>4
      <4>2. Tagged(d) /\ Shown(d)
        BY <1>3, <2>1, <2>8, <3>4, <4>1
      <4>3. Tagged(e)
        <5>1. \A z : TagOf(e, z) = TagOf(d, z)
          BY <2>6 DEF TagOf
        <5> QED
          BY <2>6, <4>2, <5>1 DEF Tagged
      <4>4. Shown(e)
        BY <2>6, <4>2 DEF Shown
      <4>5. Noted(e)
        BY <2>1, <2>6 DEF Noted
      <4> QED
        BY <4>3, <4>4, <4>5 DEF Labelled
    <3> QED
      BY <3>1, <3>2, <3>3, <3>4
  <2>9. k - 1 <= Len(e.queue)
    BY <1>4, <1>6, <2>1, <2>6
  <2>10. w.s.should /\ w.s.sample /\ w.s.cur # 0 /\ w.failed \in BOOLEAN
    BY <1>2, <1>3, <2>2, <2>5, <2>6
  <2> QED
    BY <1>3, <1>5, <2>5, <2>6, <2>7, <2>8, <2>9, <2>10 DEF Refilling
<1> QED
  BY <1>4, <1>7, <1>8, <1>9

(* The turns of the loop, one after the other                              *)
IsRefilling(f, n) ==
  f = [i \in 0 .. n |->
        IF i = 0 THEN {[s |-> stream, failed |-> FALSE, b |-> 0]}
        ELSE {Requeued(e) : e \in {ChunkDone(u) : u \in
                {Unqueued(t) : t \in f[i - 1]}}}]

LEMMA RefillIs ==
  ASSUME Refill
  PROVE  /\ Attended /\ ~counted /\ done > 0 /\ done' = 0
         /\ stream' \in {t.s : t \in (CHOOSE f : IsRefilling(f, done))[done]}
         /\ UNCHANGED <<listVars, device, clock, heard, counted, talkVars>>
BY DEF Refill, IsRefilling

(* As for Filled, the function of the turns exists.                        *)
LEMMA RefillingExists ==
  ASSUME NEW m \in Nat
  PROVE  \E f : IsRefilling(f, m)
<1> DEFINE S == {n \in Nat : ~\E f : IsRefilling(f, n)}
           start == {[s |-> stream, failed |-> FALSE, b |-> 0]}
           Turn(T) == {Requeued(e) : e \in {ChunkDone(u) : u \in
                         {Unqueued(t) : t \in T}}}
<1>1. SUFFICES ASSUME S # {} PROVE FALSE
  OBVIOUS
<1>2. PICK n \in S : \A k \in S : n <= k
  BY <1>1, LeastNat
<1>3. CASE n = 0
  <2> DEFINE g == [i \in 0 .. 0 |-> start]
  <2>1. \A i \in 0 .. 0 : i = 0
    OBVIOUS
  <2> HIDE DEF start, Turn
  <2>2. g = [i \in 0 .. 0 |-> IF i = 0 THEN start ELSE Turn(g[i - 1])]
    BY <2>1, Zenon
  <2>3. IsRefilling(g, 0)
    <3> HIDE DEF g
    <3> QED
      BY <2>2 DEF IsRefilling, start, Turn
  <2> QED
    BY <1>2, <1>3, <2>3
<1>4. CASE n # 0
  <2>1. n - 1 \in Nat /\ n \in Nat /\ ~(n <= n - 1)
    BY <1>2, <1>4
  <2>2. PICK f : IsRefilling(f, n - 1)
    BY <1>2, <2>1
  <2> DEFINE g == [i \in 0 .. n |-> IF i = n THEN Turn(f[n - 1]) ELSE f[i]]
  <2>3. f = [i \in 0 .. n - 1 |-> IF i = 0 THEN start ELSE Turn(f[i - 1])]
    BY <2>2 DEF IsRefilling
  <2> HIDE DEF Turn, start
  <2>4. \A i \in 0 .. n - 1 : f[i] = IF i = 0 THEN start ELSE Turn(f[i - 1])
    BY <2>3
  <2>5. \A i \in 0 .. n - 1 : g[i] = f[i]
    BY <2>1
  <2>6. ASSUME NEW i \in 0 .. n
        PROVE  g[i] = IF i = 0 THEN start ELSE Turn(g[i - 1])
    <3>1. CASE i = n
      <4>1. g[i] = Turn(f[n - 1]) /\ n - 1 \in 0 .. n - 1
        BY <2>1, <3>1
      <4>2. g[n - 1] = f[n - 1]
        BY <2>5, <4>1
      <4> QED
        BY <1>4, <3>1, <4>1, <4>2
    <3>2. CASE i # n
      <4>1. i \in 0 .. n - 1 /\ (i # 0 => i - 1 \in 0 .. n - 1)
        BY <2>1, <3>2
      <4>2. g[i] = f[i] /\ (i # 0 => g[i - 1] = f[i - 1])
        BY <2>5, <4>1
      <4> QED
        BY <2>4, <4>1, <4>2
    <3> QED
      BY <3>1, <3>2
  <2>7. g = [i \in 0 .. n |-> IF i = 0 THEN start ELSE Turn(g[i - 1])]
    <3> DEFINE h == [i \in 0 .. n |-> IF i = 0 THEN start ELSE Turn(g[i - 1])]
    <3>1. \A i \in 0 .. n : g[i] = h[i]
      BY <2>6
    <3> QED
      BY <3>1
  <2>8. IsRefilling(g, n)
    <3> HIDE DEF g
    <3> QED
      BY <2>7 DEF IsRefilling, Turn, start
  <2> QED
    BY <1>2, <2>8
<1> QED
  BY <1>3, <1>4

LEMMA RefillKeeps ==
  ASSUME Phrase, done \in Nat, NEW at, NEW t0,
         t0 = [s |-> stream, failed |-> FALSE, b |-> 0],
         Refilling(t0, done, at), Refill
  PROVE  \E t : stream' = t.s /\ Refilling(t, 0, at)
<1> DEFINE f == CHOOSE h : IsRefilling(h, done)
<1>1. IsRefilling(f, done)
  BY RefillingExists
<1>2. stream' \in {t.s : t \in f[done]}
  BY RefillIs
<1> HIDE DEF f
<1>3. \A i \in 0 .. done :
        f[i] = IF i = 0 THEN {t0}
               ELSE {Requeued(e) : e \in {ChunkDone(u) : u \in
                       {Unqueued(t) : t \in f[i - 1]}}}
  BY <1>1 DEF IsRefilling
<1> DEFINE S == {i \in 0 .. done : ~\A t \in f[i] : Refilling(t, done - i, at)}
<1>4. SUFFICES ASSUME S # {} PROVE FALSE
  <2>1. done \in 0 .. done /\ done - done = 0
    OBVIOUS
  <2>2. S = {} => \A t \in f[done] : Refilling(t, done - done, at)
    BY <2>1
  <2> QED
    BY <1>2, <2>1, <2>2
<1>5. PICK i \in S : \A k \in S : i <= k
  <2>1. S \subseteq Nat
    OBVIOUS
  <2> QED
    BY <1>4, <2>1, LeastNat
<1>6. PICK w \in f[i] : ~Refilling(w, done - i, at)
  BY <1>5
<1>7. CASE i = 0
  <2>1. f[i] = {t0}
    BY <1>3, <1>5, <1>7
  <2>2. w = t0 /\ done - i = done
    BY <1>6, <1>7, <2>1
  <2> QED
    BY <1>6, <2>2
<1>8. CASE i # 0
  <2> DEFINE k == done - (i - 1)
  <2>1. /\ i - 1 \in 0 .. done /\ ~(i <= i - 1)
        /\ k \in Nat /\ k >= 1 /\ k - 1 = done - i
    BY <1>5, <1>8
  <2>2. i - 1 \notin S
    BY <1>5, <2>1
  <2>3. \A t \in f[i - 1] : Refilling(t, k, at)
    BY <2>1, <2>2
  <2>4. f[i] = {Requeued(e) : e \in {ChunkDone(u) : u \in
                  {Unqueued(t) : t \in f[i - 1]}}}
    BY <1>3, <1>5, <1>8
  <2>5. PICK t \in f[i - 1] : w = Requeued(ChunkDone(Unqueued(t)))
    BY <1>6, <2>4
  <2> HIDE DEF k
  <2>6. Refilling(w, k - 1, at)
    BY <2>1, <2>3, <2>5, RefillStep
  <2> QED
    BY <1>6, <2>1, <2>6
<1> QED
  BY <1>7, <1>8

-----------------------------------------------------------------------------
(* Every step but those that change the list of chunks: what is found of   *)
(* the new stream with the chunks as they are, holds in the next state.    *)

(* MixerFine, of values that are to be                                     *)
MixerFits(s, n, h, dev, time) ==
  /\ n \in 0 .. Len(s.queue)
  /\ scroll = "PC" /\ s.cur # 0 => HeardUpTo(s, n, h)
  /\ dev \in {"initial", "stopped", "playing", "paused"}
  /\ time \in 0 .. TracksLength + 1

LEMMA CarriedOver ==
  ASSUME Phrase, chunks' = chunks, scroll' = scroll, noBreak' = noBreak,
         StreamFine(stream'), MixerFits(stream', done', heard', device', clock')
  PROVE  Phrase' /\ StreamFine(stream)' /\ MixerFine'
<1>1. Phrase'
  BY DEF Phrase, Start, End, EndOf, Chunks
<1>2. Entries' = Entries /\ StreamPlaces' = StreamPlaces
  BY DEF Entries, StreamPlaces, Buffers
<1>3. Streams' = Streams
  BY <1>2 DEF Streams, Buffers
<1>4. Typed(stream)'
  BY <1>3 DEF StreamFine, Typed, Distinct
<1>5. /\ \A c : Start(c)' = Start(c)
      /\ \A c : PageOf(c)' = PageOf(c)
      /\ TracksLength' = TracksLength /\ NoEmptyPage' = NoEmptyPage
  BY DEF Start, PageOf, TracksLength, End, EndOf, NoEmptyPage
<1>6. Chain(stream') => Chain(stream)'
  BY DEF Chain, Pos, Start
<1>7. Full(stream') /\ Fed(stream') => Full(stream)' /\ Fed(stream)'
  BY DEF Full, Fed, AtEnd
<1>8. Labelled(stream') => Labelled(stream)'
  <2>1. Tagged(stream') => Tagged(stream)'
    BY DEF Tagged, TagOf
  <2>2. Shown(stream') => Shown(stream)'
    BY DEF Shown, PageOf
  <2>3. Noted(stream') => Noted(stream)'
    BY DEF Noted
  <2> QED
    BY <2>1, <2>2, <2>3 DEF Labelled
<1>9. StreamFine(stream)'
  BY <1>4, <1>5, <1>6, <1>7, <1>8 DEF StreamFine
<1>10. HeardUpTo(stream', done', heard') => HeardUpTo(stream, done, heard)'
  BY DEF HeardUpTo, Pos, Start, SoundAt
<1>11. MixerFine'
  BY <1>5, <1>10 DEF MixerFits, MixerFine
<1> QED
  BY <1>1, <1>9, <1>11

(* Steps that play the stream from a place in a chunk leave all fine.      *)
LEMMA PlayedFine ==
  ASSUME Phrase, NEW s \in Streams, s.cur # 0, NEW from \in Nat,
         from <= chunks[s.cur].len, NoEmptyPage => from < chunks[s.cur].len,
         chunks[s.cur].tag \/ s.sub = PageOf(s.cur),
         PlayStream(s, from)
  PROVE  /\ StreamFine(stream')
         /\ MixerFits(stream', done', heard', device', clock')
<1>1. /\ Typed(stream') /\ stream'.cur # 0 /\ stream'.should
      /\ Chain(stream')
      /\ (NoEmptyPage => Full(stream') /\ Fed(stream') /\ Labelled(stream'))
      /\ done' = 0 /\ device' = "playing" /\ clock' \in 0 .. TracksLength
      /\ HeardUpTo(stream', 0, heard')
  BY Played
<1>2. Len(stream'.queue) \in Nat
  BY <1>1, StreamParts DEF Typed
<1>3. clock' \in 0 .. TracksLength + 1
  BY <1>1, Whole
<1> QED
  BY <1>1, <1>2, <1>3 DEF StreamFine, MixerFits

(* A jump beyond the end stops the stream.                                 *)
LEMMA SeekEndFine ==
  ASSUME Phrase, StreamFine(stream), SeekEnd
  PROVE  /\ StreamFine(stream')
         /\ MixerFits(stream', done', heard', device', clock')
<1>1. stream \in Streams /\ 0 \in 0 .. Len(chunks)
  BY DEF StreamFine, Typed, Phrase
<1>2. /\ done' = 0 /\ device' = "initial" /\ clock' = TracksLength + 1
      /\ stream' = Stopped([stream EXCEPT !.cur = 0, !.sub = 0])
  BY DEF SeekEnd, StopStream
<1>3. stream' = [stream EXCEPT !.cur = 0, !.sub = 0, !.queue = <<>>,
                               !.sample = FALSE, !.should = FALSE]
  BY <1>1, <1>2 DEF Stopped, Streams
<1>4. /\ stream' \in Streams /\ stream'.cur = 0 /\ stream'.queue = <<>>
      /\ ~stream'.sample /\ ~stream'.should /\ stream'.dec = stream.dec
  <2>1. <<>> \in Seq(Entries) /\ FALSE \in BOOLEAN
    OBVIOUS
  <2>2. \A n \in 0 .. Len(chunks), q \in Seq(Entries), e \in BOOLEAN :
          [stream EXCEPT !.cur = n, !.sub = n, !.queue = q, !.sample = e,
                         !.should = e] \in Streams
    BY <1>1 DEF Streams
  <2>3. stream' \in Streams
    BY <1>1, <1>3, <2>1, <2>2
  <2>4. /\ stream'.cur = 0 /\ stream'.queue = <<>> /\ stream'.dec = stream.dec
        /\ stream'.sample = FALSE /\ stream'.should = FALSE
    BY <1>1, <1>3 DEF Streams
  <2> QED
    BY <2>3, <2>4
<1>5. Typed(stream')
  BY <1>4 DEF Typed, Distinct, StreamFine
<1>6. clock' \in 0 .. TracksLength + 1
  BY <1>2, Whole
<1> QED
  BY <1>2, <1>4, <1>5, <1>6 DEF StreamFine, MixerFits

LEMMA SoughtIs ==
  ASSUME Phrase, StreamFine(stream), NEW offset \in Nat, offset < TracksLength,
         NEW s, s = Sought(offset)
  PROVE  /\ s \in Streams /\ s.cur = ChunkAt(offset) /\ s.cur \in 1 .. Len(chunks)
         /\ s.dec.c = s.cur /\ s.dec.p = offset - Start(s.cur)
         /\ s.dec.p \in Nat /\ s.dec.p < chunks[s.cur].len
         /\ s.sub = PageOf(s.cur) /\ s.queue = stream.queue
         /\ s.sample = stream.sample /\ s.should = stream.should
<1> DEFINE c == ChunkAt(offset)
           place == [c |-> c, p |-> offset - Start(c), eof |-> FALSE]
<1>1. stream \in Streams
  BY DEF StreamFine, Typed
<1>2. c \in 1 .. Len(chunks) /\ Start(c) <= offset /\ offset < End(c)
  BY ChunkAtIs
<1>3. /\ Start(c) \in Nat /\ chunks[c].len \in Nat
      /\ End(c) = Start(c) + chunks[c].len
  BY <1>2, ChunkParts
<1>4. offset - Start(c) \in Nat /\ offset - Start(c) < chunks[c].len
  BY <1>2, <1>3
<1>5. {d \in 1 .. c : chunks[d].tag} # {}
  <2>1. chunks # <<>> /\ 1 \in 1 .. c
    BY <1>2 DEF Phrase
  <2> QED
    BY <2>1 DEF Phrase
<1>6. PageOf(c) \in 0 .. Len(chunks)
  BY <1>2, PageOfIs DEF Phrase
<1>7. place \in StreamPlaces /\ place.c = c /\ place.p = offset - Start(c)
  BY <1>2, <1>4 DEF StreamPlaces
<1>8. s = [stream EXCEPT !.cur = c, !.dec = place, !.sub = PageOf(c)]
  BY <1>5 DEF Sought, PageOf
<1> HIDE DEF c, place
<1>9. /\ s.cur = c /\ s.dec = place /\ s.sub = PageOf(c) /\ s.queue = stream.queue
      /\ s.sample = stream.sample /\ s.should = stream.should
  BY <1>1, <1>8 DEF Streams
<1>10. s \in Streams
  <2>1. \A m \in 0 .. Len(chunks), x \in StreamPlaces, n \in 0 .. Len(chunks) :
          [stream EXCEPT !.cur = m, !.dec = x, !.sub = n] \in Streams
    BY <1>1 DEF Streams
  <2>2. place \in StreamPlaces /\ c \in 0 .. Len(chunks)
    BY <1>2, <1>7
  <2>3. [stream EXCEPT !.cur = c, !.dec = place, !.sub = PageOf(c)] \in Streams
    BY <1>6, <2>1, <2>2
  <2> QED
    BY <1>8, <2>3
<1> QED
  BY <1>2, <1>4, <1>7, <1>9, <1>10 DEF c

LEMMA SeekToFine ==
  ASSUME Phrase, StreamFine(stream), MixerFine, scroll # "PC",
         NEW offset \in Nat, offset < TracksLength, SeekTo(offset)
  PROVE  /\ StreamFine(stream')
         /\ MixerFits(stream', done', heard', device', clock')
<1>1. /\ stream' = Sought(offset) /\ clock' = offset
      /\ done' = done /\ device' = device /\ heard' = heard
  BY DEF SeekTo
<1>2. /\ stream' \in Streams /\ stream'.cur \in 1 .. Len(chunks)
      /\ stream'.dec.c = stream'.cur /\ stream'.queue = stream.queue
      /\ stream'.dec.p \in Nat /\ stream'.dec.p < chunks[stream'.cur].len
  BY <1>1, SoughtIs
<1>3. chunks[stream'.cur].len \in Nat
  BY <1>2, ChunkParts
<1>4. Typed(stream')
  BY <1>2, <1>3 DEF StreamFine, Typed
<1>5. clock' \in 0 .. TracksLength + 1
  BY <1>1, Whole
<1> QED
  BY <1>1, <1>2, <1>4, <1>5 DEF StreamFine, MixerFits, MixerFine

-----------------------------------------------------------------------------
(* The frames of DoInput                                                   *)

(* A page is shown and played from its start.                              *)
LEMMA ShowFine ==
  ASSUME Phrase, StreamFine(stream), NEW page \in 1 .. Len(chunks),
         chunks[page].tag, NEW s,
         \/ s = [stream EXCEPT !.cur = page]
         \/ s = [stream EXCEPT !.cur = page, !.sub = page],
         PlayStream(s, 0)
  PROVE  /\ StreamFine(stream')
         /\ MixerFits(stream', done', heard', device', clock')
<1>1. stream \in Streams /\ page \in 0 .. Len(chunks) /\ page # 0
  BY DEF StreamFine, Typed, Phrase
<1>2. s \in Streams /\ s.cur = page
  BY <1>1 DEF Streams
<1>3. chunks[page].len \in Nat /\ 0 <= chunks[page].len
  BY ChunkParts
<1>4. NoEmptyPage => 0 < chunks[page].len
  BY FullOfLen
<1> QED
  BY <1>1, <1>2, <1>3, <1>4, PlayedFine

LEMMA PlayTrackFine ==
  ASSUME Phrase, chunks # <<>>, StreamFine(stream), PlayTrack
  PROVE  /\ StreamFine(stream')
         /\ MixerFits(stream', done', heard', device', clock')
<1>1. 1 \in 1 .. Len(chunks) /\ chunks[1].tag
  BY DEF Phrase
<1> QED
  BY <1>1, ShowFine DEF PlayTrack

LEMMA PageFine ==
  ASSUME Phrase, chunks # <<>>, StreamFine(stream),
         FastForward_Page \/ FastReverse_Page
  PROVE  /\ StreamFine(stream')
         /\ MixerFits(stream', done', heard', device', clock')
<1>1. stream.sub \in 0 .. Len(chunks)
  BY StreamParts DEF StreamFine, Typed
<1>2. 1 \in 1 .. Len(chunks) /\ chunks[1].tag
  BY DEF Phrase
<1>3. ASSUME NEW page \in 1 .. Len(chunks), chunks[page].tag, ShowAndPlay(page)
      PROVE  /\ StreamFine(stream')
             /\ MixerFits(stream', done', heard', device', clock')
  BY <1>3, ShowFine DEF ShowAndPlay
<1>4. CASE FastForward_Page
  <2>1. CASE NextPage(stream.sub) # 0
    <3>1. ShowAndPlay(NextPage(stream.sub))
      BY <1>4, <2>1 DEF FastForward_Page
    <3> QED
      BY <1>1, <1>3, <2>1, <3>1, PageFound
  <2>2. CASE NextPage(stream.sub) = 0
    BY <1>4, <2>2, SeekEndFine DEF FastForward_Page
  <2> QED
    BY <2>1, <2>2
<1>5. CASE FastReverse_Page
  <2>1. CASE stream.sub = 1
    <3>1. ShowAndPlay(1)
      BY <1>5, <2>1 DEF FastReverse_Page
    <3> QED
      BY <1>2, <1>3, <3>1
  <2>2. CASE stream.sub # 1
    <3>1. ShowAndPlay(PrevPage(stream.sub))
      BY <1>5, <2>2 DEF FastReverse_Page
    <3> QED
      BY <1>1, <1>3, <3>1, PageFound
  <2> QED
    BY <2>1, <2>2
<1> QED
  BY <1>4, <1>5

LEMMA SmoothFine ==
  ASSUME Phrase, chunks # <<>>, StreamFine(stream), MixerFine, scroll # "PC",
         FastForward_Smooth \/ FastReverse_Smooth
  PROVE  /\ StreamFine(stream')
         /\ MixerFits(stream', done', heard', device', clock')
<1>1. TracksLength \in Nat /\ TracksLength > 0 /\ Accel \in Nat /\ Accel > 0
  BY Whole, TrackAssumption
<1>2. TrackPos \in Nat /\ TrackPos <= TracksLength
  BY <1>1 DEF TrackPos, MixerFine
<1>3. CASE FastForward_Smooth
  <2> DEFINE offset == TrackPos + Accel
  <2>1. offset \in Nat
    BY <1>1, <1>2
  <2>2. IF offset < TracksLength THEN SeekTo(offset) ELSE SeekEnd
    BY <1>3 DEF FastForward_Smooth
  <2> HIDE DEF offset
  <2>3. CASE offset < TracksLength
    BY <2>1, <2>2, <2>3, SeekToFine
  <2>4. CASE ~(offset < TracksLength)
    BY <2>2, <2>4, SeekEndFine
  <2> QED
    BY <2>3, <2>4
<1>4. CASE FastReverse_Smooth
  <2> DEFINE offset == IF TrackPos < Accel THEN 0 ELSE TrackPos - Accel
  <2>1. offset \in Nat /\ offset < TracksLength
    BY <1>1, <1>2
  <2>2. IF stream.should THEN SeekTo(offset)
        ELSE PlayStream(Sought(offset), offset - Start(ChunkAt(offset)))
    BY <1>4 DEF FastReverse_Smooth
  <2> HIDE DEF offset
  <2>3. CASE stream.should
    BY <2>1, <2>2, <2>3, SeekToFine
  <2>4. CASE ~stream.should
    <3> DEFINE s == Sought(offset)
               from == offset - Start(ChunkAt(offset))
    <3>1. s = Sought(offset)
      OBVIOUS
    <3> HIDE DEF s
    <3>2. /\ s \in Streams /\ s.cur = ChunkAt(offset) /\ s.cur \in 1 .. Len(chunks)
          /\ s.dec.p = offset - Start(s.cur)
          /\ s.dec.p \in Nat /\ s.dec.p < chunks[s.cur].len
          /\ s.sub = PageOf(s.cur)
      BY <2>1, <3>1, SoughtIs
    <3>3. from \in Nat /\ from < chunks[s.cur].len
      BY <3>2
    <3>4. chunks[s.cur].len \in Nat /\ s.cur # 0
      BY <3>2, ChunkParts
    <3>5. PlayStream(s, from)
      BY <2>2, <2>4, <3>1
    <3> HIDE DEF from
    <3>6. from <= chunks[s.cur].len
      BY <3>3, <3>4
    <3> QED
      BY <3>2, <3>3, <3>4, <3>5, <3>6, PlayedFine
  <2> QED
    BY <2>3, <2>4
<1> QED
  BY <1>3, <1>4

(* The stream as it is, is fine.                                           *)
LEMMA SameFine ==
  ASSUME StreamFine(stream), MixerFine, stream' = stream, done' = done,
         device' = device, clock' = clock, heard' = heard
  PROVE  /\ StreamFine(stream')
         /\ MixerFits(stream', done', heard', device', clock')
BY DEF MixerFine, MixerFits

Frame ==
  Talk \/ Replay \/ FrameRight \/ FrameLeft \/ FrameCancel \/ FrameQuiet

LEMMA FrameFine ==
  ASSUME TrackInv, Frame
  PROVE  TrackInv'
<1> USE DEF TrackInv
<1>1. /\ chunks' = chunks /\ noBreak' = noBreak /\ scroll' = scroll
      /\ counted' = counted
  BY DEF Frame, Talk, Replay, FrameRight, FrameLeft, FrameCancel, FrameQuiet, listVars
<1>2. chunks # <<>> /\ ~noBreak
  BY DEF Frame, Talk, Replay, FrameRight, FrameLeft, FrameCancel, FrameQuiet,
         Pressed, InStep
<1>3. /\ StreamFine(stream')
      /\ MixerFits(stream', done', heard', device', clock')
  <2>1. CASE Talk
    <3>1. CASE stream.cur = 0
      BY <1>2, <2>1, <3>1, PlayTrackFine DEF Talk
    <3>2. CASE stream.cur # 0
      BY <2>1, <3>2, SameFine DEF Talk, mixVars
    <3> QED
      BY <3>1, <3>2
  <2>2. CASE Replay \/ FrameQuiet
    BY <2>2, SameFine DEF Replay, FrameQuiet, mixVars
  <2>3. CASE FrameRight
    BY <1>2, <2>3, PageFine, SmoothFine DEF FrameRight
  <2>4. CASE FrameLeft
    BY <1>2, <2>4, PageFine, SmoothFine DEF FrameLeft
  <2>5. CASE FrameCancel
    BY <2>5, SeekEndFine DEF FrameCancel
  <2> QED
    BY <2>1, <2>2, <2>3, <2>4, <2>5 DEF Frame
<1>4. Phrase' /\ StreamFine(stream)' /\ MixerFine'
  BY <1>1, <1>3, CarriedOver
<1>5. InStep'
  <2>1. mode' \in {"talking", "ended", "segue"}
    BY DEF Frame, Talk, Replay, FrameRight, FrameLeft, FrameCancel, FrameQuiet, Pressed
  <2>2. counted' => stream' = stream
    BY <1>1 DEF Frame, Talk, Replay, FrameRight, FrameLeft, FrameCancel, FrameQuiet,
                Pressed, MutexFree
  <2>3. counted' => Attended'
    BY <1>1, <2>2 DEF InStep, Attended
  <2>4. counted' \in BOOLEAN /\ noBreak' \in BOOLEAN
    BY <1>1 DEF InStep
  <2> QED
    BY <1>1, <1>2, <2>1, <2>3, <2>4 DEF InStep
<1>6. Keyed'
  <2>0. MaxKeys \in Nat /\ ALL \in Nat /\ 1 \in 0 .. ALL /\ ALL \in 0 .. ALL
    BY TrackAssumption DEF ALL
  <2>1. Keyed
    OBVIOUS
  <2> HIDE DEF TrackInv
  <2>2. waitTrack' \in 0 .. ALL
    <3>1. waitTrack' \in {waitTrack, 1, ALL}
      BY DEF Frame, Talk, Replay, FrameRight, FrameLeft, FrameCancel, FrameQuiet
    <3>2. waitTrack \in 0 .. ALL
      BY <2>1 DEF Keyed
    <3> QED
      BY <2>0, <3>1, <3>2
  <2>3. rewind' \in BOOLEAN /\ seeking' \in BOOLEAN
    <3>1. rewind' \in {rewind, TRUE, FALSE} /\ seeking' \in {seeking, TRUE, FALSE}
      BY DEF Frame, Talk, Replay, FrameRight, FrameLeft, FrameCancel, FrameQuiet
    <3>2. rewind \in BOOLEAN /\ seeking \in BOOLEAN
      BY <2>1 DEF Keyed
    <3> QED
      BY <3>1, <3>2
  <2>4. keys' \in 0 .. MaxKeys
    <3>1. keys' = keys \/ (keys < MaxKeys /\ keys' = keys + 1)
      BY DEF Frame, Talk, Replay, FrameRight, FrameLeft, FrameCancel, FrameQuiet, Pressed
    <3>2. keys \in 0 .. MaxKeys
      BY <2>1 DEF Keyed
    <3> QED
      BY <2>0, <3>1, <3>2
  <2> QED
    BY <2>2, <2>3, <2>4 DEF Keyed, ALL
<1> QED
  BY <1>4, <1>5, <1>6

-----------------------------------------------------------------------------
(* The list of chunks changes only while nothing plays.                    *)

LEMMA SilentFine ==
  ASSUME Phrase', stream' = Silent, done' = 0, device' = "initial", clock' = 0
  PROVE  StreamFine(stream)' /\ MixerFine'
<1>1. Len(chunks') \in Nat /\ 0 \in 0 .. Len(chunks')
  BY DEF Phrase
<1>2. TracksLength' \in Nat
  <2>1. CASE chunks' = <<>>
    BY <2>1 DEF TracksLength
  <2>2. CASE chunks' # <<>>
    <3>1. chunks'[Len(chunks')] \in Chunks'
      BY <1>1, <2>2 DEF Phrase
    <3>2. chunks'[Len(chunks')].start \in Nat /\ chunks'[Len(chunks')].len \in Nat
      BY <3>1, TrackAssumption DEF Chunks
    <3> QED
      BY <2>2, <3>2 DEF TracksLength, End, EndOf
  <2> QED
    BY <2>1, <2>2
<1>3. stream'.dec \in StreamPlaces'
  BY <1>1 DEF Silent, StreamPlaces
<1>4. stream'.tags \in [Buffers -> 0 .. Len(chunks')]
  BY <1>1 DEF Silent
<1>5. NumBuffers \in Nat
  BY TrackAssumption
<1>6. stream' \in Streams'
  BY <1>1, <1>3, <1>4, <1>5 DEF Silent, Streams, Buffers
<1>7. /\ stream'.cur = 0 /\ stream'.queue = <<>> /\ stream'.should = FALSE
      /\ stream'.sample = FALSE /\ stream'.dec.c = 0
  BY DEF Silent
<1>8. Typed(stream)'
  BY <1>6, <1>7 DEF Typed, Distinct
<1>9. StreamFine(stream)'
  BY <1>7, <1>8 DEF StreamFine
<1>10. MixerFine'
  <2>1. Len(stream'.queue) = 0 /\ 0 \in 0 .. TracksLength' + 1
    <3>1. \A n \in Nat : 0 \in 0 .. n + 1
      OBVIOUS
    <3>2. Len(stream'.queue) = 0
      BY <1>7
    <3> QED
      BY <1>2, <3>1, <3>2
  <2>2. done' \in 0 .. Len(stream'.queue) /\ clock' \in 0 .. TracksLength' + 1
    BY <2>1
  <2> QED
    BY <1>7, <2>2 DEF MixerFine
<1> QED
  BY <1>9, <1>10

(* One or two chunks are put after the last one.                           *)
LEMMA Extended ==
  ASSUME Phrase, NEW n \in {1, 2}, NEW ext \in Seq(Chunks), Len(ext) = n,
         Len(chunks) + n <= MaxChunks, chunks' = chunks \o ext,
         \A i \in 1 .. n : ext[i].track <= Len(chunks) + 1,
         chunks = <<>> => ext[1].tag /\ ext[1].len > 0,
         ext[1].start = TracksLength,
         n = 2 => ext[2].start = EndOf(ext[1])
  PROVE  Phrase'
<1>1. /\ chunks \in Seq(Chunks) /\ Len(chunks) \in Nat /\ Chunks' = Chunks
      /\ (chunks = <<>> <=> Len(chunks) = 0)
  BY DEF Phrase, Chunks
<1>2. /\ chunks' \in Seq(Chunks) /\ Len(chunks') = Len(chunks) + n
      /\ \A i \in 1 .. Len(chunks) : chunks'[i] = chunks[i]
      /\ \A i \in 1 .. n : chunks'[Len(chunks) + i] = ext[i]
  BY <1>1
<1>3. MaxChunks \in Nat
  BY TrackAssumption
<1>4. ASSUME NEW c \in 1 .. Len(chunks') PROVE chunks'[c].track <= c
  <2>1. CASE c <= Len(chunks)
    BY <1>1, <1>2, <2>1 DEF Phrase
  <2>2. CASE c > Len(chunks)
    <3>1. PICK i \in 1 .. n : c = Len(chunks) + i
      <4>1. c - Len(chunks) \in 1 .. n /\ c = Len(chunks) + (c - Len(chunks))
        BY <1>1, <1>2, <2>2
      <4> QED
        BY <4>1
    <3>2. ext[i] \in Chunks
      OBVIOUS
    <3>3. ext[i].track \in Nat /\ ext[i].track <= Len(chunks) + 1
      BY <1>3, <3>2 DEF Chunks
    <3>4. chunks'[c] = ext[i]
      BY <1>2, <3>1
    <3> QED
      BY <1>1, <3>1, <3>3, <3>4
  <2> QED
    BY <1>1, <1>2, <2>1, <2>2
<1>5. chunks'[1].tag /\ Start(1)' = 0 /\ chunks'[1].len > 0
  <2>1. CASE chunks = <<>>
    <3>1. chunks'[1] = ext[1]
      <4>1. 1 \in 1 .. n /\ Len(chunks) + 1 = 1
        BY <1>1, <2>1
      <4> QED
        BY <1>2, <4>1
    <3>2. TracksLength = 0
      BY <2>1 DEF TracksLength
    <3> QED
      BY <2>1, <3>1, <3>2 DEF Start
  <2>2. CASE chunks # <<>>
    <3>1. chunks'[1] = chunks[1]
      BY <1>1, <1>2, <2>2
    <3> QED
      BY <2>2, <3>1 DEF Phrase, Start
  <2> QED
    BY <2>1, <2>2
<1>6. ASSUME NEW c \in 1 .. Len(chunks') - 1 PROVE Start(c + 1)' = End(c)'
  <2>0. c \in Nat /\ c >= 1 /\ c < Len(chunks) + n
    BY <1>1, <1>2
  <2>1. CASE c < Len(chunks)
    <3>1. c \in 1 .. Len(chunks) - 1 /\ c \in 1 .. Len(chunks) /\ c + 1 \in 1 .. Len(chunks)
      BY <1>1, <2>0, <2>1
    <3>2. Start(c + 1) = End(c)
      BY <3>1 DEF Phrase
    <3> QED
      BY <1>2, <3>1, <3>2 DEF Start, End, EndOf
  <2>2. CASE c = Len(chunks)
    <3>1. chunks'[c] = chunks[c] /\ chunks'[c + 1] = ext[1] /\ chunks # <<>>
      BY <1>1, <1>2, <2>0, <2>2
    <3>2. TracksLength = End(c)
      BY <2>2, <3>1 DEF TracksLength
    <3> QED
      BY <3>1, <3>2 DEF Start, End, EndOf
  <2>3. CASE c > Len(chunks)
    <3>1. n = 2 /\ c = Len(chunks) + 1 /\ c + 1 = Len(chunks) + 2
      BY <1>1, <2>0, <2>3
    <3>2. 1 \in 1 .. n /\ 2 \in 1 .. n
      BY <3>1
    <3>3. chunks'[c] = ext[1] /\ chunks'[c + 1] = ext[2]
      BY <1>2, <3>1, <3>2
    <3> QED
      BY <3>1, <3>3 DEF Start, End, EndOf
  <2> QED
    BY <1>1, <2>0, <2>1, <2>2, <2>3
<1>7. Len(chunks') <= MaxChunks
  BY <1>2
<1> QED
  BY <1>1, <1>2, <1>4, <1>5, <1>6, <1>7 DEF Phrase

LEMMA TrackCountIs ==
  ASSUME Phrase
  PROVE  /\ TrackCount \in 0 .. Len(chunks)
         /\ chunks # <<>> => TrackCount \in 1 .. MaxChunks
<1>1. CASE chunks = <<>>
  BY <1>1 DEF TrackCount
<1>2. CASE chunks # <<>>
  <2>1. Len(chunks) \in 1 .. Len(chunks) /\ Len(chunks) \in Nat
    BY <1>2 DEF Phrase
  <2>2. TrackCount = chunks[Len(chunks)].track
    BY <1>2 DEF TrackCount, Last
  <2>3. chunks[Len(chunks)].track \in 1 .. MaxChunks
    BY <2>1, ChunkParts
  <2>4. chunks[Len(chunks)].track <= Len(chunks)
    BY <2>1 DEF Phrase
  <2> QED
    BY <2>1, <2>2, <2>3, <2>4, TrackAssumption
<1> QED
  BY <1>1, <1>2

(* SpliceTrack and SpliceMultiTrack put their chunks after the last one.   *)
LEMMA SpliceFine ==
  ASSUME TrackInv, SpliceTrack \/ SpliceMultiTrack
  PROVE  TrackInv'
<1>1. /\ Phrase /\ InStep /\ Keyed /\ mode = "splicing"
      /\ stream = Silent /\ done = 0 /\ device = "initial" /\ clock = 0 /\ ~counted
  BY DEF TrackInv, InStep, SpliceTrack, SpliceMultiTrack
<1>2. /\ stream' = stream /\ done' = done /\ device' = device /\ clock' = clock
      /\ counted' = counted /\ mode' = mode /\ waitTrack' = waitTrack
      /\ rewind' = rewind /\ seeking' = seeking /\ keys' = keys
  BY DEF SpliceTrack, SpliceMultiTrack, mixVars, talkVars
<1>3. /\ TracksLength \in Nat /\ Len(chunks) \in Nat /\ MaxChunks \in Nat
      /\ TrackCount \in 0 .. Len(chunks)
      /\ (chunks # <<>> => TrackCount \in 1 .. MaxChunks)
      /\ Lens \subseteq Nat /\ 1 \in Lens /\ noBreak \in BOOLEAN
      /\ (noBreak => chunks # <<>>)
  BY <1>1, Whole, TrackCountIs, TrackAssumption DEF Phrase, InStep
<1>4. CASE SpliceTrack
  <2>1. PICK first \in Lens \ {0}, rest \in {<<>>} \cup {<<l>> : l \in Lens} :
          LET track == TrackCount + IF noBreak /\ TrackCount > 0 THEN 0 ELSE 1
              pages == <<first>> \o rest
          IN  /\ Len(chunks) + Len(pages) <= MaxChunks
              /\ chunks' = chunks \o [i \in DOMAIN pages |->
                    Chunk(i > 1 \/ ~noBreak,
                          TracksLength + IF i > 1 THEN first ELSE 0,
                          pages[i], track)]
    BY <1>4 DEF SpliceTrack
  <2> DEFINE track == TrackCount + IF noBreak /\ TrackCount > 0 THEN 0 ELSE 1
             pages == <<first>> \o rest
             n == Len(pages)
             ext == [i \in DOMAIN pages |->
                       Chunk(i > 1 \/ ~noBreak,
                             TracksLength + IF i > 1 THEN first ELSE 0,
                             pages[i], track)]
  <2>2. Len(chunks) + n <= MaxChunks /\ chunks' = chunks \o ext
    BY <2>1
  <2>3. /\ n \in {1, 2} /\ DOMAIN pages = 1 .. n /\ pages[1] = first
        /\ \A i \in 1 .. n : pages[i] \in Lens
    <3>1. CASE rest = <<>>
      BY <3>1
    <3>2. CASE rest # <<>>
      <4>1. PICK l \in Lens : rest = <<l>>
        BY <3>2
      <4>2. <<first>> \in Seq(Lens) /\ <<l>> \in Seq(Lens)
        OBVIOUS
      <4>3. pages = <<first>> \o <<l>>
        BY <4>1
      <4> HIDE DEF pages
      <4>4. pages \in Seq(Lens) /\ Len(pages) = 2
        BY <4>2, <4>3
      <4>5. pages[1] = first
        BY <4>2, <4>3
      <4>6. DOMAIN pages = 1 .. 2 /\ \A i \in 1 .. 2 : pages[i] \in Lens
        BY <4>4
      <4> QED
        BY <4>4, <4>5, <4>6
    <3> QED
      BY <3>1, <3>2
  <2>4. track \in 1 .. MaxChunks /\ track <= Len(chunks) + 1
    <3>1. Len(chunks) + 1 <= MaxChunks
      BY <1>3, <2>2, <2>3
    <3> HIDE DEF pages, ext
    <3> QED
      BY <1>3, <3>1
  <2> HIDE DEF track, pages
  <2>5. ASSUME NEW i \in 1 .. n
        PROVE  /\ ext[i] \in Chunks /\ ext[i].track = track /\ ext[i].len = pages[i]
               /\ (ext[i].tag <=> i > 1 \/ ~noBreak)
               /\ ext[i].start = TracksLength + IF i > 1 THEN first ELSE 0
    <3>1. ext[i] = Chunk(i > 1 \/ ~noBreak,
                         TracksLength + IF i > 1 THEN first ELSE 0, pages[i], track)
      BY <2>3
    <3>2. TracksLength + (IF i > 1 THEN first ELSE 0) \in Nat
      BY <1>3
    <3>3. (i > 1 \/ ~noBreak) \in BOOLEAN
      OBVIOUS
    <3> DEFINE tag == i > 1 \/ ~noBreak
               start == TracksLength + IF i > 1 THEN first ELSE 0
    <3>4. tag \in BOOLEAN /\ start \in Nat /\ pages[i] \in Lens
      BY <2>3, <3>2
    <3> HIDE DEF tag, start
    <3>5. ext[i] = [tag |-> tag, start |-> start, len |-> pages[i], track |-> track]
      BY <3>1 DEF Chunk, tag, start
    <3> HIDE DEF ext
    <3>6. ext[i] \in Chunks
      BY <2>4, <3>4, <3>5 DEF Chunks
    <3>7. /\ ext[i].track = track /\ ext[i].len = pages[i]
          /\ ext[i].tag = tag /\ ext[i].start = start
      BY <3>5
    <3> QED
      BY <3>6, <3>7 DEF tag, start
  <2>6. ext \in Seq(Chunks) /\ Len(ext) = n
    <3>1. ext \in [1 .. n -> Chunks] /\ n \in Nat
      BY <2>3, <2>5
    <3> HIDE DEF ext, n
    <3>2. ext \in Seq(Chunks)
      BY <3>1
    <3>3. DOMAIN ext = 1 .. n
      BY <3>1
    <3> QED
      BY <3>1, <3>2, <3>3
  <2> HIDE DEF ext, n
  <2>7. \A i \in 1 .. n : ext[i].track <= Len(chunks) + 1
    BY <2>4, <2>5
  <2>8. /\ chunks = <<>> => ext[1].tag /\ ext[1].len > 0
        /\ ext[1].start = TracksLength /\ (n = 2 => ext[2].start = EndOf(ext[1]))
    <3>1. 1 \in 1 .. n /\ first > 0 /\ first \in Nat
      BY <1>3, <2>3
    <3>2. ext[1].len = first /\ ext[1].start = TracksLength
      BY <1>3, <2>3, <2>5, <3>1
    <3>3. n = 2 => ext[2].start = TracksLength + first
      BY <2>5
    <3>4. chunks = <<>> => ext[1].tag
      BY <1>3, <2>5, <3>1
    <3> QED
      BY <3>1, <3>2, <3>3, <3>4 DEF EndOf
  <2>9. Phrase'
    BY <1>1, <2>2, <2>3, <2>6, <2>7, <2>8, Extended
  <2>10. noBreak' = FALSE
    BY <1>4 DEF SpliceTrack
  <2>11. StreamFine(stream)' /\ MixerFine'
    BY <1>1, <1>2, <2>9, SilentFine
  <2>12. InStep'
    BY <1>1, <1>2, <2>10 DEF InStep, Silent
  <2>13. Keyed'
    BY <1>1, <1>2 DEF Keyed, ALL
  <2> QED
    BY <2>9, <2>11, <2>12, <2>13 DEF TrackInv
<1>5. CASE SpliceMultiTrack
  <2> DEFINE x == Chunk(FALSE, TracksLength, 1, TrackCount)
             ext == <<x>>
  <2>1. /\ chunks # <<>> /\ Len(chunks) < MaxChunks - 1 /\ noBreak' = TRUE
        /\ chunks' = Append(chunks, x)
    BY <1>5 DEF SpliceMultiTrack
  <2>2. x \in Chunks
    BY <1>3, <2>1 DEF Chunk, Chunks
  <2>3. x.start = TracksLength /\ x.track = TrackCount
    BY DEF Chunk
  <2> HIDE DEF x
  <2>4. ext \in Seq(Chunks) /\ Len(ext) = 1 /\ ext[1] = x /\ chunks' = chunks \o ext
    BY <1>1, <2>1, <2>2 DEF Phrase
  <2> HIDE DEF ext
  <2>5. \A i \in 1 .. 1 : ext[i].track <= Len(chunks) + 1
    <3>1. \A i \in 1 .. 1 : i = 1
      OBVIOUS
    <3> QED
      BY <1>3, <2>3, <2>4, <3>1
  <2>6. Len(chunks) + 1 <= MaxChunks
    BY <1>3, <2>1
  <2>7. Phrase'
    <3>1. 1 \in {1, 2} /\ ~(1 = 2) /\ ext[1].start = TracksLength
      BY <2>3, <2>4
    <3> QED
      BY <1>1, <2>1, <2>4, <2>5, <2>6, <3>1, Extended
  <2>8. chunks' # <<>>
    BY <1>1, <2>1 DEF Phrase
  <2>9. StreamFine(stream)' /\ MixerFine'
    BY <1>1, <1>2, <2>7, SilentFine
  <2>10. InStep'
    BY <1>1, <1>2, <2>1, <2>8 DEF InStep, Silent
  <2>11. Keyed'
    BY <1>1, <1>2 DEF Keyed, ALL
  <2> QED
    BY <2>7, <2>9, <2>10, <2>11 DEF TrackInv
<1> QED
  BY <1>4, <1>5

(* StopTrack frees the list.                                               *)
LEMMA StopFine ==
  ASSUME TrackInv, StopTrack
  PROVE  TrackInv'
<1>1. /\ chunks' = <<>> /\ stream' = Silent /\ done' = 0 /\ device' = "initial"
      /\ clock' = 0 /\ mode' = "splicing" /\ keys' = 0 /\ waitTrack' = 0
      /\ seeking' = FALSE /\ noBreak' = noBreak /\ counted' = counted
      /\ rewind' = rewind /\ mode = "ended" /\ ~counted
  BY DEF StopTrack, MutexFree
<1>2. Phrase'
  BY <1>1, TrackAssumption DEF Phrase, Chunks
<1>3. StreamFine(stream)' /\ MixerFine'
  BY <1>1, <1>2, SilentFine
<1>4. InStep'
  BY <1>1 DEF TrackInv, InStep, Silent
<1>5. Keyed'
  <2>1. rewind' \in BOOLEAN
    BY <1>1 DEF TrackInv, Keyed
  <2>2. 0 \in 0 .. ALL /\ 0 \in 0 .. MaxKeys
    BY TrackAssumption DEF ALL
  <2>3. waitTrack' \in 0 .. ALL /\ keys' \in 0 .. MaxKeys /\ seeking' \in BOOLEAN
    BY <1>1, <2>2
  <2> QED
    BY <2>1, <2>3 DEF Keyed, ALL
<1> QED
  BY <1>2, <1>3, <1>4, <1>5 DEF TrackInv

-----------------------------------------------------------------------------
(* The task, the mixer and a pause                                         *)

(* The switch stream_should_be_playing, set or cleared                     *)
LEMMA SwitchFine ==
  ASSUME StreamFine(stream), NEW e \in BOOLEAN, e => stream.cur # 0,
         stream' = [stream EXCEPT !.should = e]
  PROVE  /\ StreamFine(stream') /\ stream'.should = e
         /\ stream'.cur = stream.cur /\ stream'.queue = stream.queue
         /\ stream'.dec = stream.dec /\ stream'.sample = stream.sample
<1>1. stream \in Streams
  BY DEF StreamFine, Typed
<1>2. stream' \in Streams
  BY <1>1 DEF Streams
<1>3. /\ stream'.cur = stream.cur /\ stream'.queue = stream.queue
      /\ stream'.dec = stream.dec /\ stream'.sub = stream.sub
      /\ stream'.tags = stream.tags /\ stream'.lastQ = stream.lastQ
      /\ stream'.sample = stream.sample
  BY <1>1 DEF Streams
<1>4. stream'.should = e
  BY <1>1 DEF Streams
<1>5. Typed(stream')
  BY <1>2, <1>3 DEF StreamFine, Typed
<1>6. Chain(stream) => Chain(stream')
  BY <1>3 DEF Chain
<1>7. Full(stream) /\ Fed(stream) => Full(stream') /\ Fed(stream')
  BY <1>3 DEF Full, Fed, AtEnd
<1>8. Labelled(stream) => Labelled(stream')
  BY <1>3 DEF Labelled, Tagged, TagOf, Shown, Noted
<1> QED
  BY <1>3, <1>4, <1>5, <1>6, <1>7, <1>8 DEF StreamFine

(* mixer_SourcePlay                                                        *)
LEMMA SourcePlayFine ==
  ASSUME Phrase, StreamFine(stream), MixerFine, SourcePlay, clock' = clock,
         heard' = heard, NEW s, s \in Streams, s.cur = stream.cur,
         s.queue = stream.queue, s.dec = stream.dec
  PROVE  MixerFits(s, done', heard', device', clock')
<1>1. /\ Len(s.queue) \in Nat /\ (s.queue = <<>> <=> Len(s.queue) = 0)
      /\ done \in 0 .. Len(s.queue) /\ done \in Nat
  BY StreamParts DEF MixerFine
<1>2. done' = done \/ (done' = 0 /\ done = Len(s.queue))
  BY DEF SourcePlay
<1>3. ASSUME scroll = "PC", s.cur # 0 PROVE HeardUpTo(s, done', heard)
  <2>1. /\ heard[1] \in 1 .. Len(chunks) /\ heard[2] \in Nat
        /\ SoundAt(heard) + (Len(s.queue) - done) >= Pos(s.dec)
        /\ (done > 0 \/ s.queue = <<>> =>
              SoundAt(heard) + (Len(s.queue) - done) = Pos(s.dec))
    BY <1>3 DEF MixerFine, HeardUpTo, Pos
  <2>2. SoundAt(heard) \in Nat
    BY <2>1, ChunkParts DEF SoundAt
  <2>3. Pos(s.dec) \in Nat
    <3>1. s.dec.c = s.cur
      BY <1>3 DEF StreamFine, Chain
    <3>2. s.dec.c \in 1 .. Len(chunks) /\ s.dec.p \in Nat
      BY <1>3, <3>1, StreamParts DEF Phrase
    <3> QED
      BY <3>2, ChunkParts DEF Pos
  <2> QED
    BY <1>1, <1>2, <2>1, <2>2, <2>3 DEF HeardUpTo
<1> QED
  BY <1>1, <1>2, <1>3 DEF MixerFits, MixerFine, SourcePlay

LEMMA PauseFine ==
  ASSUME TrackInv, Pause \/ Resume
  PROVE  TrackInv'
<1>1. /\ chunks' = chunks /\ noBreak' = noBreak /\ scroll' = scroll
      /\ counted' = counted /\ counted = FALSE /\ mode' \in {"paused", "talking"}
      /\ waitTrack' = waitTrack /\ rewind' = rewind /\ seeking' = seeking
      /\ clock' = clock /\ heard' = heard /\ mode \in {"paused", "talking"}
  BY DEF Pause, Resume, Pressed, MutexFree, listVars, TrackInv, InStep
<1>2. /\ Phrase /\ StreamFine(stream) /\ MixerFine /\ InStep /\ Keyed
      /\ chunks # <<>> /\ ~noBreak /\ stream \in Streams
  BY <1>1 DEF TrackInv, InStep, StreamFine, Typed
<1>3. /\ StreamFine(stream')
      /\ MixerFits(stream', done', heard', device', clock')
      /\ mode' = "paused" => stream'.should = FALSE /\ device' = "paused"
  <2>1. CASE Pause
    <3>1. /\ stream' = [stream EXCEPT !.should = FALSE] /\ device' = "paused"
          /\ done' = done
      BY <2>1 DEF Pause, PausedStream
    <3>2. /\ StreamFine(stream') /\ stream'.should = FALSE
          /\ stream'.cur = stream.cur /\ stream'.queue = stream.queue
          /\ stream'.dec = stream.dec
      BY <1>2, <3>1, SwitchFine
    <3> QED
      BY <1>1, <1>2, <3>1, <3>2 DEF MixerFine, MixerFits, HeardUpTo
  <2>2. CASE Resume /\ stream.cur # 0 /\ device = "paused"
    <3>1. stream' = [stream EXCEPT !.should = TRUE] /\ SourcePlay /\ mode' = "talking"
      BY <2>2 DEF Resume
    <3>2. /\ StreamFine(stream')
          /\ stream'.cur = stream.cur /\ stream'.queue = stream.queue
          /\ stream'.dec = stream.dec
      BY <1>2, <2>2, <3>1, SwitchFine
    <3>3. stream' \in Streams
      BY <3>2 DEF StreamFine, Typed
    <3> QED
      BY <1>1, <1>2, <3>1, <3>2, <3>3, SourcePlayFine
  <2>3. CASE Resume /\ ~(stream.cur # 0 /\ device = "paused")
    <3>1. /\ stream' = stream /\ done' = done /\ device' = device
          /\ mode' = "talking"
      BY <2>3 DEF Resume
    <3> QED
      BY <1>1, <1>2, <3>1, SameFine
  <2> QED
    BY <2>1, <2>2, <2>3
<1>4. Phrase' /\ StreamFine(stream)' /\ MixerFine'
  BY <1>1, <1>2, <1>3, CarriedOver
<1>5. InStep'
  BY <1>1, <1>2, <1>3 DEF InStep
<1>6. Keyed'
  <2>1. keys' = keys \/ (keys < MaxKeys /\ keys' = keys + 1)
    BY DEF Pause, Resume, Pressed
  <2>2. keys' \in 0 .. MaxKeys
    BY <1>2, <2>1, TrackAssumption DEF Keyed
  <2> QED
    BY <1>1, <1>2, <2>2 DEF Keyed, ALL
<1> QED
  BY <1>4, <1>5, <1>6 DEF TrackInv

(* The step of the task that refills                                       *)
LEMMA RefillFine ==
  ASSUME TrackInv, Refill
  PROVE  TrackInv'
<1>1. /\ Attended /\ ~counted /\ done > 0 /\ done' = 0
      /\ chunks' = chunks /\ noBreak' = noBreak /\ scroll' = scroll
      /\ device' = device /\ clock' = clock /\ heard' = heard /\ counted' = counted
      /\ mode' = mode /\ waitTrack' = waitTrack /\ rewind' = rewind
      /\ seeking' = seeking /\ keys' = keys
  BY RefillIs DEF listVars, talkVars
<1>2. /\ Phrase /\ StreamFine(stream) /\ MixerFine /\ InStep /\ Keyed
      /\ stream \in Streams /\ Len(stream.queue) \in Nat
      /\ done \in Nat /\ done <= Len(stream.queue) /\ mode # "paused"
      /\ mode # "splicing"
  <2>1. stream \in Streams
    BY DEF TrackInv, StreamFine, Typed
  <2>2. Len(stream.queue) \in Nat
    BY <2>1, StreamParts
  <2>3. mode # "paused" /\ mode # "splicing"
    BY <1>1 DEF TrackInv, InStep, Attended, Silent
  <2> QED
    BY <2>1, <2>2, <2>3 DEF TrackInv, MixerFine
<1> DEFINE at == SoundAt(heard)
           t0 == [s |-> stream, failed |-> FALSE, b |-> 0]
<1>3. stream.should /\ stream.sample /\ stream.cur # 0
  BY <1>1, <1>2 DEF Attended, StreamFine
<1>4. ASSUME scroll = "PC"
      PROVE  /\ at \in Nat /\ Chain(stream)
             /\ at + (Len(stream.queue) - done) = Pos(stream.dec)
  <2>1. Chain(stream) /\ HeardUpTo(stream, done, heard)
    BY <1>2, <1>3, <1>4 DEF StreamFine, MixerFine
  <2>2. heard[1] \in 1 .. Len(chunks) /\ heard[2] \in Nat
    BY <2>1 DEF HeardUpTo
  <2>3. at \in Nat
    BY <1>2, <2>2, ChunkParts DEF SoundAt
  <2> QED
    BY <1>1, <2>1, <2>3 DEF HeardUpTo
<1>5. Refilling(t0, done, at)
  <2>1. t0.s = stream /\ t0.failed = FALSE
    OBVIOUS
  <2> HIDE DEF t0, at
  <2> QED
    BY <1>2, <1>3, <1>4, <2>1 DEF Refilling, StreamFine
<1>6. PICK t : stream' = t.s /\ Refilling(t, 0, at)
  <2> HIDE DEF at
  <2> QED
    BY <1>2, <1>5, RefillKeeps
<1>7. StreamFine(stream')
  BY <1>6 DEF Refilling, StreamFine
<1>8. stream'.should /\ stream'.sample /\ Len(stream'.queue) \in Nat
  BY <1>6, StreamParts DEF Refilling, Typed
<1>9. MixerFits(stream', done', heard', device', clock')
  <2>1. ASSUME scroll = "PC" PROVE HeardUpTo(stream', 0, heard)
    <3>1. at + (Len(stream'.queue) - 0) = Pos(stream'.dec)
      BY <1>6, <2>1 DEF Refilling
    <3>2. heard[1] \in 1 .. Len(chunks) /\ heard[2] \in Nat
      BY <1>2, <1>3, <2>1 DEF MixerFine, HeardUpTo
    <3>3. at + (Len(stream'.queue) - 0) >= Pos(stream'.dec)
      <4>1. at \in Nat
        BY <1>4, <2>1
      <4> HIDE DEF at
      <4> QED
        BY <1>8, <3>1, <4>1
    <3> QED
      BY <3>1, <3>2, <3>3 DEF HeardUpTo
  <2> QED
    BY <1>1, <1>2, <1>8, <2>1 DEF MixerFits, MixerFine
<1>10. Phrase' /\ StreamFine(stream)' /\ MixerFine'
  BY <1>1, <1>2, <1>7, <1>9, CarriedOver
<1>11. InStep'
  BY <1>1, <1>2 DEF InStep
<1>12. Keyed'
  BY <1>1, <1>2 DEF Keyed, ALL
<1> QED
  BY <1>10, <1>11, <1>12 DEF TrackInv

LEMMA TaskFine ==
  ASSUME TrackInv, CountNone \/ StreamEnds \/ Underrun \/ NothingToDo
  PROVE  TrackInv'
<1>1. /\ chunks' = chunks /\ noBreak' = noBreak /\ scroll' = scroll
      /\ mode' = mode /\ waitTrack' = waitTrack /\ rewind' = rewind
      /\ seeking' = seeking /\ keys' = keys /\ clock' = clock /\ heard' = heard
  BY DEF CountNone, StreamEnds, Underrun, NothingToDo, listVars, talkVars, mixVars
<1>2. /\ Phrase /\ StreamFine(stream) /\ MixerFine /\ InStep /\ Keyed
      /\ stream \in Streams
  BY DEF TrackInv, StreamFine, Typed
<1>3. Attended
  BY <1>2 DEF CountNone, StreamEnds, Underrun, NothingToDo, InStep
<1>4. mode # "splicing" /\ mode # "paused"
  BY <1>2, <1>3 DEF InStep, Attended, Silent
<1>5. /\ StreamFine(stream')
      /\ MixerFits(stream', done', heard', device', clock')
      /\ counted' \in BOOLEAN /\ (counted' => stream' = stream)
  <2>1. CASE CountNone \/ NothingToDo
    <3>1. /\ stream' = stream /\ done' = done /\ device' = device
          /\ counted' \in BOOLEAN
      BY <2>1 DEF CountNone, NothingToDo, mixVars
    <3> QED
      BY <1>1, <1>2, <3>1, SameFine
  <2>2. CASE Underrun
    <3>1. stream' = stream /\ counted' = FALSE /\ SourcePlay
      BY <2>2 DEF Underrun
    <3> QED
      BY <1>1, <1>2, <3>1, SourcePlayFine
  <2>3. CASE StreamEnds
    <3>1. /\ stream' = [stream EXCEPT !.should = FALSE, !.cur = 0, !.sub = 0]
          /\ counted' = FALSE /\ stream.queue = <<>>
          /\ done' = done /\ device' = device
      BY <2>3 DEF StreamEnds, Ended, mixVars
    <3>2. 0 \in 0 .. Len(chunks)
      BY <1>2 DEF Phrase
    <3>3. /\ stream'.queue = <<>> /\ stream'.dec = stream.dec /\ stream'.cur = 0
          /\ stream'.sample = stream.sample /\ stream'.should = FALSE
      BY <1>2, <3>1 DEF Streams
    <3>4. stream' \in Streams
      BY <1>2, <3>1, <3>2 DEF Streams
    <3>5. Typed(stream')
      BY <1>2, <3>1, <3>3, <3>4 DEF StreamFine, Typed
    <3>6. StreamFine(stream')
      BY <3>3, <3>5 DEF StreamFine
    <3> QED
      BY <1>1, <1>2, <3>1, <3>3, <3>6 DEF MixerFine, MixerFits
  <2> QED
    BY <2>1, <2>2, <2>3
<1>6. Phrase' /\ StreamFine(stream)' /\ MixerFine'
  BY <1>1, <1>2, <1>5, CarriedOver
<1>7. InStep'
  <2>1. counted' => Attended'
    BY <1>3, <1>5 DEF Attended
  <2>2. noBreak' \in BOOLEAN /\ ~noBreak' /\ chunks' # <<>>
    BY <1>1, <1>2, <1>4 DEF InStep
  <2>3. mode' \in {"talking", "segue", "ended"}
    BY <1>1, <1>2, <1>4 DEF InStep
  <2>4. counted' \in BOOLEAN
    BY <1>5
  <2>5. /\ mode' # "splicing" /\ mode' # "paused"
        /\ mode' \in {"splicing", "talking", "segue", "paused", "ended"}
    BY <2>3
  <2> QED
    BY <2>1, <2>2, <2>4, <2>5 DEF InStep
<1>8. Keyed'
  BY <1>1, <1>2 DEF Keyed, ALL
<1> QED
  BY <1>6, <1>7, <1>8 DEF TrackInv

LEMMA MixFine ==
  ASSUME TrackInv, Play \/ Silence
  PROVE  TrackInv'
<1>1. /\ chunks' = chunks /\ noBreak' = noBreak /\ scroll' = scroll
      /\ stream' = stream /\ counted' = counted /\ mode' = mode
      /\ waitTrack' = waitTrack /\ rewind' = rewind /\ seeking' = seeking
  BY DEF Play, Silence, listVars, talkVars
<1>2. /\ Phrase /\ StreamFine(stream) /\ MixerFine /\ InStep /\ Keyed
      /\ stream \in Streams
  BY DEF TrackInv, StreamFine, Typed
<1>3. /\ Len(stream.queue) \in Nat /\ stream.queue \in Seq(Entries)
      /\ done \in Nat /\ done <= Len(stream.queue) /\ TracksLength \in Nat
      /\ clock \in 0 .. TracksLength + 1
  BY <1>2, StreamParts, Whole DEF MixerFine
<1>4. mode # "splicing" /\ (mode = "paused" => device' = "paused")
  BY <1>2 DEF Play, Silence, InStep
<1>5. clock' \in 0 .. TracksLength + 1
  <2>1. clock' = clock \/ (clock < TracksLength /\ clock' = clock + 1)
    BY DEF Play, Silence, Later
  <2> QED
    BY <1>3, <2>1
<1>6. MixerFits(stream', done', heard', device', clock')
  <2>1. CASE Play /\ done < Len(stream.queue)
    <3> DEFINE n == done + 1
               x == stream.queue[n]
    <3>1. /\ done' = n /\ heard' = <<x.c, x.p>>
          /\ device' \in {"stopped", "playing"}
      BY <2>1 DEF Play
    <3>2. n \in 1 .. Len(stream.queue) /\ n > 0 /\ x \in Entries
      BY <1>3, <2>1
    <3>3. x.c \in 1 .. Len(chunks) /\ x.p \in Nat /\ Pos(x) \in Nat
      BY <1>2, <3>2, EntryParts
    <3>4. ASSUME scroll = "PC", stream.cur # 0
          PROVE  HeardUpTo(stream, n, heard')
      <4>1. Pos(x) + (Len(stream.queue) - n) = Pos(stream.dec)
        BY <1>2, <3>2, <3>4 DEF StreamFine, Chain
      <4>2. SoundAt(heard') = Pos(x) /\ heard'[1] = x.c /\ heard'[2] = x.p
        BY <3>1, <3>3 DEF SoundAt, Pos
      <4>3. Pos(x) + (Len(stream.queue) - n) >= Pos(stream.dec)
        <5> HIDE DEF x, n
        <5> QED
          BY <1>3, <3>2, <3>3, <4>1
      <4> HIDE DEF x, n
      <4> QED
        BY <3>3, <4>1, <4>2, <4>3 DEF HeardUpTo
    <3> HIDE DEF x
    <3> QED
      BY <1>1, <1>3, <1>5, <3>1, <3>2, <3>4 DEF MixerFits
  <2>2. CASE ~(Play /\ done < Len(stream.queue))
    <3>1. /\ done' = done /\ heard' = heard
          /\ device' \in {device, "stopped", "playing"}
      BY <2>2 DEF Play, Silence
    <3> QED
      BY <1>1, <1>2, <1>5, <3>1 DEF MixerFits, MixerFine
  <2> QED
    BY <2>1, <2>2
<1>7. Phrase' /\ StreamFine(stream)' /\ MixerFine'
  BY <1>1, <1>2, <1>6, CarriedOver
<1>8. InStep'
  BY <1>1, <1>2, <1>4 DEF InStep, Attended
<1>9. Keyed'
  <2>1. keys' = keys \/ (keys < MaxKeys /\ keys' = keys + 1)
    BY DEF Play, Silence, talkVars
  <2>2. keys' \in 0 .. MaxKeys
    BY <1>2, <2>1, TrackAssumption DEF Keyed
  <2> QED
    BY <1>1, <1>2, <2>2 DEF Keyed, ALL
<1> QED
  BY <1>7, <1>8, <1>9 DEF TrackInv

-----------------------------------------------------------------------------
(* The invariant holds at first and is kept by every step.                 *)
LEMMA TrackInit ==
  ASSUME InitTrack
  PROVE  TrackInv
<1> USE DEF InitTrack
<1>0. /\ MaxChunks \in Nat \ {0} /\ NumBuffers \in Nat \ {0} /\ MaxKeys \in Nat
      /\ Len(chunks) = 0 /\ chunks = <<>>
  BY TrackAssumption
<1>1. Phrase
  BY <1>0 DEF Phrase, Chunks
<1>2. stream.dec \in StreamPlaces
  BY <1>0 DEF Silent, StreamPlaces
<1>3. stream.tags \in [Buffers -> 0 .. Len(chunks)]
  BY <1>0 DEF Silent
<1>4. stream \in Streams
  BY <1>0, <1>2, <1>3 DEF Silent, Streams, Buffers
<1>5. /\ stream.cur = 0 /\ stream.queue = <<>> /\ stream.should = FALSE
      /\ stream.sample = FALSE /\ stream.dec.c = 0
  BY DEF Silent
<1>6. StreamFine(stream)
  BY <1>4, <1>5 DEF StreamFine, Typed, Distinct
<1>7. MixerFine
  <2>1. Len(stream.queue) = 0 /\ TracksLength = 0
    BY <1>0, <1>5 DEF TracksLength
  <2> QED
    BY <1>5, <2>1 DEF MixerFine
<1>8. InStep
  BY DEF InStep
<1>9. Keyed
  <2>1. 0 \in 0 .. ALL /\ 0 \in 0 .. MaxKeys
    BY <1>0 DEF ALL
  <2> QED
    BY <2>1 DEF Keyed
<1> QED
  BY <1>1, <1>6, <1>7, <1>8, <1>9 DEF TrackInv

LEMMA TrackStutters ==
  ASSUME TrackInv, UNCHANGED trackVars
  PROVE  TrackInv'
<1>1. /\ chunks' = chunks /\ noBreak' = noBreak /\ scroll' = scroll
      /\ stream' = stream /\ done' = done /\ device' = device /\ clock' = clock
      /\ counted' = counted /\ heard' = heard /\ mode' = mode
      /\ waitTrack' = waitTrack /\ rewind' = rewind /\ seeking' = seeking
      /\ keys' = keys
  BY DEF trackVars, listVars, mixVars, talkVars
<1>2. Phrase' /\ StreamFine(stream)' /\ MixerFine'
  BY <1>1, SameFine, CarriedOver DEF TrackInv
<1>3. InStep' /\ Keyed'
  BY <1>1 DEF TrackInv, InStep, Attended, Keyed, ALL
<1> QED
  BY <1>2, <1>3 DEF TrackInv

LEMMA TrackStep ==
  ASSUME TrackInv, [NextTrack]_trackVars
  PROVE  TrackInv'
BY SpliceFine, FrameFine, PauseFine, StopFine, RefillFine, TaskFine, MixFine,
   TrackStutters DEF NextTrack, Frame

(* What the sound of a phrase is made of fits together in every state: the *)
(* list of chunks has no gap, the queue holds what was decoded last, and   *)
(* what was heard ends where it begins.                                    *)
THEOREM TrackInvariant == TrackSpec => []TrackInv
BY TrackInit, TrackStep, PTL DEF TrackSpec

(* The chunks and the sample are there while the task reads them, and      *)
(* every field is in its range (trackplayer.c, stream.c).                  *)
THEOREM ReadsSafely == TrackSpec => []ReadSafely
<1>1. ASSUME TrackInv PROVE ReadSafely
  <2>1. /\ Phrase /\ Typed(stream) /\ MixerFine /\ InStep /\ Keyed
        /\ stream \in Streams
    BY <1>1 DEF TrackInv, StreamFine, Typed
  <2>2. /\ stream.cur \in 0 .. Len(chunks) /\ stream.sub \in 0 .. Len(chunks)
        /\ stream.queue \in Seq(Entries) /\ DOMAIN stream.queue = 1 .. Len(stream.queue)
        /\ stream.tags \in [Buffers -> 0 .. Len(chunks)]
        /\ stream.dec.c \in 0 .. Len(chunks)
    BY <2>1, StreamParts
  <2>3. \A i \in DOMAIN stream.queue :
          stream.queue[i].p \in 1 .. chunks[stream.queue[i].c].len
    <3> SUFFICES ASSUME NEW i \in 1 .. Len(stream.queue)
                 PROVE  stream.queue[i].p \in 1 .. chunks[stream.queue[i].c].len
      BY <2>2
    <3>1. stream.queue[i] \in Entries
      BY <2>2
    <3> QED
      BY <2>1, <3>1, EntryParts
  <2>4. chunks \in Seq([tag : BOOLEAN, start : Nat, len : Lens,
                        track : 1 .. MaxChunks]) /\ Len(chunks) <= MaxChunks
    BY <2>1 DEF Phrase, Chunks
  <2>5. \A i, j \in DOMAIN stream.queue :
          stream.queue[i].b = stream.queue[j].b => i = j
    BY <2>1, <2>2 DEF Typed, Distinct
  <2>6. TrackTypeOK
    BY <2>1, <2>2, <2>3, <2>4, <2>5 DEF TrackTypeOK, Typed, MixerFine, InStep, Keyed
  <2>7. KeptWhileRead
    BY <2>1, <2>2 DEF KeptWhileRead, InStep, Attended, Typed
  <2> QED
    BY <2>6, <2>7 DEF ReadSafely
<1> QED
  BY <1>1, TrackInvariant, PTL

(* With two buffers or more the subtitle is the page of the sound that is  *)
(* played (OnChunkEnd tags the last buffer of the page before it).         *)
THEOREM SubtitleFollowsSound ==
  NumBuffers >= 2 => (TrackSpec => []SubtitleInStep)
<1> SUFFICES ASSUME NumBuffers >= 2 PROVE TrackSpec => []SubtitleInStep
  OBVIOUS
<1>1. ASSUME TrackInv PROVE SubtitleInStep
  <2> SUFFICES ASSUME scroll = "PC", NoEmptyPage, Attended, stream.queue # <<>>
               PROVE  stream.sub = PageOf(Head(stream.queue).c)
    BY DEF SubtitleInStep
  <2>1. StreamFine(stream) /\ stream \in Streams
    BY <1>1 DEF TrackInv, StreamFine, Typed
  <2>2. Shown(stream)
    BY <2>1 DEF StreamFine, Attended, Labelled
  <2>3. Head(stream.queue) = stream.queue[1]
    BY <2>1, StreamParts
  <2> QED
    BY <2>2, <2>3 DEF Shown
<1> QED
  BY <1>1, TrackInvariant, PTL

(* No step skips a sound of the phrase, the task finds the stream ended    *)
(* only when all of it was heard, and a pause is silent.                   *)
THEOREM SoundStaysInOrder == TrackSpec => SoundInOrder
<1>1. ASSUME TrackInv, [NextTrack]_trackVars
      PROVE  [scroll = "PC" =>
                /\ done' = done + 1 => SoundAt(heard') <= SoundAt(heard) + 1
                /\ (counted /\ stream.should /\ ~stream'.should /\ NoEmptyPage
                      => SoundAt(heard) = TracksLength)]_trackVars
  <2> SUFFICES ASSUME NextTrack, scroll = "PC"
               PROVE  /\ done' = done + 1 => SoundAt(heard') <= SoundAt(heard) + 1
                      /\ (counted /\ stream.should /\ ~stream'.should /\ NoEmptyPage
                            => SoundAt(heard) = TracksLength)
    BY <1>1
  <2>1. /\ Phrase /\ StreamFine(stream) /\ MixerFine /\ InStep /\ stream \in Streams
        /\ NumBuffers \in Nat \ {0}
    BY <1>1, TrackAssumption DEF TrackInv, StreamFine, Typed
  <2>2. /\ Len(stream.queue) \in Nat /\ stream.queue \in Seq(Entries)
        /\ (stream.queue = <<>> <=> Len(stream.queue) = 0)
        /\ done \in Nat /\ done <= Len(stream.queue)
    BY <2>1, StreamParts DEF MixerFine
  <2>3. ASSUME stream.cur # 0
        PROVE  /\ Chain(stream) /\ SoundAt(heard) \in Nat /\ Pos(stream.dec) \in Nat
               /\ HeardUpTo(stream, done, heard)
    <3>1. Chain(stream) /\ HeardUpTo(stream, done, heard)
      BY <2>1, <2>3 DEF StreamFine, MixerFine
    <3>2. heard[1] \in 1 .. Len(chunks) /\ heard[2] \in Nat
      BY <3>1 DEF HeardUpTo
    <3>3. SoundAt(heard) \in Nat
      BY <2>1, <3>2, ChunkParts DEF SoundAt
    <3>4. stream.dec.c \in 1 .. Len(chunks) /\ stream.dec.p \in Nat
      BY <2>1, <2>3, <3>1, StreamParts DEF Chain, Phrase
    <3>5. Pos(stream.dec) \in Nat
      BY <2>1, <3>4, ChunkParts DEF Pos
    <3> QED
      BY <3>1, <3>3, <3>5
  <2>4. ASSUME done' = done + 1 PROVE SoundAt(heard') <= SoundAt(heard) + 1
    <3>1. Play /\ done < Len(stream.queue)
      <4>1. CASE Play
        BY <2>2, <2>4, <4>1 DEF Play
      <4>2. CASE ~Play
        <5>1. done' = done \/ done' = 0
          BY <4>2 DEF NextTrack, SpliceTrack, SpliceMultiTrack, Talk, Replay,
               FrameRight, FrameLeft, FrameCancel, FrameQuiet, Pause, Resume,
               StopTrack, Refill, CountNone, StreamEnds, Underrun, NothingToDo,
               Silence, mixVars, PlayTrack, PlayStream, FastForward_Page,
               FastReverse_Page, FastForward_Smooth, FastReverse_Smooth,
               ShowAndPlay, SeekEnd, SeekTo, StopStream, SourcePlay
        <5> QED
          BY <2>2, <2>4, <5>1
      <4> QED
        BY <4>1, <4>2
    <3> DEFINE n == done + 1
               x == stream.queue[n]
    <3>2. heard' = <<x.c, x.p>>
      BY <3>1 DEF Play
    <3>3. n \in 1 .. Len(stream.queue) /\ x \in Entries /\ stream.cur # 0
      BY <2>1, <2>2, <3>1 DEF StreamFine
    <3>4. x.c \in 1 .. Len(chunks) /\ x.p \in Nat /\ Pos(x) \in Nat
      BY <2>1, <3>3, EntryParts
    <3>5. SoundAt(heard') = Pos(x)
      BY <3>2, <3>4 DEF SoundAt, Pos
    <3>6. Pos(x) + (Len(stream.queue) - n) = Pos(stream.dec)
      BY <2>3, <3>3 DEF Chain
    <3>7. SoundAt(heard) + (Len(stream.queue) - done) >= Pos(stream.dec)
      BY <2>3, <3>3 DEF HeardUpTo
    <3>8. SoundAt(heard) \in Nat /\ Pos(stream.dec) \in Nat
      BY <2>3, <3>3
    <3> HIDE DEF x
    <3> QED
      BY <2>2, <3>4, <3>5, <3>6, <3>7, <3>8
  <2>5. ASSUME counted, stream.should, ~stream'.should, NoEmptyPage
        PROVE  SoundAt(heard) = TracksLength
    <3>1. StreamEnds
      <4>1. stream' # stream
        BY <2>5
      <4> QED
        BY <2>1, <2>5, <4>1 DEF NextTrack, SpliceTrack, SpliceMultiTrack, Talk, Replay,
             FrameRight, FrameLeft, FrameCancel, FrameQuiet, Pause, Resume, Pressed,
             MutexFree, StopTrack, Refill, CountNone, Underrun, NothingToDo, Play,
             Silence, InStep
    <3>2. stream.queue = <<>> /\ stream.dec.eof
      BY <3>1 DEF StreamEnds, Ended
    <3>3. stream.cur # 0
      BY <2>1, <2>5 DEF StreamFine
    <3>4. stream.cur = Len(chunks)
      <4>1. Full(stream)
        BY <2>1, <2>5, <3>3 DEF StreamFine
      <4> QED
        BY <2>1, <2>2, <3>2, <4>1 DEF Full, AtEnd
    <3>5. chunks # <<>> /\ Len(chunks) \in 1 .. Len(chunks)
      BY <2>1, <3>3, <3>4 DEF Phrase
    <3>6. /\ Pos(stream.dec) = End(Len(chunks)) /\ TracksLength = End(Len(chunks))
          /\ stream.dec.c = Len(chunks)
      <4>1. stream.dec.c = stream.cur /\ stream.dec.p = chunks[stream.cur].len
        BY <2>3, <3>2, <3>3 DEF Chain
      <4> QED
        BY <2>1, <3>4, <3>5, <4>1, ChunkParts DEF Pos, TracksLength
    <3>7. SoundAt(heard) + (Len(stream.queue) - done) = Pos(stream.dec)
      BY <2>3, <3>2, <3>3 DEF HeardUpTo
    <3>8. SoundAt(heard) \in Nat /\ Len(stream.queue) = 0 /\ done = 0
      BY <2>2, <2>3, <3>2, <3>3
    <3> QED
      BY <3>6, <3>7, <3>8
  <2> QED
    BY <2>4, <2>5
<1>2. ASSUME TrackInv, [NextTrack]_trackVars
      PROVE  [mode = "paused" => heard' = heard]_trackVars
  <2> SUFFICES ASSUME NextTrack, mode = "paused" PROVE heard' = heard
    BY <1>2
  <2>1. device = "paused"
    BY <1>2 DEF TrackInv, InStep
  <2> QED
    BY <2>1 DEF NextTrack, SpliceTrack, SpliceMultiTrack, Talk, Replay,
         FrameRight, FrameLeft, FrameCancel, FrameQuiet, Pause, Resume, Pressed,
         StopTrack, Refill, CountNone, StreamEnds, Underrun, NothingToDo, Play,
         Silence, mixVars
<1> QED
  BY <1>1, <1>2, TrackInvariant, PTL DEF TrackSpec, SoundInOrder, NothingSkipped, PausedIsSilent

=============================================================================
