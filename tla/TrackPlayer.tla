------------------------------ MODULE TrackPlayer ------------------------------
(***************************************************************************)
(* The speech of a conversation: the list of chunks that trackplayer.c     *)
(* splices, the one sample it plays by changing its decoder while it       *)
(* plays, the stream decoder task that refills the buffers of that sample  *)
(* (stream.c), the mixer that plays them (mixer.c), and the loop of        *)
(* DoTalkSegue (comm.c) that waits for the speech and seeks in it.         *)
(*                                                                         *)
(* Three threads: DoInput, the task, the mixer.  The first two exclude     *)
(* each other by stream_mutex; the mixer runs between any two steps.       *)
(* Time is counted in buffers: a chunk is as long as the buffers it fills. *)
(***************************************************************************)
EXTENDS Integers, Sequences, SequencesExt, FiniteSetsExt

CONSTANTS
  NumBuffers,   \* buffers of the sample, 8 in SpliceTrack
  Lens,         \* lengths of a page, 0 when its time is past the voice's end
  MaxChunks,    \* bound: chunks of a phrase
  Accel,        \* ACCEL_SCROLL_SPEED
  Scrolls,      \* the values of optSmoothScroll, of {"PC", "3DO"}
  MaxKeys       \* bound: keys and pauses between two responses

ASSUME TrackAssumption ==
  /\ NumBuffers \in Nat \ {0} /\ MaxChunks \in Nat \ {0}
  /\ Lens \subseteq Nat /\ 1 \in Lens
  /\ Accel \in Nat \ {0} /\ MaxKeys \in Nat
  /\ Scrolls \subseteq {"PC", "3DO"}

VARIABLES
  chunks,     \* the list from chunks_head: records [tag, start, len, track]
  noBreak,    \* no_page_break
  stream,     \* what stream_mutex guards, see Silent
  done,       \* buffers of stream.queue the mixer has played
  device,     \* state of the mixer's source
  clock,      \* now - start_time, up to the end of the tracks
  counted,    \* the task has found no processed buffer and holds the mutex
  heard,      \* history: <<chunk, buffer>> played last
  scroll,     \* optSmoothScroll
  mode,       \* where DoInput is
  waitTrack, rewind, seeking,    \* of TALKING_STATE
  keys        \* bound: keys and pauses so far

talkVars == <<mode, waitTrack, rewind, seeking, keys>>
listVars == <<chunks, noBreak, scroll>>
mixVars == <<done, device, clock, heard>>
trackVars == <<listVars, stream, mixVars, counted, talkVars>>

-----------------------------------------------------------------------------
Buffers == 1 .. NumBuffers
ALL == MaxChunks + 1               \* WAIT_TRACK_ALL

Start(c) == chunks[c].start
EndOf(chunk) == chunk.start + chunk.len      \* chunk_end_time
End(c) == EndOf(chunks[c])
TracksLength == IF chunks = <<>> THEN 0 ELSE End(Len(chunks))
TrackCount == IF chunks = <<>> THEN 0 ELSE Last(chunks).track

(* Nothing plays: StopStream and NULL for the chunks.                      *)
Silent == [cur |-> 0, sub |-> 0, dec |-> [c |-> 0, p |-> 0, eof |-> FALSE],
           queue |-> <<>>, tags |-> [b \in Buffers |-> 0], lastQ |-> 0,
           sample |-> FALSE, should |-> FALSE]

TrackTypeOK ==
  /\ chunks \in Seq([tag : BOOLEAN, start : Nat, len : Lens,
                     track : 1 .. MaxChunks])
  /\ Len(chunks) <= MaxChunks
  /\ stream.cur \in 0 .. Len(chunks) /\ stream.sub \in 0 .. Len(chunks)
  /\ \A i, j \in DOMAIN stream.queue :
       stream.queue[i].b = stream.queue[j].b => i = j
  /\ \A i \in DOMAIN stream.queue :
       stream.queue[i].p \in 1 .. chunks[stream.queue[i].c].len
  /\ \A b \in Buffers : stream.tags[b] \in 0 .. Len(chunks)
  /\ stream.sample /\ stream.should => stream.dec.c # 0
  /\ done \in 0 .. Len(stream.queue)
  /\ clock \in 0 .. TracksLength + 1
  /\ device \in {"initial", "stopped", "playing", "paused"}
  /\ mode \in {"splicing", "talking", "segue", "paused", "ended"}
  /\ noBreak \in BOOLEAN /\ counted \in BOOLEAN
  /\ waitTrack \in 0 .. ALL /\ rewind \in BOOLEAN /\ seeking \in BOOLEAN
  /\ keys \in 0 .. MaxKeys

InitTrack ==
  /\ chunks = <<>> /\ noBreak = FALSE /\ scroll \in Scrolls
  /\ stream = Silent /\ done = 0 /\ device = "initial" /\ clock = 0
  /\ counted = FALSE /\ heard = <<0, 0>>
  /\ mode = "splicing" /\ waitTrack = 0
  /\ rewind = FALSE /\ seeking = FALSE /\ keys = 0

-----------------------------------------------------------------------------
(* The list of chunks.  A conversation splices before it talks, and what   *)
(* it splices last is a SpliceTrack (no caller ends in an NPCNumber).      *)

Chunk(tag, start, len, track) ==
  [tag |-> tag, start |-> start, len |-> len, track |-> track]

(* SpliceTrack with a name: pages of one voice; the first is not empty.    *)
(* After a SpliceMultiTrack the first page goes on the last one.           *)
SpliceTrack ==
  /\ mode = "splicing"
  /\ \E first \in Lens \ {0}, rest \in {<<>>} \cup {<<l>> : l \in Lens} :
       LET track == TrackCount + IF noBreak /\ TrackCount > 0 THEN 0 ELSE 1
           pages == <<first>> \o rest
       IN  /\ Len(chunks) + Len(pages) <= MaxChunks
           /\ chunks' = chunks \o [i \in DOMAIN pages |->
                 Chunk(i > 1 \/ ~noBreak,
                       TracksLength + IF i > 1 THEN first ELSE 0,
                       pages[i], track)]
  /\ noBreak' = FALSE
  /\ UNCHANGED <<scroll, stream, mixVars, counted, talkVars>>

(* SpliceMultiTrack: numbers, each decoded into one buffer beforehand.     *)
SpliceMultiTrack ==
  /\ mode = "splicing" /\ chunks # <<>> /\ Len(chunks) < MaxChunks - 1
  /\ chunks' = Append(chunks, Chunk(FALSE, TracksLength, 1, TrackCount))
  /\ noBreak' = TRUE
  /\ UNCHANGED <<scroll, stream, mixVars, counted, talkVars>>

(* find_next_page, find_prev_page                                          *)
NextPage(c) ==
  LET later == {d \in c + 1 .. Len(chunks) : chunks[d].tag}
  IN  IF c = 0 \/ later = {} THEN 0 ELSE Min(later)
PrevPage(c) ==
  LET before == {d \in 1 .. (IF c = 0 THEN Len(chunks) ELSE c - 1) :
                   chunks[d].tag}
  IN  IF before = {} THEN 1 ELSE Max(before)

-----------------------------------------------------------------------------
(* The callbacks and the decoder, on the record s of the stream.           *)

Rewound(c) == [c |-> c, p |-> 0, eof |-> FALSE]

(* Faulty: goes to the next page.                                          *)
ChunkEndByPage(s, b) ==
  LET next == NextPage(s.cur)
  IN  IF s.cur = 0 \/ next = 0 THEN s
      ELSE [s EXCEPT !.cur = next, !.dec = Rewound(next),
              !.tags = IF b \in Buffers THEN [@ EXCEPT ![b] = next] ELSE @]

(* OnChunkEnd, for the buffer that was queued last; stays when refused.    *)
ChunkEnd(s, b) ==
  IF s.cur \in {0, Len(chunks)} THEN s
  ELSE [s EXCEPT !.cur = @ + 1, !.dec = Rewound(s.cur + 1),
          !.tags = IF chunks[s.cur + 1].tag /\ b \in Buffers
                   THEN [@ EXCEPT ![b] = s.cur + 1] ELSE @]

(* Faulty: reads on after end_sample, up to the end of the voice.          *)
DecodedPastEnd(s, b) ==
  LET len == chunks[s.dec.c].len
  IN  IF s.dec.p > len THEN [s EXCEPT !.dec.eof = TRUE]
      ELSE [s EXCEPT !.dec.p = @ + 1, !.dec.eof = (s.dec.p >= len),
              !.queue = Append(@, [b |-> b, c |-> s.dec.c, p |-> s.dec.p + 1])]

(* SoundDecoder_Decode, and the buffer queued unless nothing was decoded.  *)
Decoded(s, b) ==
  LET len == chunks[s.dec.c].len
  IN  IF s.dec.p >= len THEN [s EXCEPT !.dec.eof = TRUE]
      ELSE [s EXCEPT !.dec.p = @ + 1, !.dec.eof = (s.dec.p + 1 >= len),
              !.queue = Append(@, [b |-> b, c |-> s.dec.c, p |-> s.dec.p + 1])]

(* The loop of PlayStream over the buffers: it ends where nothing is       *)
(* decoded or no chunk follows.  Loops give sets of one, so that each turn *)
(* is computed once.                                                       *)
FillNext(t, b) ==
  LET d == Decoded(t.s, b)
      e == IF d.dec.eof THEN ChunkEnd(d, b) ELSE d
  IN  IF Len(d.queue) = Len(t.s.queue) THEN [s |-> d, go |-> FALSE]
      ELSE [s |-> e, go |-> ~e.dec.eof]

Filled(s) ==
  LET filled[b \in 0 .. NumBuffers] ==
        IF b = 0 THEN {[s |-> s, go |-> TRUE]}
        ELSE {IF t.go THEN FillNext(t, b) ELSE t : t \in filled[b - 1]}
  IN  {t.s : t \in filled[NumBuffers]}

(* StopStream: the queue is emptied, the tags and lastQ stay.              *)
Stopped(s) == [s EXCEPT !.queue = <<>>, !.sample = FALSE, !.should = FALSE]

StopStream(s) ==
  /\ stream' = Stopped(s)
  /\ done' = 0 /\ device' = "initial"

(* PlayStream with OnStreamStart; `from` is where the decoder stands.      *)
PlayStream(s, from) ==
  LET c == s.cur
      t == [Stopped(s) EXCEPT !.dec = [c |-> c, p |-> from, eof |-> FALSE],
              !.sub = IF chunks[c].tag THEN c ELSE @,
              !.tags = [b \in Buffers |-> 0],
              !.sample = TRUE, !.should = TRUE]
  IN  /\ stream' \in Filled(t)
      /\ done' = 0 /\ device' = "playing"
      /\ clock' = Start(c) + from
      /\ heard' = <<c, from>>

-----------------------------------------------------------------------------
(* The task.  One pass of StreamDecoderTaskFunc over the speech source.    *)

Attended == stream.sample /\ stream.should

(* Faulty: the tag is not cleared (TFB_ClearBufferTag).                    *)
UnqueuedKeepsTag(t) ==
  LET tag == t.s.tags[Head(t.s.queue).b]
  IN  [failed |-> t.failed, b |-> Head(t.s.queue).b,
       s |-> [t.s EXCEPT !.queue = Tail(@), !.sub = IF tag # 0 THEN tag ELSE @]]

(* The body of the loop of process_stream for the first processed buffer b *)
(* of t.s: it is unqueued and its tag acted on; at the end of a chunk the  *)
(* next one is taken, once; it is filled and queued again - or lost, when  *)
(* nothing was decoded.                                                    *)
Unqueued(t) ==
  LET b == Head(t.s.queue).b
      tag == t.s.tags[b]
  IN  [failed |-> t.failed, b |-> b,
       s |-> [t.s EXCEPT !.queue = Tail(@), !.tags[b] = 0,
                !.sub = IF tag # 0 THEN tag ELSE @]]

ChunkDone(t) ==
  IF t.s.dec.eof /\ ~t.failed
  THEN [t EXCEPT !.s = ChunkEnd(t.s, t.s.lastQ)] ELSE t

(* Faulty: the buffer queued last is not remembered.                       *)
RequeuedUnnoted(t) ==
  IF t.s.dec.eof THEN [t EXCEPT !.failed = TRUE]
  ELSE [t EXCEPT !.s = Decoded(t.s, t.b)]

Requeued(t) ==
  IF t.s.dec.eof THEN [t EXCEPT !.failed = TRUE]
  ELSE LET d == Decoded(t.s, t.b)
       IN  IF Len(d.queue) = Len(t.s.queue) THEN [t EXCEPT !.s = d]
           ELSE [t EXCEPT !.s = [d EXCEPT !.lastQ = t.b]]

Refill ==
  /\ Attended /\ ~counted /\ done > 0
  /\ LET refilled[i \in 0 .. done] ==
           IF i = 0 THEN {[s |-> stream, failed |-> FALSE, b |-> 0]}
           ELSE {Requeued(e) : e \in {ChunkDone(u) : u \in
                   {Unqueued(t) : t \in refilled[i - 1]}}}
     IN  stream' \in {t.s : t \in refilled[done]}
  /\ done' = 0
  /\ UNCHANGED <<listVars, device, clock, heard, counted, talkVars>>

(* BUFFERS_PROCESSED was 0; the state of the source is read after it.      *)
CountNone ==
  /\ Attended /\ ~counted /\ done = 0
  /\ counted' = TRUE
  /\ UNCHANGED <<listVars, stream, mixVars, talkVars>>

(* mixer_SourcePlay: buffers all played are played again.                  *)
SourcePlay ==
  /\ done' = IF device # "paused" /\ done = Len(stream.queue) THEN 0 ELSE done
  /\ device' = "playing"

(* The end of the stream and OnStreamEnd, or an underrun.                  *)
Ended == stream.queue = <<>> /\ stream.dec.eof

(* Faulty: without OnStreamEnd.                                            *)
StreamEndsQuietly ==
  /\ counted /\ device # "playing" /\ Ended
  /\ stream' = [stream EXCEPT !.should = FALSE]
  /\ counted' = FALSE
  /\ UNCHANGED <<listVars, mixVars, talkVars>>

StreamEnds ==
  /\ counted /\ device # "playing" /\ Ended
  /\ stream' = [stream EXCEPT !.should = FALSE, !.cur = 0, !.sub = 0]
  /\ counted' = FALSE
  /\ UNCHANGED <<listVars, mixVars, talkVars>>

Underrun ==
  /\ counted /\ device # "playing" /\ ~Ended
  /\ SourcePlay
  /\ counted' = FALSE
  /\ UNCHANGED <<listVars, stream, clock, heard, talkVars>>

NothingToDo ==
  /\ counted /\ device = "playing"
  /\ counted' = FALSE
  /\ UNCHANGED <<listVars, stream, mixVars, talkVars>>

TaskStep == Refill \/ CountNone \/ StreamEnds \/ Underrun \/ NothingToDo

(* The mixer plays a buffer; without another one it stops.  To play one    *)
(* between two reads of the task is rare: it counts as a key.              *)
Later == IF clock < TracksLength THEN clock + 1 ELSE clock

Play ==
  /\ device = "playing"
  /\ IF counted THEN keys < MaxKeys /\ keys' = keys + 1 ELSE UNCHANGED keys
  /\ IF done < Len(stream.queue)
     THEN /\ done' = done + 1 /\ clock' = Later
          /\ heard' = <<stream.queue[done + 1].c, stream.queue[done + 1].p>>
     ELSE UNCHANGED <<done, clock, heard>>
  /\ device' = IF done + 1 >= Len(stream.queue) THEN "stopped" ELSE "playing"
  /\ UNCHANGED <<listVars, stream, counted, mode, waitTrack, rewind, seeking>>

(* Time passes in silence.                                                 *)
Silence ==
  /\ mode \notin {"splicing", "paused"}
  /\ device \in {"stopped", "initial"} /\ clock < TracksLength
  /\ clock' = clock + 1
  /\ UNCHANGED <<listVars, stream, done, device, heard, counted, talkVars>>

-----------------------------------------------------------------------------
(* DoInput.  MutexFree: LockMutex (stream_mutex) returns.                  *)

(* Faulty: no mutex is taken.                                              *)
MutexIgnored == TRUE

MutexFree == ~counted

PlayTrack == PlayStream([stream EXCEPT !.cur = 1], 0)

(* seek_track past the end of the tracks, and to a place before it.        *)
SeekEnd ==
  /\ StopStream([stream EXCEPT !.cur = 0, !.sub = 0])
  /\ clock' = TracksLength + 1
  /\ UNCHANGED heard

ChunkAt(offset) == Min({c \in DOMAIN chunks : offset < End(c)})

Sought(offset) ==
  LET c == ChunkAt(offset)
      shown == {d \in 1 .. c : chunks[d].tag}
  IN  [stream EXCEPT !.cur = c,
         !.dec = [c |-> c, p |-> offset - Start(c), eof |-> FALSE],
         !.sub = IF shown = {} THEN @ ELSE Max(shown)]

SeekTo(offset) ==
  /\ stream' = Sought(offset)
  /\ clock' = offset
  /\ UNCHANGED <<done, device, heard>>

(* get_current_track_pos; Max and Min of an offset as in seek_track        *)
TrackPos == IF clock > TracksLength THEN TracksLength ELSE clock

FastForward_Smooth ==
  LET offset == TrackPos + Accel
  IN  IF offset < TracksLength THEN SeekTo(offset) ELSE SeekEnd

FastReverse_Smooth ==
  LET offset == IF TrackPos < Accel THEN 0 ELSE TrackPos - Accel
  IN  IF stream.should THEN SeekTo(offset)
      ELSE PlayStream(Sought(offset), offset - Start(ChunkAt(offset)))

ShowAndPlay(page) == PlayStream([stream EXCEPT !.cur = page, !.sub = page], 0)

FastForward_Page ==
  LET next == NextPage(stream.sub)
  IN  IF next # 0 THEN ShowAndPlay(next) ELSE SeekEnd

FastReverse_Page ==
  ShowAndPlay(IF stream.sub = 1 THEN 1 ELSE PrevPage(stream.sub))

(* TalkSegue (wait): the player is started unless it plays.                *)
Talk ==
  /\ mode \in {"splicing", "segue"} /\ chunks # <<>> /\ ~noBreak /\ MutexFree
  /\ IF stream.cur = 0 THEN PlayTrack ELSE UNCHANGED <<stream, mixVars>>
  /\ mode' = "talking" /\ seeking' = FALSE /\ rewind' = FALSE
  /\ waitTrack' \in IF mode = "segue" THEN {ALL} ELSE {1, ALL}
  /\ UNCHANGED <<listVars, counted, keys>>

(* SelectReplay: TalkSegue (0)                                             *)
Replay ==
  /\ mode = "ended" /\ keys < MaxKeys
  /\ mode' = "talking" /\ waitTrack' = ALL
  /\ rewind' = TRUE /\ seeking' = FALSE /\ keys' = keys + 1
  /\ UNCHANGED <<listVars, stream, mixVars, counted>>

Pressed == mode = "talking" /\ MutexFree /\ keys < MaxKeys

(* Frames of DoTalkSegue: the right key, the left key or a rewind, the     *)
(* cancel key, and none of them.                                           *)
FrameRight ==
  /\ Pressed /\ keys' = keys + 1
  /\ IF scroll = "PC" THEN FastForward_Page ELSE FastForward_Smooth
  /\ seeking' = TRUE
  /\ UNCHANGED <<listVars, counted, mode, waitTrack, rewind>>

FrameLeft ==
  /\ \/ Pressed /\ keys' = keys + 1
     \/ mode = "talking" /\ MutexFree /\ rewind /\ UNCHANGED keys
  /\ IF scroll = "PC" THEN FastReverse_Page ELSE FastReverse_Smooth
  /\ rewind' = FALSE /\ seeking' = TRUE
  /\ UNCHANGED <<listVars, counted, mode, waitTrack>>

FrameCancel ==
  /\ Pressed /\ keys' = keys + 1
  /\ SeekEnd
  /\ mode' = "ended"
  /\ UNCHANGED <<listVars, counted, waitTrack, rewind, seeking>>

PlayingTrack == IF stream.cur = 0 THEN 0 ELSE chunks[stream.cur].track

FrameQuiet ==
  /\ mode = "talking" /\ ~rewind /\ MutexFree
  /\ seeking' = FALSE
  /\ mode' = CASE PlayingTrack = 0 -> "ended"
               [] PlayingTrack \in 1 .. waitTrack -> "talking"
               [] OTHER -> "segue"
  /\ UNCHANGED <<listVars, stream, mixVars, counted, waitTrack, rewind, keys>>

(* Faulty: the task goes on with the stream.                               *)
PausedForMixer(s) == s

(* PauseGame.  PlayingTrack is read before PauseTrack and may be old.      *)
PausedStream(s) == [s EXCEPT !.should = FALSE]

Pause ==
  /\ Pressed /\ keys' = keys + 1
  /\ mode' = "paused"
  /\ stream' = PausedStream(stream) /\ device' = "paused"
  /\ UNCHANGED <<listVars, done, clock, heard, counted,
                 waitTrack, rewind, seeking>>

(* ResumeTrack, only if a track is playing still.                          *)
Resume ==
  /\ mode = "paused" /\ MutexFree
  /\ mode' = "talking"
  /\ IF stream.cur # 0 /\ device = "paused"
     THEN stream' = [stream EXCEPT !.should = TRUE] /\ SourcePlay
     ELSE UNCHANGED <<stream, done, device>>
  /\ UNCHANGED <<listVars, clock, heard, counted,
                 waitTrack, rewind, seeking, keys>>

(* SelectResponse and the end of DoCommunication: StopTrack.               *)
StopTrack ==
  /\ mode = "ended" /\ MutexFree
  /\ chunks' = <<>> /\ stream' = Silent
  /\ done' = 0 /\ device' = "initial" /\ clock' = 0 /\ heard' = <<0, 0>>
  /\ mode' = "splicing" /\ keys' = 0 /\ waitTrack' = 0 /\ seeking' = FALSE
  /\ UNCHANGED <<noBreak, scroll, counted, rewind>>

NextTrack ==
  \/ SpliceTrack \/ SpliceMultiTrack
  \/ Talk \/ Replay \/ FrameRight \/ FrameLeft \/ FrameCancel \/ FrameQuiet
  \/ Pause \/ Resume \/ StopTrack
  \/ Refill \/ CountNone \/ StreamEnds \/ Underrun \/ NothingToDo
  \/ Play \/ Silence

(* The task and the mixer go on; DoInput is called again while talking,    *)
(* takes the rewind of a replay, and a pause ends.                         *)
TrackFairness ==
  /\ WF_trackVars(TaskStep) /\ SF_trackVars(Play)
  /\ SF_trackVars(FrameQuiet) /\ WF_trackVars(Resume)
  /\ SF_trackVars(rewind /\ FrameLeft)

TrackSpec == InitTrack /\ [][NextTrack]_trackVars /\ TrackFairness
-----------------------------------------------------------------------------
NoEmptyPage == \A c \in DOMAIN chunks : chunks[c].len > 0

PageOf(c) == Max({d \in 1 .. c : chunks[d].tag})

(* The subtitle is the page of the sound being played, whenever the task   *)
(* has seen all the buffers that were played: the tag that shows the next  *)
(* page is on the last buffer of the page before.  Not for the smooth      *)
(* scroll, where what is queued plays on (trackplayer.c:609), nor with     *)
(* empty pages, where last_q_buf may be an older buffer.                   *)
SubtitleInStep ==
  scroll = "PC" /\ NoEmptyPage /\ Attended /\ done = 0 /\ stream.queue # <<>>
    => stream.sub = PageOf(Head(stream.queue).c)

(* The chunks and the sample are not freed while the task has the stream:  *)
(* StopTrack detaches the sample before it frees them.                     *)
KeptWhileRead == counted \/ Attended => chunks # <<>>

SoundAt(h) == IF h[1] = 0 THEN 0 ELSE Start(h[1]) + h[2]

(* No sound of a phrase is left out: the mixer plays the buffer after the  *)
(* one it played last or, after an underrun, some of those again; and the  *)
(* stream is found to have ended when all of the phrase was heard.         *)
NothingSkipped ==
  [][scroll = "PC" =>
       /\ done' = done + 1 => SoundAt(heard') <= SoundAt(heard) + 1
       /\ (counted /\ stream.should /\ ~stream'.should /\ NoEmptyPage
            => SoundAt(heard) = TracksLength)]_trackVars

(* No sound is played while the game is paused, whatever the task does.    *)
PausedIsSilent == [][mode = "paused" => heard' = heard]_trackVars

(* With the scroll by pages a talk segue ends once the keys are left       *)
(* alone: the stream ends or reaches the track waited for.                 *)
PhraseEnds ==
  mode = "talking" /\ scroll = "PC" ~> mode \in {"ended", "segue"}

(* What the task may rely on without a lock.                               *)
ReadSafely == TrackTypeOK /\ KeptWhileRead

(* The sound of a phrase: all of it, in order, and none in a pause.        *)
SoundInOrder == NothingSkipped /\ PausedIsSilent
=============================================================================
