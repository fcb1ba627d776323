----------------------------- MODULE GameClock -----------------------------
(***************************************************************************)
(* The clock of the game and its list of events, in the order of their     *)
(* dates.  GameClockTick counts the frames of a day, which has more of     *)
(* them in a solar system than in hyperspace; each new day takes from the  *)
(* head of the list what is due on exactly that date.  A handler may add   *)
(* events, as may the conversations.                                       *)
(*                                                                         *)
(* Code: uqm/clock.c, uqm/displist.c, EventHandler in uqm/gameev.c and the *)
(* callers of AddEvent, SetGameClockRate and MoveGameClockDays.  One step  *)
(* handles one event.  The missions of the fleets are in Missions.         *)
(***************************************************************************)
EXTENDS Integers, Sequences, FiniteSets

CONSTANTS
  FramesInHyperspace, FramesInSystem,  \* bounds: frames of a day
                                       \* (120 and 720 in the code)
  Systems,           \* the solar systems the player may enter
  YearsToVictory,    \* YEARS_TO_KOHRAH_VICTORY
  LostDays,          \* LOST_DAYS
  BusyDays,          \* bound: days of a month on which the player acts
  MaxTalks,          \* bound: how many events the player asks for
  LastYear, LastMonth \* bound: when the clock stops

ASSUME ClockAssumption ==
  /\ {FramesInHyperspace, FramesInSystem, YearsToVictory} \subseteq Nat \ {0}
  /\ {LostDays, MaxTalks} \subseteq Nat
  /\ {"start", "hyperspace"} \cap Systems = {}

VARIABLES
  date,    \* <<year, month, day>>
  frames,  \* left of the day, and in a day: tick_count, day_in_ticks
  queue,   \* event_q: <<date, event>>
  todo,    \* days to move on, and whether an event of today is next
  place,   \* where the player is
  story    \* the GAME_STATEs that the events of this module change

vars == <<date, frames, queue, todo, place, story>>

NumEvents == 18   \* NUM_EVENTS, the entries of the table of the queue

StartYear == 2155

-----------------------------------------------------------------------------
(* The calendar                                                            *)

IsLeapYear(y) == y % 4 = 0 /\ (y % 100 # 0 \/ y % 400 = 0)

DaysInMonth(m, y) ==
  IF m = 2 THEN IF IsLeapYear(y) THEN 29 ELSE 28
  ELSE IF m \in {4, 6, 9, 11} THEN 30 ELSE 31

Before(d, e) ==
  \/ d[1] < e[1]
  \/ d[1] = e[1] /\ (d[2] < e[2] \/ (d[2] = e[2] /\ d[3] < e[3]))

Days == Nat \X (1 .. 12) \X (Nat \ {0})

Dates == {d \in Days : d[3] <= DaysInMonth(d[2], d[1])}

(* Faulty: February always has 28 days.                                    *)
MonthOffNoLeap(d) ==
  LET rest == d[3] - DaysInMonth(d[2], StartYear)
  IN  IF d[2] = 12 THEN <<d[1] + 1, 1, rest>> ELSE <<d[1], d[2] + 1, rest>>

(* A whole month is taken off the day.                                     *)
MonthOff(d) ==
  LET rest == d[3] - DaysInMonth(d[2], d[1])
  IN  IF d[2] = 12 THEN <<d[1] + 1, 1, rest>> ELSE <<d[1], d[2] + 1, rest>>

(* The loop of ValidateEvent                                               *)
Carried[d \in Days] == IF d \in Dates THEN d ELSE Carried[MonthOff(d)]

(* ValidateEvent for a RELATIVE_EVENT                                      *)
Later(months, days, years) ==
  LET m == date[2] - 1 + months
  IN  Carried[<<date[1] + years + m \div 12, (m % 12) + 1, date[3] + days>>]

NextDay(d) ==
  IF d[3] < DaysInMonth(d[2], d[1]) THEN <<d[1], d[2], d[3] + 1>>
  ELSE IF d[2] < 12 THEN <<d[1], d[2] + 1, 1>> ELSE <<d[1] + 1, 1, 1>>

(* Faulty: the year does not turn in December.                             *)
The17thOfNextMonthSameYear == <<date[1], (date[2] % 12) + 1, 17>>

(* Faulty: it comes a month after it went.                                 *)
AMonthLater == Later(1, 0, 0)

(* arilou_exit_event                                                       *)
The17thOfNextMonth ==
  <<IF date[2] % 12 = 0 THEN date[1] + 1 ELSE date[1], (date[2] % 12) + 1, 17>>

-----------------------------------------------------------------------------
(* The queue                                                               *)

(* Faulty: the event goes to the end of the list.                          *)
InsertedLast(q, when, e) == Append(q, <<when, e>>)

(* Faulty: in front of those of the same date.                             *)
InsertedBefore(q, when, e) ==
  LET n == Cardinality({i \in 1 .. Len(q) : Before(q[i][1], when)})
  IN  SubSeq(q, 1, n) \o <<<<when, e>>>> \o SubSeq(q, n + 1, Len(q))

(* AddEvent after ValidateEvent: behind all that are not later             *)
Inserted(q, when, e) ==
  LET earlier == {i \in 1 .. Len(q) : ~Before(when, q[i][1])}
      \* an initial part of a sorted list
      n == Cardinality(earlier)
  IN  SubSeq(q, 1, n) \o <<<<when, e>>>> \o SubSeq(q, n + 1, Len(q))

(* The entry of an event that is being handled is freed after its handler. *)
Added(q, when, e, inUse) ==
  IF Before(when, date) \/ Len(q) + inUse >= NumEvents THEN q
  ELSE Inserted(q, when, e)

-----------------------------------------------------------------------------
(* Handlers.  Each asks for at most one event: its date and its name.      *)

Nothing == <<>>

Postponed(e) == <<Later(0, 7, 0), e>>

FollowUp(e) ==
  CASE e = "HYPERSPACE_ENCOUNTER" -> <<Later(0, 1, 0), e>>
    [] e = "ARILOU_ENTRANCE" -> <<Later(0, 3, 0), "ARILOU_EXIT">>
    [] e = "ARILOU_EXIT" -> <<The17thOfNextMonth, "ARILOU_ENTRANCE">>
    [] e = "SLYLANDRO_RAMP_UP" /\ ~story.destruct /\ story.ramp < 4 ->
         <<Later(0, 182, 0), e>>
    [] e = "SLYLANDRO_RAMP_DOWN" /\ story.ramp # 1 -> <<Later(0, 23, 0), e>>
    [] e = "KOHR_AH_VICTORIOUS" /\ story.utwig ->
         <<Later(0, 0, 1), "KOHR_AH_GENOCIDE">>
    [] e \in {"KOHR_AH_VICTORIOUS", "KOHR_AH_GENOCIDE"} /\ ~story.frenzy
         /\ place = "samatra" /\ ~(e = "KOHR_AH_VICTORIOUS" /\ story.utwig) ->
         Postponed("KOHR_AH_GENOCIDE")
    [] e \in {"ZOQFOT_DISTRESS", "ZOQFOT_DEATH"} /\ place = "zoqfot" -> Postponed(e)
    [] e = "ZOQFOT_DISTRESS" /\ place # "zoqfot" -> <<Later(6, 0, 0), "ZOQFOT_DEATH">>
    [] e = "SPATHI_SHIELD" /\ place = "spathi" -> Postponed(e)
    [] OTHER -> Nothing

(* What an event changes in the story.                                     *)
Changed(e) ==
  CASE e = "ARILOU_ENTRANCE" -> [story EXCEPT !.gate = "opening"]
    [] e = "ARILOU_EXIT" -> [story EXCEPT !.gate = "closing"]
    [] e = "SLYLANDRO_RAMP_UP" /\ ~story.destruct /\ story.ramp < 4 ->
         [story EXCEPT !.ramp = @ + 1]
    [] e = "SLYLANDRO_RAMP_DOWN" -> [story EXCEPT !.ramp = (@ - 1) % 8]
    [] FollowUp(e) = Nothing /\ e \in {"KOHR_AH_VICTORIOUS", "KOHR_AH_GENOCIDE"} ->
         [story EXCEPT !.frenzy = TRUE]
    [] e = "ZOQFOT_DISTRESS" /\ place # "zoqfot" ->
         [story EXCEPT !.zoqfot = "distress"]
    [] e = "ZOQFOT_DEATH" /\ place # "zoqfot" /\ story.zoqfot = "distress" ->
         [story EXCEPT !.zoqfot = "dead"]
    [] e = "SPATHI_SHIELD" /\ place # "spathi" -> [story EXCEPT !.shielded = TRUE]
    [] OTHER -> story

-----------------------------------------------------------------------------
Busy == todo.days > 0 \/ todo.events

Playing == ~Busy /\ Before(date, <<LastYear, LastMonth, 1>>)

(* InitGameClock, AddInitialGameEvents.  SLYLANDRO_RAMP_UP is handled at   *)
(* once.                                                                   *)
Init ==
  /\ date = <<StartYear, 2, 17>>
  /\ frames = [left |-> 0, inDay |-> 0]
  /\ queue = << <<<<StartYear, 2, 18>>, "HYPERSPACE_ENCOUNTER">>,
                <<<<StartYear, 3, 17>>, "ARILOU_ENTRANCE">>,
                <<<<StartYear, 8, 18>>, "SLYLANDRO_RAMP_UP">>,
                <<<<StartYear + YearsToVictory, 2, 17>>, "KOHR_AH_VICTORIOUS">> >>
  /\ todo = [days |-> 0, events |-> FALSE]
  /\ place = "start"
  /\ story = [gate |-> "closing", ramp |-> 1, destruct |-> FALSE, utwig |-> FALSE,
              frenzy |-> FALSE, zoqfot |-> "peace", shielded |-> FALSE,
              asked |-> {}]

(* Faulty: a part of a frame is no frame.                                  *)
RescaledDown(frame) ==
  [inDay |-> frame,
   left |-> IF frames.inDay = 0 THEN frame
            ELSE (frames.left * frame) \div frames.inDay]

(* SetGameClockRate                                                        *)
Rescaled(frame) ==
  [inDay |-> frame,
   left |-> IF frames.inDay = 0 THEN frame
            ELSE IF frames.left <= 0 THEN 0
            ELSE LET n == (frames.left * frame) \div frames.inDay
                 IN  IF n = 0 THEN 1 ELSE n]

(* ExploreSolarSys and Battle are entered anew.                            *)
Enter(p) ==
  /\ Playing /\ p # place
  /\ place \in Systems => p = "hyperspace"
  /\ place = "start" \/ date[3] \in BusyDays
  /\ place' = p
  /\ frames' = Rescaled(IF p = "hyperspace" THEN FramesInHyperspace
                                            ELSE FramesInSystem)
  /\ UNCHANGED <<date, queue, todo, story>>

(* processClockDayEvents looks only at the head of the list.               *)
Due(q, today) == q # <<>> /\ Head(q)[1] = today

(* GameClockTick                                                           *)
Tick ==
  /\ Playing /\ place # "start"
  /\ IF frames.left > 1
     THEN frames' = [frames EXCEPT !.left = @ - 1] /\ UNCHANGED <<date, todo>>
     ELSE /\ frames' = [frames EXCEPT !.left = frames.inDay]
          /\ date' = NextDay(date)
          /\ todo' = [todo EXCEPT !.events = Due(queue, NextDay(date))]
  /\ UNCHANGED <<queue, place, story>>

(* Faulty: an event may be asked for again.                                *)
MayAskTwice(e) == Playing /\ place # "start" /\ date[3] \in BusyDays

(* A conversation that asks for an event can be had once.                  *)
MayAsk(e) ==
  /\ Playing /\ place # "start" /\ date[3] \in BusyDays
  /\ e \notin story.asked /\ Cardinality(story.asked) < MaxTalks

Asked(e) == [story EXCEPT !.asked = @ \cup {e}]

(* MoveGameClockDays, at the starbase                                      *)
LoseDays ==
  /\ MayAsk("days") /\ place \in Systems
  /\ story' = Asked("days")
  /\ todo' = [todo EXCEPT !.days = LostDays]
  /\ UNCHANGED <<date, frames, queue, place>>

MoveDay ==
  /\ todo.days > 0 /\ ~todo.events
  /\ date' = NextDay(date)
  /\ todo' = [days |-> todo.days - 1, events |-> Due(queue, NextDay(date))]
  /\ frames' = [frames EXCEPT !.left = frames.inDay]
  /\ UNCHANGED <<queue, place, story>>

(* processClockDayEvents, for one event                                    *)
HandleEvent ==
  /\ todo.events
  /\ LET e == Head(queue)[2]
     IN  /\ story' = Changed(e)
         /\ queue' = IF FollowUp(e) = Nothing THEN Tail(queue)
                     ELSE Added(Tail(queue), FollowUp(e)[1], FollowUp(e)[2], 1)
  /\ todo' = [todo EXCEPT !.events = Due(queue', date)]
  /\ UNCHANGED <<date, frames, place>>

Delayed(e, months, days) ==
  /\ MayAsk(e)
  /\ queue' = Added(queue, Later(months, days, 0), e, 0)
  /\ story' = Asked(e)
  /\ UNCHANGED <<date, frames, todo, place>>

(* The conversations with the Shofixti, Zoq-Fot-Pik, Spathi and Arilou     *)
Talk ==
  \/ Delayed("SHOFIXTI_RETURN", 2, 0)
  \/ Delayed("ZOQFOT_DISTRESS", 3, 0)
  \/ Delayed("SPATHI_SHIELD", 6, 0)
  \/ Delayed("ARILOU_UMGAH_CHECK", 0, 10)

(* HomeWorld in slyhome.c: the multiplier is counted up and handled at     *)
(* once as SLYLANDRO_RAMP_DOWN.                                            *)
LearnDestructCode ==
  /\ MayAsk("SLYLANDRO_RAMP_DOWN")
  /\ story' = [Asked("SLYLANDRO_RAMP_DOWN") EXCEPT !.destruct = TRUE]
  /\ queue' = IF story.ramp = 0 THEN queue
              ELSE Added(queue, Later(0, 23, 0), "SLYLANDRO_RAMP_DOWN", 0)
  /\ UNCHANGED <<date, frames, todo, place>>

(* What the conversations with the Utwig and the Zoq-Fot-Pik change for    *)
(* the events of this module                                               *)
Help ==
  /\ \/ /\ MayAsk("utwig") /\ ~story.frenzy
        /\ story' = [Asked("utwig") EXCEPT !.utwig = TRUE]
     \/ /\ Playing /\ story.zoqfot = "distress" /\ place = "zoqfot"
        /\ story' = [story EXCEPT !.zoqfot = "peace"]
  /\ UNCHANGED <<date, frames, queue, todo, place>>

Next ==
  \/ \E p \in {"hyperspace"} \cup Systems : Enter(p)
  \/ Tick \/ LoseDays \/ MoveDay \/ HandleEvent
  \/ Talk \/ LearnDestructCode \/ Help

(* The game goes on, frame by frame.                                       *)
Spec == Init /\ [][Next]_vars
             /\ WF_vars(Tick) /\ WF_vars(MoveDay \/ HandleEvent)

-----------------------------------------------------------------------------
(* Properties                                                              *)

Events ==
  {"ARILOU_ENTRANCE", "ARILOU_EXIT", "HYPERSPACE_ENCOUNTER",
   "KOHR_AH_VICTORIOUS", "KOHR_AH_GENOCIDE", "ZOQFOT_DISTRESS", "ZOQFOT_DEATH",
   "SHOFIXTI_RETURN", "SPATHI_SHIELD", "ARILOU_UMGAH_CHECK",
   "SLYLANDRO_RAMP_UP", "SLYLANDRO_RAMP_DOWN"}

TypeOK ==
  /\ date \in Dates
  /\ frames.inDay \in {0, FramesInHyperspace, FramesInSystem}
  /\ place # "start" => frames.left \in 1 .. frames.inDay
  /\ \A i \in 1 .. Len(queue) : queue[i][1] \in Dates /\ queue[i][2] \in Events
  /\ todo \in [days : 0 .. LostDays, events : BOOLEAN]
  /\ place \in {"start", "hyperspace"} \cup Systems
  /\ story \in [gate : {"opening", "closing"}, ramp : 0 .. 4, destruct : BOOLEAN,
                utwig : BOOLEAN, frenzy : BOOLEAN, shielded : BOOLEAN,
                zoqfot : {"peace", "distress", "dead"},
                asked : SUBSET (Events \cup {"days", "utwig"})]

Pending(e) == {i \in 1 .. Len(queue) : queue[i][2] = e}

(* No event is missed: the list is in the order of the dates, and nothing  *)
(* in it is older than today, or of today once its events are done.  One   *)
(* entry of the past at the head would block all the others for ever.      *)
NothingMissed ==
  /\ \A i, j \in 1 .. Len(queue) : i < j => ~Before(queue[j][1], queue[i][1])
  /\ \A i \in 1 .. Len(queue) :
       ~Before(queue[i][1], date) /\ (todo.events \/ queue[i][1] # date)

(* The table has an entry for each kind of event: it is large enough as    *)
(* long as no event is asked for while one of its kind is waiting.         *)
AtMostOneEach == \A e \in Events : Cardinality(Pending(e)) <= 1

(* What goes on by events that ask for one another is never left without   *)
(* one.                                                                    *)
ChainsGoOn ==
  LET waits(e) == Pending(e) # {}
  IN  /\ waits("HYPERSPACE_ENCOUNTER")
      /\ waits("ARILOU_ENTRANCE") \/ waits("ARILOU_EXIT")
      /\ IF story.destruct THEN story.ramp = 0 \/ waits("SLYLANDRO_RAMP_DOWN")
                           ELSE waits("SLYLANDRO_RAMP_UP") \/ story.ramp = 4
      /\ story.frenzy \/ waits("KOHR_AH_VICTORIOUS") \/ waits("KOHR_AH_GENOCIDE")
      /\ story.zoqfot = "distress" => waits("ZOQFOT_DEATH")

(* The daily event, in which the fleets move, comes after all others of    *)
(* its date: pkunk_mission would be misled by a fleet that moved first.    *)
DailyEventLast ==
  \A i, j \in 1 .. Len(queue) :
    queue[i][2] = "HYPERSPACE_ENCOUNTER" /\ queue[j][1] = queue[i][1] => j <= i

(* The gate of the Arilou is open from the 17th to the 19th of each month. *)
GateOpensMonthly ==
  ~todo.events /\ Before(<<StartYear, 3, 16>>, date) =>
    (story.gate = "opening" <=> date[3] \in 17 .. 19)

(* The number of a day, independent of the loop of ValidateEvent           *)
DayNumber(d) ==
  LET a == (14 - d[2]) \div 12
      y == d[1] + 4800 - a
      m == d[2] + 12 * a - 3
  IN  d[3] + (153 * m + 2) \div 5 + 365 * y + y \div 4 - y \div 100 + y \div 400

Delay ==
  [e \in Events |->
     CASE e = "HYPERSPACE_ENCOUNTER" -> {1}
       [] e = "ARILOU_ENTRANCE" -> 25 .. 28
       [] e = "ARILOU_EXIT" -> {3}
       [] e = "KOHR_AH_VICTORIOUS" ->
            365 * YearsToVictory .. 366 * YearsToVictory
       [] e = "KOHR_AH_GENOCIDE" -> {7, 365, 366}
       [] e = "ZOQFOT_DISTRESS" -> {7} \cup 89 .. 92
       [] e = "ZOQFOT_DEATH" -> {7} \cup 181 .. 184
       [] e = "SPATHI_SHIELD" -> {7} \cup 181 .. 184
       [] e = "SHOFIXTI_RETURN" -> 59 .. 62
       [] e = "ARILOU_UMGAH_CHECK" -> {10}
       [] e = "SLYLANDRO_RAMP_UP" -> {182}
       [] e = "SLYLANDRO_RAMP_DOWN" -> {23}]

Abstract ==
  INSTANCE Countdown WITH
    togo <- [e \in Events |->
      IF Pending(e) = {} THEN -1
      ELSE DayNumber(queue[CHOOSE i \in Pending(e) : TRUE][1]) - DayNumber(date)]

(* Events happen as many days after they were asked for as was said, over  *)
(* ends of months and years and in leap years, and none is passed over.    *)
ImplementsCountdown == Abstract!Spec

(* The list of events: complete, in order, within the size of its table.   *)
ListInOrder == TypeOK /\ NothingMissed /\ AtMostOneEach /\ DailyEventLast

(* The chains of events go on, the Arilou's on the same days each month.   *)
ChainsInTime == ChainsGoOn /\ GateOpensMonthly
=============================================================================
