------------------------------ MODULE Missions ------------------------------
(***************************************************************************)
(* The fleets of the races and their missions: sent out by a conversation, *)
(* moved and weakened day by day by check_race_growth, told of an arrival  *)
(* or of an event of the clock by one function for each mission, which     *)
(* reads the state of other fleets and sends them elsewhere.               *)
(*                                                                         *)
(* Code: uqm/gameev.c from EventHandler on, and the conversations that     *)
(* start a mission.  A step is a day or a conversation.  Positions are     *)
(* names: a fleet on its way is "away" from all of them; strengths, their  *)
(* losses and the days are those of the code.  An event of GameClock is    *)
(* due before the daily one that calls check_race_growth (GameClock:       *)
(* DailyEventLast).                                                        *)
(***************************************************************************)
EXTENDS Integers, Sequences, FiniteSets, SequencesExt

CONSTANTS
  Plots,            \* bound: the missions, of which each game has one
  Months3, Months6, \* days that may be in three months and in six
  Marches,          \* bound: days the Kohr-Ah may take, 1 to 255 in the code
  Prey              \* bound: the races there are for the Kohr-Ah

(* What is left open stays within what the code can choose: months are     *)
(* some days of a year, and black_urquan_genocide keeps a march within     *)
(* 1 to 255 days.                                                          *)
ASSUME MissionsAssumption ==
  /\ Plots \subseteq {"pkunk", "thradd", "utwig", "mycon", "kohrah"}
  /\ Months3 \subseteq 1 .. 366 /\ Months6 \subseteq 1 .. 366
  /\ Marches \subseteq 1 .. 255
  /\ Prey \subseteq {"pkunk", "supox", "thradd", "utwig", "druuge", "ilwrath", "mycon"}

VARIABLES
  fleet,   \* FLEET_INFO of each race
  event,   \* days until ADVANCE_..._MISSION or the genocide, 0 if not asked for
  state,   \* the GAME_STATEs of the missions
  plot     \* bound: the mission of this game

missionVars == <<fleet, event, state, plot>>

Races == {"pkunk", "supox", "thradd", "utwig", "druuge", "ilwrath", "mycon", "kohrah"}

(* The order of avail_race_q                                               *)
Order == <<"pkunk", "supox", "thradd", "utwig", "druuge", "ilwrath", "mycon", "kohrah">>

Missions == {"pkunk", "thradd", "ilwrath", "utwig", "mycon", "kohrah"}

Strength ==
  [r \in Races |->
     CASE r \in {"pkunk", "utwig"} -> 120 [] r = "supox" -> 60
       [] r = "thradd" -> 150 [] r = "druuge" -> 254 [] r = "ilwrath" -> 256
       [] r = "mycon" -> 194 [] r = "kohrah" -> 484]

(* InitGameStructures; a fleet begins at the place named like it.          *)
Home(r) ==
  [loc |-> r, dest |-> "none", days |-> 0, func |-> "none",
   strength |-> Strength[r], growth |-> 0, fract |-> 0, err |-> 127]

InitMissions ==
  /\ plot \in Plots
  /\ fleet = [r \in Races |-> Home(r)]
  /\ event = [m \in Missions |-> IF m = "kohrah" /\ plot = "kohrah" THEN 1 ELSE 0]
  /\ state = [pkunk |-> 0, moving |-> FALSE, reasons |-> 0, thradd |-> 0,
              utwig |-> 0, fight |-> FALSE, frenzy |-> FALSE, over |-> FALSE,
              said |-> {}]

(* The functions take the three variables as a record.                     *)
Game == [fleet |-> fleet, event |-> event, state |-> state]

-----------------------------------------------------------------------------
(* SetRaceDest; the days are a BYTE.                                       *)
SetRaceDest(g, r, dest, days, func) ==
  [g EXCEPT !.fleet[r] =
     [@ EXCEPT !.dest = dest, !.days = days % 256, !.func = func]]

(* Faulty: the remainder of the division is not spread over the days.      *)
LosingRounded(f, loss, days) == [f EXCEPT !.growth = -(loss \div days), !.fract = 0]

(* `loss` ships are to be lost in so many days.                            *)
Losing(f, loss, days) ==
  [f EXCEPT !.growth = -(loss \div days), !.fract = ((loss % days) * 256) \div days]

Reset(f) == [f EXCEPT !.err = 127]

Steady(f) == [f EXCEPT !.growth = 0, !.fract = 0]

Destroyed(g, races) ==
  [g EXCEPT !.fleet = [r \in Races |->
     IF r \in races THEN [g.fleet[r] EXCEPT !.strength = 0] ELSE g.fleet[r]]]

Odd(n) == n % 2 = 1

(* pkunk_mission                                                           *)
PkunkMission(g) ==
  LET f == g.fleet["pkunk"]
      n == g.state.pkunk
      arrived == f.days = 0 /\ n # 0
      absorbed == arrived /\ (Odd(n) \/ f.loc = "yehat")
      dest == IF Odd(n) THEN "pkunk" ELSE "yehat"
  IN  IF f.strength = 0 THEN {g}
      ELSE IF absorbed
      THEN {[Destroyed(g, {"pkunk"}) EXCEPT !.state.pkunk = (@ + 1) % 8]}
      ELSE IF arrived /\ f.loc = "pkunk" /\ g.state.moving
      THEN {[g EXCEPT !.state.moving = FALSE, !.event["pkunk"] = days] : days \in Months3}
      ELSE {[SetRaceDest(g, "pkunk", dest, 182 - f.days, "pkunk")
               EXCEPT !.state.pkunk = (@ + 1) % 8, !.state.moving = TRUE]}

(* The end of ilwrath_mission: the Thraddash join the battle, or are       *)
(* called back from the Kohr-Ah first.                                     *)
Recalled(g) ==
  IF g.state.thradd = 0 \/ g.state.thradd > 3
  THEN SetRaceDest(g, "thradd", "battle", g.fleet["ilwrath"].days + 1, "none")
  ELSE IF g.state.thradd < 3
  THEN [SetRaceDest(g, "thradd", "thradd", 10, "thradd") EXCEPT !.state.thradd = 3]
  ELSE g

(* ilwrath_mission.  128 is MADD_LENGTH.                                   *)
IlwrathMission(g) ==
  LET f == g.fleet["ilwrath"]
      engaged == [SetRaceDest(g, "ilwrath", "battle", 127, "ilwrath")
        EXCEPT !.state.fight = TRUE,
               !.fleet["ilwrath"] = Losing(@, f.strength, 128),
               !.fleet["thradd"] = Losing(@, @.strength, 128)]
  IN  IF f.loc = "battle" THEN Destroyed(g, {"ilwrath", "thradd"})
      ELSE IF f.strength = 0 THEN g
      ELSE IF ~g.state.fight /\ f.dest # "front"
      THEN SetRaceDest(g, "ilwrath", "front", 90, "ilwrath")
      ELSE Recalled(IF f.days = 0 THEN engaged ELSE g)

(* Faulty: the Ilwrath are not told of the return.                         *)
NotifiedNot(g) == g

(* AddEvent with no delay, which is a call                                 *)
Notified(g) ==
  IF g.state.thradd = 4 /\ g.state.fight THEN IlwrathMission(g) ELSE g

(* thradd_mission                                                          *)
ThraddMission(g) ==
  LET f == g.fleet["thradd"]
      n == g.state.thradd
      prepared == CASE n = 1 -> Reset(Losing(f, f.strength \div 2, 14))
                    [] n = 2 -> Steady(f) [] OTHER -> f
      sent == IF f.strength = 0 \/ n >= 3 THEN g
              ELSE SetRaceDest([g EXCEPT !.fleet["thradd"] = prepared],
                     "thradd", IF n < 2 THEN "front2" ELSE "thradd", 14, "thradd")
  IN  Notified([sent EXCEPT !.state.thradd = (@ + 1) % 8])

(* utwig_supox_mission                                                     *)
UtwigMission(g) ==
  LET f == g.fleet["utwig"]
      s == g.fleet["supox"]
      n == g.state.utwig
      fighting == [g EXCEPT !.event["utwig"] = 80,
        !.fleet["utwig"] = Reset(Losing(@, f.strength \div 2, 160)),
        !.fleet["supox"] = IF s.strength \div 2 = 0 THEN @
                           ELSE Reset(Losing(@, s.strength \div 2, 160))]
      sent(h, to) == SetRaceDest(SetRaceDest(h, "utwig", to, 21, "utwig"),
                                 "supox", to, 21, "none")
      home == [g EXCEPT !.fleet["utwig"] = Steady(@), !.fleet["supox"] = Steady(@)]
  IN  IF f.strength = 0 \/ n >= 5 THEN [g EXCEPT !.state.utwig = (@ + 1) % 8]
      ELSE CASE n = 1 -> [fighting EXCEPT !.state.utwig = 2]
             [] n = 2 -> [g EXCEPT !.event["utwig"] = 80, !.state.utwig = 4]
             [] n = 0 -> [sent(g, "front3") EXCEPT !.state.utwig = 1]
             [] OTHER -> [sent(home, "utwig") EXCEPT !.state.utwig = @ + 1]

(* mycon_mission.  Growth tells whether they have fought.                  *)
MyconMission(g) ==
  LET f == g.fleet["mycon"]
  IN  IF f.strength = 0 THEN g
      ELSE IF f.growth # 0
      THEN SetRaceDest([g EXCEPT !.fleet["mycon"] = Steady(@)], "mycon", "mycon", 30, "none")
      ELSE IF f.loc # "organon" THEN SetRaceDest(g, "mycon", "organon", 30, "mycon")
      ELSE [g EXCEPT !.event["mycon"] = 14,
                     !.fleet["mycon"] = Reset(Losing(f, f.strength \div 2, 14))]

(* Faulty: only fleets that have not left their home are looked for.       *)
VictimsAtHome(g, here) == {r \in Prey : g.fleet[r].loc = r /\ g.fleet[r].strength > 0 /\ g.fleet[r].loc # here}

Victims(g, here) ==
  {r \in Prey : g.fleet[r].strength > 0 /\ g.fleet[r].loc # here}

(* black_urquan_genocide.  Which fleet is the nearest is left open, but    *)
(* the Druuge come first, and the search ends with them.                   *)
Genocide(g) ==
  LET here == g.fleet["kohrah"].loc
      victims == Victims(g, here)
      nearest == IF "druuge" \in victims THEN {"druuge"} ELSE victims
      seen == IF "druuge" \in victims
              THEN Prey \cap {"pkunk", "supox", "thradd", "utwig"} ELSE Prey
      h == Destroyed(g, {r \in seen : g.fleet[r].loc = here})
      place(r) == IF g.fleet[r].loc = "away" THEN "nowhere" ELSE g.fleet[r].loc
      dests == IF victims = {} THEN {"sol"} ELSE {place(r) : r \in nearest}
  IN  IF victims = {} /\ here = "sol" THEN {[h EXCEPT !.state.over = TRUE]}
      ELSE {[SetRaceDest(h, "kohrah", dest, days, "kohrah") EXCEPT !.state.frenzy = TRUE] :
              dest \in dests, days \in Marches}

(* EventHandler                                                            *)
Handle(g, m) ==
  CASE m = "pkunk" -> PkunkMission(g)   [] m = "thradd" -> {ThraddMission(g)}
    [] m = "utwig" -> {UtwigMission(g)} [] m = "ilwrath" -> {IlwrathMission(g)}
    [] m = "mycon" -> {MyconMission(g)} [] m = "kohrah" -> Genocide(g)

-----------------------------------------------------------------------------
(* A day                                                                   *)

(* The growth of one fleet in check_race_growth, here never positive.      *)
Stronger(f) ==
  LET delta == IF f.err <= f.fract THEN f.growth - 1 ELSE f.growth
  IN  [f EXCEPT !.strength = IF @ + delta <= 0 THEN 0 ELSE @ + delta,
                !.err = (@ - f.fract) % 256]

(* A day nearer to its destination                                         *)
Moved(f) ==
  [f EXCEPT !.days = @ - 1,
            !.loc = IF f.dest = @ \/ f.days = 1 THEN f.dest ELSE "away"]

(* Nothing becomes of such a fleet.                                        *)
Idle(f) ==
  f.strength = 0 \/ (f.days = 0 /\ f.growth = 0 /\ f.fract = 0 /\ f.err > 0)

(* The rest of check_race_growth for one fleet, which is now f             *)
Arrived(g, r, f) ==
  IF f.strength = 0 \/ f.days = 0 THEN {[g EXCEPT !.fleet[r] = f]}
  ELSE LET h == [g EXCEPT !.fleet[r] = Moved(f)]
       IN  IF f.days = 1 /\ f.func # "none" THEN Handle(h, f.func) ELSE {h}

Grown(g, r) ==
  IF Idle(g.fleet[r]) THEN {g}
  ELSE UNION {Arrived(g, r, f) : f \in {Stronger(g.fleet[r])}}

AllGrown(games) ==
  LET after[n \in 0 .. Len(Order)] ==
        IF n = 0 THEN games ELSE UNION {Grown(g, Order[n]) : g \in after[n - 1]}
  IN  after[Len(Order)]

(* The events of this day.  No two missions of a game have one on the same *)
(* day.                                                                    *)
Happened(games) ==
  LET past == [m \in Missions |-> IF event[m] = 0 THEN 0 ELSE event[m] - 1]
      begun == {[g EXCEPT !.event = past] : g \in games}
      due == {m \in Missions : event[m] = 1}
  IN  IF due = {} THEN begun
      ELSE UNION {Handle(g, CHOOSE m \in due : TRUE) : g \in begun}

(* Faulty: the fleets move before the events.                              *)
PassedEarly(g) == Happened({[h EXCEPT !.event = event] : h \in AllGrown({g})})

Passed(g) == AllGrown(Happened({g}))

Becomes(games) ==
  \E g \in games : fleet' = g.fleet /\ event' = g.event /\ state' = g.state

MissionDay ==
  /\ ~state.over
  /\ Becomes(Passed(Game))
  /\ UNCHANGED plot

-----------------------------------------------------------------------------
(* Conversations                                                           *)

Alive(r) == fleet[r].strength > 0

(* Faulty: the same is said again.                                         *)
SaysAgain(what, games) ==
  /\ ~state.over
  /\ Becomes({[g EXCEPT !.state.said = @ \cup {what}] : g \in games})
  /\ UNCHANGED plot

(* What is said once, as the phrase is disabled or a GAME_STATE tells.     *)
Says(what, games) ==
  /\ what \notin state.said /\ ~state.over
  /\ Becomes({[g EXCEPT !.state.said = @ \cup {what}] : g \in games})
  /\ UNCHANGED plot

(* ExitConversation in pkunkc.c: an alliance                               *)
AllyPkunk ==
  plot = "pkunk" /\ Alive("pkunk")
    /\ Says("ally", {[Game EXCEPT !.event["pkunk"] = days] : days \in Months6})

(* PkunkMigrate: two good reasons to turn back, each of which counts once  *)
TurnPkunk ==
  /\ plot = "pkunk" /\ Alive("pkunk") /\ Odd(state.pkunk) /\ state.reasons < 2
  /\ Becomes({[g EXCEPT !.state.reasons = @ + 1] : g \in PkunkMission(Game)})
  /\ UNCHANGED plot

(* ThraddHostile, ExitConversation in thraddc.c: an idea, and praise       *)
SendThradd ==
  plot = "thradd" /\ Alive("thradd") /\ ~state.fight
    /\ Says("idea", {ThraddMission(Game)})

PraiseThradd ==
  plot = "thradd" /\ Alive("thradd") /\ ~state.fight /\ state.thradd = 4
    /\ Says("praise", {[Game EXCEPT !.state.thradd = 5]})

(* GodsSpeak in ilwrathc.c                                                 *)
SendIlwrath ==
  plot = "thradd" /\ Alive("ilwrath") /\ Says("kill", {IlwrathMission(Game)})

(* ExitConversation in utwigc.c                                            *)
SendUtwig ==
  plot = "utwig" /\ Alive("utwig") /\ ~state.frenzy
    /\ Says("attack", {UtwigMission(Game)})

(* TrickMycon in myconc.c                                                  *)
SendMycon ==
  plot \in {"mycon", "kohrah"} /\ Alive("mycon")
    /\ Says("implant", {MyconMission(Game)})

MissionTalk ==
  \/ AllyPkunk \/ TurnPkunk \/ SendThradd \/ PraiseThradd \/ SendIlwrath
  \/ SendUtwig \/ SendMycon

NextMissions == MissionDay \/ MissionTalk

(* The days go by.                                                         *)
MissionsSpec == InitMissions /\ [][NextMissions]_missionVars /\ WF_missionVars(MissionDay)

-----------------------------------------------------------------------------
(* Properties                                                              *)

Places == Races \cup {"away", "nowhere", "sol", "yehat", "front", "front2",
                      "front3", "battle", "organon"}

MissionsTypeOK ==
  /\ fleet \in [Races -> [loc : Places, dest : Places \cup {"none"}, days : 0 .. 255,
                          func : Missions \cup {"none"}, strength : 0 .. 484,
                          growth : -128 .. 127, fract : 0 .. 255, err : 0 .. 255]]
  /\ event \in [Missions -> 0 .. 366]
  /\ state.pkunk \in 0 .. 7 /\ state.thradd \in 0 .. 5 /\ state.utwig \in 0 .. 6

UnderWay(r) == fleet[r].days > 0 /\ fleet[r].func = r

(* A mission that has begun and not ended always has something that takes  *)
(* it on: a fleet that will arrive and call it, or an event.  The count of *)
(* days the Pkunk have gone must not be 0 when they turn.                  *)
NoMissionStuck ==
  /\ Alive("pkunk") /\ state.pkunk > 0 => UnderWay("pkunk") \/ event["pkunk"] > 0
  /\ Alive("thradd") /\ state.thradd \in 1 .. 3 => UnderWay("thradd")
  /\ Alive("ilwrath") /\ "kill" \in state.said => UnderWay("ilwrath")
  /\ Alive("utwig") /\ state.utwig \in 1 .. 5 => UnderWay("utwig") \/ event["utwig"] > 0
  /\ Alive("mycon") /\ fleet["mycon"].growth # 0 => event["mycon"] > 0
  /\ state.frenzy => UnderWay("kohrah") \/ state.over

(* A mission costs half of the fleet, but for the share of one day.        *)
HalfIsLost ==
  /\ state.thradd \in {3, 4, 5} /\ ~state.fight /\ Alive("thradd") =>
       fleet["thradd"].strength \in 74 .. 76
  /\ state.utwig \in {5, 6} /\ Alive("utwig") => fleet["utwig"].strength \in 59 .. 61
  /\ state.utwig \in {5, 6} /\ Alive("supox") => fleet["supox"].strength \in 29 .. 31
  /\ fleet["mycon"].dest = "mycon" /\ Alive("mycon") =>
       fleet["mycon"].strength \in 96 .. 105

(* While the two races fight, the Thraddash are on their way back from the *)
(* Kohr-Ah, or bound for the place where the battle ends, to be there two  *)
(* days after the Ilwrath at most: wherever the call found them.           *)
Rendezvous ==
  state.fight /\ Alive("ilwrath") /\ Alive("thradd") =>
    LET f == fleet["thradd"]
    IN  /\ state.thradd \in {1, 2, 3} => f.dest = "thradd" /\ f.days <= 14
        /\ state.thradd \notin {1, 2, 3} =>
              f.dest = "battle" /\ f.days <= fleet["ilwrath"].days + 2

(* The Kohr-Ah have not won while one of their prey is alive: a search     *)
(* that finds nobody, or ends early with the Druuge, misses no fleet.      *)
LastOneGone == state.over => \A r \in Prey : ~Alive(r)

(* Nobody escapes the Kohr-Ah, wherever the fleets move meanwhile.         *)
KohrAhWin == state.frenzy ~> state.over /\ \A r \in Prey : ~Alive(r)

(* A mission under way has something to carry it on, its price, and no end *)
(* before its time.                                                        *)
MissionsGoOn == MissionsTypeOK /\ NoMissionStuck /\ HalfIsLost /\ LastOneGone
=============================================================================
