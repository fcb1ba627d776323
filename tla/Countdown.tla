----------------------------- MODULE Countdown -----------------------------
(***************************************************************************)
(* What the game clock promises: an event that is asked for happens a      *)
(* certain number of days later, and no day passes while one is due.       *)
(***************************************************************************)
EXTENDS Integers

CONSTANTS
  Events,
  Delay     \* for each event, the days after which it may be asked for

VARIABLE togo   \* days to go for the events that are asked for, or Never

Never == -1

AskedFor(f, e, days) == [f EXCEPT ![e] = days]

Init ==
  togo \in {f \in [Events -> {Never} \cup UNION {Delay[e] : e \in Events}] :
              \A e \in Events : f[e] \in {Never} \cup Delay[e]}

(* The days to go change from `now` to `next`.                             *)
Ask(now, next) ==
  \E e \in Events : /\ now[e] = Never
                    /\ next[e] \in Delay[e]
                    /\ next = AskedFor(now, e, next[e])

(* An event happens on its day, and may ask for another or for itself.     *)
Happen(now, next) ==
  \E e \in Events : /\ now[e] = 0
                    /\ LET rest == AskedFor(now, e, Never)
                       IN  next = rest \/ Ask(rest, next)

Day(now, next) ==
  /\ \A e \in Events : now[e] # 0
  /\ next = [e \in Events |-> IF now[e] = Never THEN Never ELSE now[e] - 1]

Next ==
  LET now  == togo
      next == togo'
  IN  Ask(now, next) \/ Happen(now, next) \/ Day(now, next)

Spec == Init /\ [][Next]_togo
=============================================================================
