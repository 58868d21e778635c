----------------------------- MODULE AlarmClock -----------------------------
(***************************************************************************)
(* What a module of timers promises: each alarm that is set has a time     *)
(* left, time passes for all of them alike and never past the nearest, and *)
(* the nearest one rings.  Setting one alarm moves no other.               *)
(***************************************************************************)
EXTENDS Naturals

CONSTANTS Alarm, Interval    \* an alarm is set to its interval

VARIABLE left    \* the time left of the alarms that are set

Pending == DOMAIN left

Init == \E S \in SUBSET Alarm : left = [a \in S |-> Interval[a]]

Set(a) ==
    /\ a \in Alarm \ Pending
    /\ left' = [b \in Pending \cup {a} |-> IF b = a THEN Interval[a] ELSE left[b]]

Pass(d) ==
    /\ \A a \in Pending : d <= left[a]
    /\ left' = [a \in Pending |-> left[a] - d]

\* Alarm a rings when its time has passed; it may be set again at once.
Ring(a, again) ==
    /\ a \in Pending /\ \A b \in Pending : left[a] <= left[b]
    /\ left' = [b \in IF again THEN Pending ELSE Pending \ {a} |->
                  IF b = a THEN Interval[a] ELSE left[b] - left[a]]

Next == \/ \E a \in Alarm : Set(a) \/ \E again \in BOOLEAN : Ring(a, again)
        \/ \E a \in Pending : \E d \in 0..left[a] : Pass(d)

Spec == Init /\ [][Next]_left
=============================================================================
