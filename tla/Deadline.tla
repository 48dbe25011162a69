------------------------------ MODULE Deadline ------------------------------
(***************************************************************************)
(* Every wait of the bootloader polls: it takes start = ticks() and leaves *)
(* when its condition holds or expired(start, ms) (src/platform.c).  ticks *)
(* is a 16-bit counter of 64 us, so an elapsed time is known only modulo   *)
(* one wrap (4.19 s).  Between two polls of an outer wait (http_byte, the  *)
(* DHCP and DNS windows, net_send: 2000 or 3000 ms) the code may sit in up *)
(* to two inner ones (stable, then command: 100 ms each).                  *)
(*                                                                         *)
(* Time is counted in ticks; a step of the processor takes 0..MaxStep.     *)
(***************************************************************************)
EXTENDS Integers

CONSTANTS
    Wrap,        \* 2^16
    OuterLimit,  \* ticks of the outer deadline: ms * 125 / 8, 46875 for 3000 ms
    InnerLimit,  \* ticks of an inner deadline, 1562 for 100 ms
    MaxStep      \* longest time from one evaluation of expired() to the next
                 \* wait or evaluation

\* The margin that makes the polling sound.  platform.c says that deadlines
\* are "strictly below one wrap"; beyond that, a loop must come round again
\* before the counter passes its start: 46875 + 2 * 1562 leaves 15537 ticks.
ASSUME DeadlineAssumption ==
    /\ Wrap \in Nat /\ OuterLimit \in Nat \ {0}
    /\ InnerLimit \in Nat \ {0} /\ MaxStep \in Nat \ {0}
    /\ OuterLimit + 2 * InnerLimit + 5 * MaxStep < Wrap

VARIABLES
    ticks,    \* TCNT1
    pc,       \* "idle"; "outer": before the outer test; "inner1", "inner2"
    start,    \* ticks() when the outer wait began
    inner,    \* ticks() when the inner wait began
    outcome,  \* how the last outer wait ended: "none", "met" or "timeout"
    elapsed,  \* history: true time since the outer wait began
    waited    \* history: true time since the inner wait began

vars == <<ticks, pc, start, inner, outcome, elapsed, waited>>

Count == 0..(Wrap - 1)
Steps == 0..MaxStep

\* uint16_t arithmetic.
Plus(a, b) == IF a + b >= Wrap THEN a + b - Wrap ELSE a + b

\* Mutant: the distance, not the difference.
MinusDistance(a, b) == IF a >= b THEN a - b ELSE b - a

Minus(a, b) == IF a >= b THEN a - b ELSE a - b + Wrap

\* Mutant: the test compares clock readings instead of their difference.
expiredAbsolute(from, limit) == ticks >= from + limit

expired(from, limit) == Minus(ticks, from) >= limit

Init ==
    /\ ticks \in Count
    /\ pc = "idle"
    /\ start = ticks /\ inner = ticks
    /\ outcome = "none"
    /\ elapsed = 0 /\ waited = 0

\* The histories stop counting at one wrap, which no wait should reach.
Later(time, d) == IF time + d > Wrap THEN Wrap ELSE time + d

\* The processor works for d ticks.
Work(d) ==
    /\ ticks' = Plus(ticks, d)
    /\ elapsed' = Later(elapsed, d)

\* Between waits.
Idle(d) ==
    /\ pc = "idle"
    /\ ticks' = Plus(ticks, d)
    /\ UNCHANGED <<pc, start, inner, outcome, elapsed, waited>>

\* t = ticks(), then the loop's first call.
Begin ==
    /\ pc = "idle"
    /\ pc' = "inner1"
    /\ start' = ticks /\ inner' = ticks
    /\ elapsed' = 0 /\ waited' = 0
    /\ outcome' = "none"
    /\ UNCHANGED ticks

\* One more turn of an inner loop.
InnerPoll(d) ==
    /\ pc \in {"inner1", "inner2"}
    /\ ~expired(inner, InnerLimit)
    /\ Work(d)
    /\ waited' = Later(waited, d)
    /\ UNCHANGED <<pc, start, inner, outcome>>

\* An inner wait ends, with or without success: another one starts, or the
\* outer loop comes round.
InnerEnds(d) ==
    /\ pc \in {"inner1", "inner2"}
    /\ Work(d)
    /\ \/ /\ pc = "inner1" /\ pc' = "inner2"
          /\ inner' = ticks' /\ waited' = 0
       \/ /\ pc' = "outer"
          /\ UNCHANGED <<inner, waited>>
    /\ UNCHANGED <<start, outcome>>

\* What the loop waits for has happened.  Some loops look at the deadline
\* first, some at the condition: either may be seen in a turn where both hold.
ConditionMet ==
    /\ pc = "outer"
    /\ pc' = "idle"
    /\ outcome' = "met"
    /\ UNCHANGED <<ticks, start, inner, elapsed, waited>>

\* Mutant: the start is taken again in every turn.
OuterPollRestarting(d) ==
    /\ pc = "outer"
    /\ ~expired(start, OuterLimit)
    /\ Work(d)
    /\ start' = ticks
    /\ inner' = ticks' /\ waited' = 0
    /\ pc' = "inner1"
    /\ UNCHANGED outcome

OuterPoll(d) ==
    /\ pc = "outer"
    /\ ~expired(start, OuterLimit)
    /\ Work(d)
    /\ inner' = ticks' /\ waited' = 0
    /\ pc' = "inner1"
    /\ UNCHANGED <<start, outcome>>

OuterTimeout ==
    /\ pc = "outer"
    /\ expired(start, OuterLimit)
    /\ pc' = "idle"
    /\ outcome' = "timeout"
    /\ UNCHANGED <<ticks, start, inner, elapsed, waited>>

Next ==
    \/ \E d \in Steps : Idle(d) \/ InnerPoll(d) \/ InnerEnds(d) \/ OuterPoll(d)
    \/ Begin \/ ConditionMet \/ OuterTimeout

Spec == Init /\ [][Next]_vars

-----------------------------------------------------------------------------
(* Properties *)

\* The latest a poll can come: the outer test just missed its deadline, and
\* both inner waits ran to theirs.
Latest == OuterLimit + 2 * InnerLimit + 5 * MaxStep - 3

TypeOK ==
    /\ ticks \in Count /\ start \in Count /\ inner \in Count
    /\ pc \in {"idle", "outer", "inner1", "inner2"}
    /\ outcome \in {"none", "met", "timeout"}
    /\ elapsed \in 0..Wrap
    /\ waited \in 0..Wrap

\* A wait is never cut short by a counter that wrapped since its start.
NeverEarly == outcome = "timeout" => elapsed >= OuterLimit

\* A wait never runs through an expired deadline unnoticed: while it lasts,
\* the 16-bit difference is the true time, and the excess is bounded.
NeverMissed ==
    pc # "idle" => Minus(ticks, start) = elapsed /\ elapsed <= Latest

-----------------------------------------------------------------------------
(* Liveness *)

\* The processor runs, so time passes in every wait; the conditions that
\* outer and inner loops wait for may never hold.
TimePasses == pc # "idle" /\ Next /\ ticks' # ticks

FairSpec == Spec /\ WF_vars(TimePasses) /\ WF_vars(OuterTimeout)

\* Whatever the chip, the server or the host does, every wait ends.
WaitEnds == pc # "idle" ~> pc = "idle"
=============================================================================
