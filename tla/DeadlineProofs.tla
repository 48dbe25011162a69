--------------------------- MODULE DeadlineProofs ---------------------------
(***************************************************************************)
(* For every counter width and every pair of deadlines that leave the      *)
(* margin of DeadlineAssumption: a wait neither ends early nor runs past   *)
(* its deadline by more than two inner waits.                              *)
(***************************************************************************)
EXTENDS Deadline, TLAPS

\* The latest start of an inner wait, after the outer test and, for the
\* second one, after a first inner wait that ran to its own deadline.
FirstInner == OuterLimit + MaxStep - 1
SecondInner == FirstInner + InnerLimit + 2 * MaxStep - 1

Clocks ==
    /\ pc # "idle" => Minus(ticks, start) = elapsed
    /\ pc \in {"inner1", "inner2"} =>
          /\ Minus(ticks, inner) = waited
          /\ waited <= InnerLimit + MaxStep - 1

Pace ==
    /\ pc = "inner1" => elapsed <= waited + FirstInner
    /\ pc = "inner2" => elapsed <= waited + SecondInner
    /\ pc = "outer" => elapsed <= Latest

IInv ==
    /\ TypeOK
    /\ Clocks
    /\ Pace
    /\ outcome = "timeout" => pc = "idle"
    /\ NeverEarly

\* Counter arithmetic: while the true time is below one wrap, the 16-bit
\* difference of two readings is the time between them.
LEMMA Tracks ==
    ASSUME NEW t \in Count, NEW s \in Count, NEW e \in Nat, NEW d \in Nat,
           Minus(t, s) = e, e + d < Wrap
    PROVE  /\ Plus(t, d) \in Count
           /\ Minus(Plus(t, d), s) = e + d
           /\ Later(e, d) = e + d
BY DeadlineAssumption DEF Count, Minus, Plus, Later

LEMMA Reset ==
    ASSUME NEW t \in Count
    PROVE  Minus(t, t) = 0
BY DeadlineAssumption DEF Count, Minus

LEMMA WorkType ==
    ASSUME TypeOK, NEW d \in Steps, Work(d)
    PROVE  ticks' \in Count /\ elapsed' \in 0..Wrap
BY DeadlineAssumption DEF TypeOK, Steps, Work, Count, Plus, Later

LEMMA Initially == Init => IInv
BY DeadlineAssumption DEF Init, IInv, TypeOK, Clocks, Pace, NeverEarly, Count

\* A turn of a loop, seen from the outer clock: it stays below one wrap.
LEMMA OuterTurn ==
    ASSUME IInv, pc # "idle", pc = "outer" => elapsed < OuterLimit,
           NEW d \in Steps, Work(d)
    PROVE  /\ elapsed' = elapsed + d
           /\ Minus(ticks', start) = elapsed'
           /\ ticks' \in Count
           /\ elapsed' \in 0..Wrap
<1>1. elapsed \in Nat /\ d \in Nat /\ d <= MaxStep
      BY DeadlineAssumption DEF IInv, TypeOK, Steps
<1>2. elapsed + d < Wrap
  <2>1. /\ waited \in Nat
        /\ pc \in {"inner1", "inner2"} => waited <= InnerLimit + MaxStep - 1
        BY DEF IInv, TypeOK, Clocks
  <2>2. CASE pc = "outer"
        BY <1>1, <2>2, DeadlineAssumption
  <2>3. CASE pc = "inner1"
        BY <1>1, <2>1, <2>3, DeadlineAssumption DEF IInv, Pace, FirstInner
  <2>4. CASE pc = "inner2"
        BY <1>1, <2>1, <2>4, DeadlineAssumption
        DEF IInv, Pace, FirstInner, SecondInner
  <2> QED
        BY <2>2, <2>3, <2>4 DEF IInv, TypeOK
<1>3. Minus(ticks, start) = elapsed
      BY DEF IInv, Clocks
<1> QED
      BY <1>1, <1>2, <1>3, Tracks, WorkType DEF IInv, TypeOK, Work

LEMMA Step == IInv /\ [Next]_vars => IInv'
<1> SUFFICES ASSUME IInv, [Next]_vars PROVE IInv'
    OBVIOUS
<1>1. ASSUME NEW d \in Steps, Idle(d) PROVE IInv'
      BY <1>1, DeadlineAssumption
      DEF Idle, IInv, TypeOK, Clocks, Pace, NeverEarly, Plus, Count, Steps
<1>2. ASSUME NEW d \in Steps, InnerPoll(d) PROVE IInv'
  <2>1. /\ elapsed' = elapsed + d /\ Minus(ticks', start) = elapsed'
        /\ ticks' \in Count /\ elapsed' \in 0..Wrap
        BY <1>2, OuterTurn DEF InnerPoll
  <2>2. waited < InnerLimit
        BY <1>2, DeadlineAssumption DEF InnerPoll, expired, IInv, TypeOK, Clocks
  <2>3. waited' = waited + d /\ Minus(ticks', inner) = waited'
    <3>1. waited + d < Wrap /\ waited \in Nat /\ d \in Nat
          BY <2>2, DeadlineAssumption DEF IInv, TypeOK, Steps
    <3>2. Minus(ticks, inner) = waited
          BY <1>2 DEF InnerPoll, IInv, Clocks
    <3> QED
          BY <1>2, <3>1, <3>2, Tracks DEF InnerPoll, Work, IInv, TypeOK
  <2>4. TypeOK'
        BY <1>2, <2>1, <2>2, <2>3, DeadlineAssumption
        DEF InnerPoll, IInv, TypeOK, Steps
  <2>5. Clocks'
    <3>1. inner' = inner /\ start' = start
          BY <1>2 DEF InnerPoll
    <3>2. waited' <= InnerLimit + MaxStep - 1
          BY <2>2, <2>3, DeadlineAssumption DEF IInv, TypeOK, Steps
    <3> QED
          BY <2>1, <2>3, <3>1, <3>2 DEF Clocks
  <2>6. Pace'
        BY <1>2, <2>1, <2>3, DeadlineAssumption
        DEF InnerPoll, IInv, TypeOK, Pace, Steps, FirstInner, SecondInner
  <2> QED
        BY <1>2, <2>4, <2>5, <2>6 DEF InnerPoll, IInv, NeverEarly
<1>3. ASSUME NEW d \in Steps, InnerEnds(d) PROVE IInv'
  <2>1. /\ elapsed' = elapsed + d /\ Minus(ticks', start) = elapsed'
        /\ ticks' \in Count /\ elapsed' \in 0..Wrap
        BY <1>3, OuterTurn DEF InnerEnds
  <2>2. Minus(ticks', ticks') = 0
        BY <2>1, Reset
  <2>3. CASE pc = "inner1" /\ pc' = "inner2" /\ inner' = ticks' /\ waited' = 0
    <3>1. elapsed' <= waited' + SecondInner
          BY <1>3, <2>1, <2>3, DeadlineAssumption
          DEF IInv, TypeOK, Clocks, Pace, Steps, FirstInner, SecondInner
    <3> QED
          BY <1>3, <2>1, <2>2, <2>3, <3>1, DeadlineAssumption
          DEF InnerEnds, IInv, TypeOK, Clocks, Pace, NeverEarly
  <2>4. CASE pc' = "outer" /\ UNCHANGED <<inner, waited>>
    <3>1. elapsed' <= Latest
          BY <1>3, <2>1, DeadlineAssumption
          DEF InnerEnds, IInv, TypeOK, Clocks, Pace, Steps, FirstInner, SecondInner, Latest
    <3>2. TypeOK' /\ Pace' /\ (outcome' = "timeout" => pc' = "idle") /\ NeverEarly'
          BY <1>3, <2>1, <2>4, <3>1
          DEF InnerEnds, IInv, TypeOK, Pace, NeverEarly
    <3> QED
          BY <1>3, <2>1, <2>4, <3>2 DEF InnerEnds, IInv, Clocks
  <2> QED
        BY <1>3, <2>3, <2>4 DEF InnerEnds
<1>4. ASSUME NEW d \in Steps, OuterPoll(d) PROVE IInv'
  <2>1. elapsed < OuterLimit
        BY <1>4, DeadlineAssumption DEF OuterPoll, expired, IInv, TypeOK, Clocks
  <2>2. /\ elapsed' = elapsed + d /\ Minus(ticks', start) = elapsed'
        /\ ticks' \in Count /\ elapsed' \in 0..Wrap
        BY <1>4, <2>1, OuterTurn DEF OuterPoll
  <2>3. Minus(ticks', ticks') = 0
        BY <2>2, Reset
  <2>4. elapsed' <= FirstInner
        BY <2>2, <2>1, DeadlineAssumption DEF FirstInner, Steps, IInv, TypeOK
  <2> QED
        BY <1>4, <2>2, <2>3, <2>4, DeadlineAssumption
        DEF OuterPoll, IInv, TypeOK, Clocks, Pace, NeverEarly, FirstInner
<1>5. CASE Begin
      BY <1>5, Reset, DeadlineAssumption
      DEF Begin, IInv, TypeOK, Clocks, Pace, NeverEarly, FirstInner
<1>6. CASE ConditionMet
      BY <1>6 DEF ConditionMet, IInv, TypeOK, Clocks, Pace, NeverEarly
<1>7. CASE OuterTimeout
      BY <1>7, DeadlineAssumption
      DEF OuterTimeout, IInv, TypeOK, Clocks, Pace, NeverEarly, expired
<1>8. CASE UNCHANGED vars
      BY <1>8 DEF vars, IInv, TypeOK, Clocks, Pace, NeverEarly, Minus
<1> QED
      BY <1>1, <1>2, <1>3, <1>4, <1>5, <1>6, <1>7, <1>8 DEF Next

THEOREM Invariance == Spec => []IInv
BY Initially, Step, PTL DEF Spec

\* Every variable keeps its type; the counter stays in its width.
THEOREM TypeCorrect == Spec => []TypeOK
<1>1. IInv => TypeOK
      BY DEF IInv
<1> QED
      BY <1>1, Invariance, PTL

\* No wait of the bootloader is cut short, wherever the counter stood when
\* it began (expired, src/platform.c).
THEOREM NotCutShort == Spec => []NeverEarly
<1>1. IInv => NeverEarly
      BY DEF IInv
<1> QED
      BY <1>1, Invariance, PTL

\* No wait laps the counter: the 16-bit difference is the true time in every
\* turn, and the excess over the deadline is bounded.
THEOREM NotLapped == Spec => []NeverMissed
<1>1. IInv => NeverMissed
  <2> SUFFICES ASSUME IInv, pc # "idle" PROVE elapsed <= Latest
      BY DEF IInv, Clocks, NeverMissed
  <2> QED
      BY DeadlineAssumption
      DEF IInv, TypeOK, Clocks, Pace, FirstInner, SecondInner, Latest
<1> QED
      BY <1>1, Invariance, PTL
=============================================================================
