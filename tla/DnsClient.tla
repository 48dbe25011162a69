------------------------------ MODULE DnsClient ------------------------------
(***************************************************************************)
(* dns() of src/dns.c for a host that is not numeric: three queries, each  *)
(* with a window of two seconds, over a network that delays, repeats and   *)
(* loses replies, while others send datagrams to the same port.  What a    *)
(* reply holds is DnsReply's matter: here it answers one query or is of no *)
(* use.  The ID of a query is the clock, XORed with a constant.            *)
(***************************************************************************)
EXTENDS Integers

CONSTANTS
    Hosts,   \* names in requests
    Window,  \* 2000 ms
    Wrap,    \* the 16-bit clock's period
    MaxAge   \* how long the network and the chip keep a reply

Server == "server"
Tries == 3

ClientAssumption ==
    /\ {Window, Wrap, MaxAge} \subseteq Nat \ {0}
    /\ MaxAge < Wrap /\ Window < Wrap

VARIABLES
    clock,            \* ticks()
    pc,               \* "idle", "query", "window"
    host, id, t, retry,  \* dns()'s argument and variables
    replies,          \* on the network or in the chip
    rested,           \* history: time has passed since the last lookup
    result            \* what the last lookup gave: {} or the reply

vars == <<clock, pc, host, id, t, retry, replies, rested, result>>

Init ==
    /\ clock \in 0..(Wrap - 1)
    /\ pc = "idle" /\ host \in Hosts
    /\ id = 0 /\ t = 0 /\ retry = 0
    /\ replies = {} /\ rested = TRUE /\ result = {}

\* net_open() succeeds; between two attempts the recovery window has passed.
Lookup ==
    /\ pc = "idle" /\ rested
    /\ host' \in Hosts
    /\ retry' = 0 /\ result' = {} /\ rested' = FALSE
    /\ pc' = "query"
    /\ UNCHANGED <<clock, id, t, replies>>

LastTry == retry' = Tries

Retry ==
    /\ retry' = retry + 1
    /\ pc' = IF LastTry THEN "idle" ELSE "query"

Old(S) == {[r EXCEPT !.latest = FALSE] : r \in S}

\* udp_send() has sent the query, and the server answers it.
Query ==
    /\ pc = "query"
    /\ id' = clock /\ t' = clock
    /\ replies' = Old(replies) \cup {[id |-> clock, host |-> host, latest |-> TRUE, age |-> 0, from |-> Server]}
    /\ pc' = "window"
    /\ UNCHANGED <<clock, host, retry, rested, result>>

\* It has not: the next try, at once.
NotSent ==
    /\ pc = "query"
    /\ Retry
    /\ UNCHANGED <<clock, host, id, t, replies, rested, result>>

Passed == (clock - t) % Wrap

\* Mutant: the window is compared before the difference is taken modulo 2^16.
ExpiredUnwrapped == clock - t >= Window

Expired == Passed >= Window

\* port == 53, the server's address, and dns_parse()
Answers(r) == r.from = Server /\ r.id = id /\ r.host = host

\* udp_recv() returns a reply, or a copy of it.
Receive(r, again) ==
    /\ pc = "window" /\ ~Expired
    /\ IF Answers(r) THEN result' = {r} /\ pc' = "idle" ELSE UNCHANGED <<result, pc>>
    /\ replies' = IF again THEN replies ELSE replies \ {r}
    /\ UNCHANGED <<clock, host, id, t, retry, rested>>

\* Datagrams from elsewhere, with any ID and name.
Strays == [id : {clock, id}, host : Hosts, latest : {FALSE}, age : {0}, from : {"other"}]

WindowEnds ==
    /\ pc = "window" /\ Expired
    /\ Retry
    /\ UNCHANGED <<clock, host, id, t, replies, rested, result>>

\* udp_recv() returns -1, or net_open() fails.
Broken ==
    /\ pc \in {"query", "window"}
    /\ pc' = "idle"
    /\ UNCHANGED <<clock, host, id, t, retry, replies, rested, result>>

\* A tick.  The loop looks at the clock many times in each.
Tick ==
    /\ pc = "window" => ~Expired
    /\ clock' = (clock + 1) % Wrap
    /\ replies' = {[r EXCEPT !.age = @ + 1] : r \in {q \in replies : q.age < MaxAge}}
    /\ rested' = (pc = "idle")
    /\ UNCHANGED <<pc, host, id, t, retry, result>>

Lose(r) == replies' = replies \ {r} /\ UNCHANGED <<clock, pc, host, id, t, retry, rested, result>>

Try == Query \/ NotSent \/ WindowEnds

Network ==
    \/ \E r \in replies : Lose(r) \/ \E again \in BOOLEAN : Receive(r, again)
    \/ \E r \in Strays : Receive(r, TRUE)

Next == Lookup \/ Try \/ Broken \/ Network \/ Tick

Spec == Init /\ [][Next]_vars

-----------------------------------------------------------------------------
(* Properties *)

TypeOK ==
    /\ clock \in 0..(Wrap - 1) /\ id \in 0..(Wrap - 1) /\ t \in 0..(Wrap - 1)
    /\ pc \in {"idle", "query", "window"}
    /\ retry \in 0..Tries
    /\ replies \subseteq [id : 0..(Wrap - 1), host : Hosts, latest : BOOLEAN, age : 0..MaxAge, from : {Server}]

\* What dns() accepts is the server's reply to its latest query and no other:
\* not a late reply to an earlier try or to an earlier lookup, for this host
\* or another, and not a copy of one.  It rests on replies being younger than
\* the clock's period, and on no two queries being sent in one tick.
AnswersLatest == \A r \in result : r.latest /\ r.host = host /\ r.from = Server
=============================================================================
