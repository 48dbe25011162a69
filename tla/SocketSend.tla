----------------------------- MODULE SocketSend -----------------------------
(***************************************************************************)
(* Opening, connecting and sending on socket 0 of src/w5500.c.  DHCP, DNS  *)
(* and HTTP use the one socket one after the other; the chip answers       *)
(* through a state register and two flags, some time later, and the driver *)
(* gives up after a while.  What could go wrong is that an answer belongs  *)
(* to an earlier send, connection or client.                               *)
(*                                                                         *)
(* The chip is external: it executes a command when it is written or not   *)
(* at all, reports every UDP send within 3 s (its retry time and count     *)
(* keep their reset values, 9 times 200 ms), and reports nothing for a     *)
(* socket that is closed.  TCP may be silent for longer.                   *)
(***************************************************************************)
CONSTANTS Ages, None  \* "this" and "old"; no event

AgesAssumption == Ages = {"this", "old"} /\ None \notin Ages

VARIABLES
    pc,        \* the driver's next step
    mode,      \* Sn_MR
    status,    \* Sn_SR: "closed", "init", "udp", "synsent", "established"
    link,      \* chip: which net_connect the connection belongs to
    inflight,  \* chip: the send it works on
    ok,        \* Sn_IR bit 4, SEND_OK, and the send it is about
    timeout,   \* Sn_IR bit 3, TIMEOUT, likewise
    answer     \* what the driver function returned last

vars == <<pc, mode, status, link, inflight, ok, timeout, answer>>
chip == <<status, link, inflight>>
flags == <<ok, timeout>>

Init ==
    /\ pc = "idle" /\ mode = "udp" /\ status = "closed"
    /\ link = None /\ inflight = None
    /\ ok = None /\ timeout = None
    /\ answer = FALSE

Older(age) == IF age = None THEN None ELSE "old"

Return(value, next) == pc' = next /\ answer' = value

-----------------------------------------------------------------------------
(* net_open(), net_connect() *)

\* A client opens the socket: net_close(), then the mode.  A socket that does
\* not close goes on sending.
Close(m, executed) ==
    /\ pc \in {"idle", "ready"}
    /\ mode' = m
    /\ IF executed
         THEN status' = "closed" /\ link' = None /\ inflight' = None
         ELSE link' = Older(link) /\ UNCHANGED <<status, inflight>>
    /\ pc' = "clear all"
    /\ UNCHANGED <<flags, answer>>

\* write8(1, 2, 255)
ClearAll ==
    /\ pc = "clear all"
    /\ ok' = None /\ timeout' = None
    /\ pc' = "open"
    /\ UNCHANGED <<mode, chip, answer>>

\* net_status() == (mode == 2 ? 0x22 : 0x13)
Opened(m) == status' = IF m = "udp" THEN "udp" ELSE "init"

\* command(1): OPEN works only on a closed socket.
Open(executed) ==
    /\ pc = "open"
    /\ status' = IF executed /\ status = "closed"
                   THEN IF mode = "udp" THEN "udp" ELSE "init"
                   ELSE status
    /\ IF executed /\ Opened(mode)
         THEN IF mode = "udp" THEN Return(TRUE, "ready") ELSE pc' = "connect" /\ UNCHANGED answer
         ELSE Return(FALSE, "idle")
    /\ UNCHANGED <<mode, link, inflight, flags>>

\* destination(), command(4)
Connect(executed) ==
    /\ pc = "connect"
    /\ status' = IF executed /\ status = "init" THEN "synsent" ELSE status
    /\ IF executed THEN pc' = "connecting" /\ UNCHANGED answer ELSE Return(FALSE, "idle")
    /\ UNCHANGED <<mode, link, inflight, flags>>

Connecting ==
    /\ pc = "connecting"
    /\ CASE status = "established" -> Return(TRUE, "ready")
         [] status = "closed" -> Return(FALSE, "idle")
         [] OTHER -> UNCHANGED <<pc, answer>>
    /\ UNCHANGED <<mode, chip, flags>>

\* expired(t, 3000)
ConnectExpires ==
    /\ pc = "connecting"
    /\ Return(FALSE, "idle")
    /\ UNCHANGED <<mode, chip, flags>>

-----------------------------------------------------------------------------
(* net_send() *)

\* There is room, now or later, and the data go to the transmit ring.
Fill ==
    /\ pc = "ready"
    /\ inflight' = Older(inflight) /\ ok' = Older(ok) /\ timeout' = Older(timeout)
    /\ pc' = "clear"
    /\ UNCHANGED <<mode, status, link, answer>>

\* stable(0x20) < n for 3 s: no room.
FillExpires ==
    /\ pc = "ready"
    /\ Return(FALSE, IF mode = "udp" THEN "ready" ELSE "idle")
    /\ UNCHANGED <<mode, chip, flags>>

\* Mutant: the flags stay.
ClearNothing ==
    /\ pc = "clear"
    /\ pc' = "send"
    /\ UNCHANGED <<mode, chip, flags, answer>>

\* write8(1, 2, 0x18)
Clear ==
    /\ pc = "clear"
    /\ ok' = None /\ timeout' = None
    /\ pc' = "send"
    /\ UNCHANGED <<mode, chip, answer>>

\* command(0x20)
Send(executed) ==
    /\ pc = "send"
    /\ inflight' = IF executed /\ status \in {"udp", "established"} THEN "this" ELSE inflight
    /\ IF executed THEN pc' = "sending" /\ UNCHANGED answer ELSE Return(FALSE, "ready")
    /\ UNCHANGED <<mode, status, link, flags>>

\* A poll of the flags; TIMEOUT is looked at first.
Poll ==
    /\ pc = "sending"
    /\ CASE timeout # None -> Return(FALSE, "ready")
         [] timeout = None /\ ok # None -> Return(TRUE, "ready")
         [] OTHER -> UNCHANGED <<pc, answer>>
    /\ UNCHANGED <<mode, chip, flags>>

\* expired(t, 3000): over UDP the chip has answered by then.  After an HTTP
\* request that is not sent, ota() gives up and does not send again.
SendExpires ==
    /\ pc = "sending"
    /\ mode = "udp" => inflight = None /\ ok = None /\ timeout = None
    /\ Return(FALSE, IF mode = "udp" THEN "ready" ELSE "idle")
    /\ UNCHANGED <<mode, chip, flags>>

-----------------------------------------------------------------------------
(* The chip *)

Established ==
    /\ status = "synsent"
    /\ status' = "established" /\ link' = "this"
    /\ UNCHANGED <<pc, mode, inflight, flags, answer>>

Refused ==
    /\ status = "synsent"
    /\ status' = "closed" /\ timeout' = "this"
    /\ UNCHANGED <<pc, mode, link, inflight, ok, answer>>

SentOk ==
    /\ inflight # None
    /\ ok' = inflight /\ inflight' = None
    /\ UNCHANGED <<pc, mode, status, link, timeout, answer>>

SentNot ==
    /\ inflight # None
    /\ timeout' = inflight /\ inflight' = None
    /\ status' = IF mode = "tcp" THEN "closed" ELSE status
    /\ UNCHANGED <<pc, mode, link, ok, answer>>

\* The peer resets the connection.
Dropped ==
    /\ status = "established"
    /\ status' = "closed" /\ inflight' = None
    /\ UNCHANGED <<pc, mode, link, flags, answer>>

\* What the chip owes: over TCP it may be silent.
Report == mode = "udp" /\ (SentOk \/ SentNot)

Chip == Established \/ Refused \/ SentOk \/ SentNot \/ Dropped

Expiry == ConnectExpires \/ SendExpires \/ FillExpires

Driver ==
    \/ \E m \in {"udp", "tcp"}, x \in BOOLEAN : Close(m, x)
    \/ ClearAll \/ \E x \in BOOLEAN : Open(x) \/ Connect(x) \/ Send(x)
    \/ Connecting \/ Fill \/ Clear \/ Poll

Next == Driver \/ Expiry \/ Chip

Spec == Init /\ [][Next]_vars

-----------------------------------------------------------------------------
(* Properties *)

TypeOK ==
    /\ mode \in {"udp", "tcp"}
    /\ status \in {"closed", "init", "udp", "synsent", "established"}
    /\ {link, inflight, ok, timeout} \subseteq Ages \cup {None}
    /\ answer \in BOOLEAN
    /\ pc = "ready" /\ mode = "udp" => status = "udp"
    /\ pc = "connecting" => status \in {"synsent", "established", "closed"}

\* A send or a connect that has not come to an answer.
Awaits == pc \in {"sending", "connecting"}

\* net_send returns 1 only for data that the chip has sent and that belong to
\* this very call, and net_connect only for the connection it asked for.
AnswerIsOurs ==
    answer' /\ Awaits /\ pc' = "ready" =>
        IF pc = "sending" THEN ok = "this" /\ timeout # "this" ELSE link = "this"
=============================================================================
