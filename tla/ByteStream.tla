----------------------------- MODULE ByteStream -----------------------------
(***************************************************************************)
(* What a TCP connection promises to the HTTP client: the bytes of the     *)
(* server's stream, in order, each once, and an end only when the server   *)
(* has ended the connection.                                               *)
(***************************************************************************)
EXTENDS Integers, Sequences

CONSTANT Stream  \* what the server sends

VARIABLES
    arrived,    \* how many bytes of it are here
    over,       \* the server closed or aborted the connection
    delivered,  \* what the client has received
    ended       \* the client was told that the connection is over

streamVars == <<arrived, over, delivered, ended>>

Fresh == arrived = 0 /\ over = FALSE /\ delivered = <<>> /\ ended = FALSE

\* More of the stream, its end, or both at once.
Come ==
    /\ ~over
    /\ arrived' \in arrived..Len(Stream)
    /\ over' \in BOOLEAN
    /\ UNCHANGED <<delivered, ended>>

Deliver ==
    /\ ~ended
    /\ \E k \in (Len(delivered) + 1)..arrived : delivered' = SubSeq(Stream, 1, k)
    /\ UNCHANGED <<arrived, over, ended>>

End ==
    /\ over /\ ~ended /\ ended' = TRUE
    /\ UNCHANGED <<arrived, over, delivered>>

\* Another connection.
Reopen ==
    /\ ended
    /\ arrived' = 0 /\ over' = FALSE /\ delivered' = <<>> /\ ended' = FALSE

Spec == Fresh /\ [][Come \/ Deliver \/ End \/ Reopen]_streamVars
=============================================================================
