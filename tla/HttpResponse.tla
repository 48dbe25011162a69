---------------------------- MODULE HttpResponse ----------------------------
(***************************************************************************)
(* http_open() behind its request, http_header() and http_byte() of        *)
(* src/http.c: the response's header, byte by byte, through a buffer that  *)
(* net_recv fills in pieces of any length and that dhcp() and dns() use    *)
(* between two attempts.                                                   *)
(*                                                                         *)
(* A byte is a token: CR, LF, NUL; "S" stands for "HTTP/1.1 200"; "L", "T" *)
(* and "X" for the name, with its colon, of Content-Length, of a transfer  *)
(* or content encoding, and of any other header; " " for a space, or a tab *)
(* outside the status line; the digits for themselves.  The limits are     *)
(* scaled to match.                                                        *)
(***************************************************************************)
EXTENDS Integers, Sequences

CONSTANTS
    Tokens,    \* what the server sends
    Chunk,     \* bound: bytes of one net_recv
    Attempts,  \* bound: connections
    Watched,   \* bound: body bytes that are read
    MaxTotal,  \* 2048
    MaxLine,   \* 255
    APP_END,
    Sizes      \* requested image sizes

ResponseAssumption ==
    /\ Tokens \subseteq {"CR", "LF", "NUL", "S", "L", "T", "X", " ", "0", "1"}
    /\ {Chunk, Attempts, MaxTotal, MaxLine, APP_END} \subseteq Nat \ {0}
    /\ Watched \in Nat
    /\ Sizes \subseteq 1..APP_END

VARIABLES
    pc,              \* "idle", "char", "lf", "body", "failed"
    expected,        \* cfg.image_size
    packet,          \* the packet buffer
    rx_pos, rx_len,  \* http_byte's place in it
    total, line,     \* http_open's byte count and page[0..n)
    first, seen,     \* no status line yet; a Content-Length was accepted
    attempt,         \* bound
    sent,            \* history: what the server sent on this connection
    silent,          \* history: the connection ended or was silent for 3 s
    taken            \* history: the bytes that http_byte returned

buffer == <<packet, rx_pos, rx_len>>
header == <<total, line, first, seen>>
vars == <<pc, expected, buffer, header, attempt, sent, silent, taken>>

Init ==
    /\ pc = "idle"
    /\ expected \in Sizes
    /\ packet = <<>> /\ rx_pos = 0 /\ rx_len = 0
    /\ total = 0 /\ line = <<>> /\ first = TRUE /\ seen = FALSE
    /\ attempt = 0
    /\ sent = <<>> /\ silent = FALSE /\ taken = <<>>

\* Mutant: the buffer of the last connection is still read.
KeepPlace == UNCHANGED <<rx_pos, rx_len>>

\* rx_pos = rx_len = 0
ResetPlace == rx_pos' = 0 /\ rx_len' = 0

\* An attempt: dhcp() or dns() receives into the buffer, the connection is
\* made and the request is sent.
Open ==
    /\ pc \in {"idle", "failed"}
    /\ attempt < Attempts
    /\ attempt' = attempt + 1
    /\ packet' = [k \in 1..Chunk |-> "NUL"]
    /\ ResetPlace
    /\ total' = 0 /\ line' = <<>> /\ first' = TRUE /\ seen' = FALSE
    /\ sent' = <<>> /\ silent' = FALSE /\ taken' = <<>>
    /\ pc' = "char"
    /\ UNCHANGED expected

-----------------------------------------------------------------------------
(* http_byte() *)

Reading == pc \in {"char", "lf"} \/ (pc = "body" /\ Len(taken) < total + Watched)

\* net_recv returns a piece of the stream.
Fetch(bytes) ==
    /\ Reading /\ rx_pos = rx_len
    /\ packet' = bytes
    /\ rx_pos' = 0 /\ rx_len' = Len(bytes)
    /\ sent' = sent \o bytes
    /\ UNCHANGED <<pc, expected, header, attempt, silent, taken>>

\* net_recv returns -1, or 3000 ms have passed: whatever came last is dropped.
Silence ==
    /\ Reading /\ rx_pos = rx_len
    /\ silent' = TRUE
    /\ pc' = "failed"
    /\ UNCHANGED <<expected, buffer, header, attempt, sent, taken>>

\* packet[rx_pos++]
Take(c) ==
    /\ rx_pos # rx_len
    /\ c = packet[rx_pos + 1]
    /\ rx_pos' = rx_pos + 1
    /\ taken' = Append(taken, c)
    /\ UNCHANGED <<expected, packet, rx_len, attempt, sent, silent>>

Body(c) ==
    /\ pc = "body" /\ Reading
    /\ Take(c)
    /\ UNCHANGED <<pc, header>>

-----------------------------------------------------------------------------
(* http_header() *)

Names == {"L", "T", "X"}

\* The first colon ends the name, and nothing in front of it is a space.
Colon(l, k) == l[k] \in Names /\ \A j \in 1..(k - 1) : l[j] \in {"0", "1"}

Name(l, k) == IF k = 1 THEN l[1] ELSE "X"

Digit(c) == IF c = "0" THEN 0 ELSE 1

TooLarge(v) == v > APP_END

\* The value, or APP_END + 1 when it is out of range.
Decimal(l, from, to) ==
    LET v[j \in (from - 1)..to] ==
          LET next == v[j - 1] * 10 + Digit(l[j])
          IN  IF j < from THEN 0
              ELSE IF v[j - 1] > APP_END \div 10 \/ TooLarge(next) THEN APP_END + 1 ELSE next
    IN  v[to]

\* Digits, and nothing but spaces behind them.
Number(l, from, to) ==
    /\ \A j \in from..to : l[j] \in {"0", "1"}
    /\ \A j \in (to + 1)..Len(l) : l[j] = " "

LengthOK(l) ==
    \E from \in 2..Len(l) : \E to \in from..Len(l) :
        /\ \A j \in 2..(from - 1) : l[j] = " "
        /\ Number(l, from, to)
        /\ Decimal(l, from, to) = expected

\* Mutant: a second Content-Length replaces the first.
LengthAgain(l) == LengthOK(l)

LengthOnce(l) == ~seen /\ LengthOK(l)

GoodHeader(l) ==
    \E k \in 1..Len(l) :
        /\ Colon(l, k)
        /\ Name(l, k) # "T"
        /\ Name(l, k) = "L" => LengthOnce(l)

StatusOK(l) == Len(l) >= 1 /\ l[1] = "S" /\ (Len(l) > 1 => l[2] = " ")

-----------------------------------------------------------------------------
(* http_open() *)

Fail == pc' = "failed" /\ UNCHANGED <<line, first, seen>>

\* ++total > 2048
Over == total' > MaxTotal

Char(c) ==
    /\ pc = "char"
    /\ Take(c)
    /\ total' = total + 1
    /\ IF Over \/ c \in {"LF", "NUL"} \/ (c # "CR" /\ Len(line) >= MaxLine)
         THEN Fail
         ELSE /\ pc' = IF c = "CR" THEN "lf" ELSE "char"
              /\ line' = IF c = "CR" THEN line ELSE Append(line, c)
              /\ UNCHANGED <<first, seen>>

Accept == pc' = "body" /\ UNCHANGED <<line, first, seen>>

NextLine(named) ==
    /\ pc' = "char" /\ line' = <<>>
    /\ first' = FALSE /\ seen' = (seen \/ named)

\* The line feed, and what http_open does with the line.
Lf(c) ==
    /\ pc = "lf"
    /\ Take(c)
    /\ total' = total + 1
    /\ IF c # "LF" \/ Over THEN Fail
       ELSE IF first THEN (IF StatusOK(line) THEN NextLine(FALSE) ELSE Fail)
       ELSE IF line = <<>> THEN (IF seen THEN Accept ELSE Fail)
       ELSE IF GoodHeader(line) THEN NextLine(line[1] = "L")
       ELSE Fail

Server == \E k \in 1..Chunk : \E bytes \in [1..k -> Tokens] : Fetch(bytes)

Client == \E c \in Tokens \cup {"NUL"} : Char(c) \/ Lf(c) \/ Body(c)

Next == Open \/ Server \/ Silence \/ Client

Spec == Init /\ [][Next]_vars

-----------------------------------------------------------------------------
(* The reference: a response header, as it is written *)

Seqs(S, k) == UNION {[1..j -> S] : j \in 0..k}
Crlf == <<"CR", "LF">>
Visible == Tokens \ {"CR", "LF", "NUL"}

Short(L) == {l \in L : Len(l) <= MaxLine}

Status == Short({<<"S">>} \cup {<<"S", " ">> \o t : t \in Seqs(Visible, MaxLine)})

Value(d) ==
    LET v[j \in 0..Len(d)] == IF j = 0 THEN 0 ELSE v[j - 1] * 10 + Digit(d[j])
    IN  v[Len(d)]

Lengths(size) ==
    LET numbers == {d \in Seqs({"0", "1"}, MaxLine) : d # <<>> /\ Value(d) = size}
        spaces == Seqs({" "}, MaxLine)
    IN  Short({<<"L">> \o a \o d \o b : a \in spaces, d \in numbers, b \in spaces})

Others ==
    Short({d \o <<x>> \o t : d \in Seqs({"0", "1"}, MaxLine), x \in Names \cap Tokens, t \in Seqs(Visible, MaxLine)})
    \ {<<x>> \o t : x \in {"L", "T"}, t \in Seqs(Visible, MaxLine)}

\* Status line, length and empty line take nine bytes or more, and every other
\* header at least three.
Responses(size) ==
    LET lines == {l \in Others : Len(l) <= MaxTotal - 11}
        groups == UNION {[1..j -> lines] : j \in 0..((MaxTotal - 9) \div 3)}
        text[g \in groups] == IF g = <<>> THEN <<>> ELSE g[1] \o Crlf \o text[Tail(g)]
    IN  {r \in {s \o Crlf \o text[a] \o l \o Crlf \o text[b] \o Crlf :
                  s \in Status, l \in Lengths(size), a \in groups, b \in groups} : Len(r) <= MaxTotal}

Prefixes(R) == UNION {{SubSeq(r, 1, k) : k \in 0..Len(r)} : r \in R}

-----------------------------------------------------------------------------
(* Properties *)

TypeOK ==
    /\ pc \in {"idle", "char", "lf", "body", "failed"}
    /\ expected \in Sizes
    /\ rx_len \in 0..Chunk /\ rx_pos \in 0..rx_len /\ rx_len <= Len(packet)
    /\ total \in 0..(MaxTotal + 1)
    /\ Len(line) <= MaxLine
    /\ first \in BOOLEAN /\ seen \in BOOLEAN

\* However the connection is cut into pieces and whatever earlier connections
\* and other clients left in the buffer, http_byte returns the bytes of this
\* connection, in order: the first body byte follows the header directly.
OfThisConnection == taken \o SubSeq(packet, rx_pos + 1, rx_len) = sent

\* The connection has come to a failure, or to a body that is read as far as
\* it is watched.
Decided == pc = "failed" \/ (pc = "body" /\ Len(taken) = total + Watched)
=============================================================================
