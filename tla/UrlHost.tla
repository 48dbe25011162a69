------------------------------ MODULE UrlHost ------------------------------
(***************************************************************************)
(* The URL of a request: url_parse_impl() of src/url_parse.h, which the    *)
(* bootloader and the application API share; the IPv4 literals of dns()    *)
(* and ota_request(); the labels of a DNS query; and the grammar that      *)
(* tools/eeprom.py has in its place.                                       *)
(*                                                                         *)
(* The URL is what follows "http://", chosen as it is read.  "a" stands    *)
(* for a letter or hyphen, " " for a byte that is never allowed, and the   *)
(* limits are scaled to match the digits that are used.                    *)
(***************************************************************************)
EXTENDS Integers, Sequences, FiniteSets

CONSTANTS
    MaxUrl,    \* 100, less the seven bytes of the scheme
    MaxPath,   \* bound: bytes behind the slash
    MaxLabel,  \* 63
    MaxPort,   \* 65535
    MaxOctet,  \* 255
    MaxDigits  \* 3

UrlAssumption == {MaxUrl, MaxPath, MaxLabel, MaxPort, MaxOctet, MaxDigits} \subseteq Nat \ {0}

Digits == {"0", "6"}
HostTokens == Digits \cup {"a", "."}
Tokens == HostTokens \cup {":", "/", "#", " "}
Digit(c) == IF c = "0" THEN 0 ELSE 6

VARIABLES
    pc,      \* "host", "port", "path", "numeric", "literal", "accepted", "refused", "malformed"
    url,     \* what has been read
    host,    \* u->host
    label,   \* characters of the present label
    port,    \* u->port
    ip, octet, digits, pos  \* the literal's octets, the present one, its digits, and how far it is read

literal == <<ip, octet, digits, pos>>
vars == <<pc, url, host, label, port, literal>>

Init ==
    /\ pc = "host" /\ url = <<>> /\ host = <<>> /\ label = 0 /\ port = 80
    /\ ip = <<>> /\ octet = 0 /\ digits = 0 /\ pos = 0

Read(c) == url' = Append(url, c)

-----------------------------------------------------------------------------
(* url_parse_impl(): one action for each kind of turn of its loops *)

LabelFull == label >= MaxLabel

Host(c) ==
    /\ pc = "host" /\ Read(c)
    /\ IF \/ c \in HostTokens \ {"."} /\ LabelFull
          \/ c \in {".", ":", "/"} /\ label = 0
          \/ c \in {"#", " "}
         THEN pc' = "refused" /\ UNCHANGED <<host, label, port>>
         ELSE /\ pc' = CASE c = ":" -> "port" [] c = "/" -> "path" [] OTHER -> "host"
              /\ host' = IF c \in HostTokens THEN Append(host, c) ELSE host
              /\ label' = CASE c = "." -> 0 [] c \in {":", "/"} -> label [] OTHER -> label + 1
              /\ port' = IF c = ":" THEN 0 ELSE port
    /\ UNCHANGED literal

\* Mutant: the last digit is not looked at.
TooHighLoosely(v) == port > MaxPort \div 10

\* port > 6553 || (port == 6553 && *p > '5')
TooHigh(v) == port > MaxPort \div 10 \/ (port = MaxPort \div 10 /\ v > MaxPort % 10)

Port(c) ==
    /\ pc = "port" /\ Read(c)
    /\ IF c \in Digits /\ ~TooHigh(Digit(c))
         THEN port' = port * 10 + Digit(c) /\ UNCHANGED pc
         ELSE pc' = (IF c = "/" /\ port # 0 THEN "path" ELSE "refused") /\ UNCHANGED port
    /\ UNCHANGED <<host, label, literal>>

Path(c) ==
    /\ pc = "path" /\ Read(c)
    /\ \A k \in 1..(Len(url) - MaxPath) : url[k] # "/"
    /\ pc' = IF c \in {"#", " "} THEN "refused" ELSE pc
    /\ UNCHANGED <<host, label, port, literal>>

\* The terminating zero.
End ==
    /\ pc \in {"host", "port", "path"}
    /\ pc' = IF pc = "path" THEN "numeric" ELSE "malformed"
    /\ UNCHANGED <<url, host, label, port, literal>>

-----------------------------------------------------------------------------
(* The literal of dns() and of ota_request() *)

Numeric == \A k \in DOMAIN host : host[k] # "a"

IsNumeric ==
    /\ pc = "numeric"
    /\ pc' = IF Numeric THEN "literal" ELSE "accepted"
    /\ UNCHANGED <<url, host, label, port, literal>>

\* *host, after pos steps of host++
Character == IF pos < Len(host) THEN host[pos + 1] ELSE "NUL"

OctetDigit ==
    /\ pc = "literal" /\ Character \in Digits
    /\ octet' = octet * 10 + Digit(Character) /\ digits' = digits + 1 /\ pos' = pos + 1
    /\ pc' = IF digits' > MaxDigits \/ octet' > MaxOctet THEN "malformed" ELSE pc
    /\ UNCHANGED <<url, host, label, port, ip>>

OctetEnd ==
    /\ pc = "literal" /\ Character \notin Digits
    /\ IF digits = 0 \/ Character # (IF Len(ip) = 3 THEN "NUL" ELSE ".")
         THEN pc' = "malformed" /\ UNCHANGED literal
         ELSE /\ ip' = Append(ip, octet) /\ octet' = 0 /\ digits' = 0 /\ pos' = pos + 1
              /\ pc' = IF Len(ip) = 3 THEN "accepted" ELSE pc
    /\ UNCHANGED <<url, host, label, port>>

Next ==
    \/ Len(url) < MaxUrl /\ \E c \in Tokens : Host(c) \/ Port(c) \/ Path(c)
    \/ End \/ IsNumeric \/ OctetDigit \/ OctetEnd

Spec == Init /\ [][Next]_vars

-----------------------------------------------------------------------------
(* The reference: valid_url() of tools/eeprom.py *)

Value(d) ==
    LET v[k \in 0..Len(d)] == IF k = 0 THEN 0 ELSE v[k - 1] * 10 + Digit(d[k])
    IN  v[Len(d)]

\* [A-Za-z0-9-]{1,63}(\.[A-Za-z0-9-]{1,63})*
IsHost(h) ==
    /\ h # <<>> /\ h[1] # "." /\ h[Len(h)] # "."
    /\ \A k \in DOMAIN h : h[k] \in HostTokens
    /\ \A k \in 1..(Len(h) - 1) : h[k] # "." \/ h[k + 1] # "."
    /\ \A k \in 1..(Len(h) - MaxLabel) : \E j \in k..(k + MaxLabel) : h[j] = "."

\* len(octets) == 4, 1 <= len(o) <= 3, int(o) <= 255
IsAddress(h) ==
    LET dots == {0, Len(h) + 1} \cup {k \in DOMAIN h : h[k] = "."}
    IN  /\ Cardinality(dots) = 5
        /\ \A a, b \in dots : a < b /\ (\A c \in dots : c <= a \/ c >= b) =>
               b - a - 1 \in 1..MaxDigits /\ Value(SubSeq(h, a + 1, b - 1)) <= MaxOctet

IsUrl(s) ==
    \E h \in 1..Len(s) : \E q \in h..(Len(s) - 1) :
        /\ IsHost(SubSeq(s, 1, h))
        /\ q # h => /\ s[h + 1] = ":"
                    /\ \A k \in (h + 2)..q : s[k] \in Digits
                    /\ Value(SubSeq(s, h + 2, q)) \in 1..MaxPort
        /\ s[q + 1] = "/"
        /\ \A k \in (q + 2)..Len(s) : s[k] \notin {"#", " "}
        /\ (\A k \in 1..h : s[k] # "a") => IsAddress(SubSeq(s, 1, h))

\* Whatever begins a URL becomes one by one of these.
Rests == {<<>>, <<"/">>, <<"a", "/">>, <<".", "a", "/">>, <<"6", "/">>}

-----------------------------------------------------------------------------
(* Properties *)

TypeOK ==
    /\ pc \in {"host", "port", "path", "numeric", "literal", "accepted", "refused", "malformed"}
    /\ label \in 0..MaxLabel
    /\ port \in 0..MaxPort \cup {80}
    /\ Len(ip) <= 4 /\ octet <= MaxOctet * 10 + 9 /\ digits <= MaxDigits + 1

\* docs/OTA.md: "The application API and metadata generator reject invalid
\* URLs before committing PENDING."  The two, written apart in C and as a
\* regular expression, and the bootloader accept the same URLs.
OneGrammar ==
    /\ pc = "accepted" => IsUrl(url)
    /\ pc = "malformed" => ~IsUrl(url)
    /\ pc = "refused" => \A t \in Rests : ~IsUrl(url \o t)

\* docs/OTA.md: "Numeric-only hosts are parsed as IPv4 and never sent to DNS,
\* even when malformed": a host without an address has a character that no
\* address has, and an address is the one that is written.
NumericNeverAsked ==
    pc = "accepted" =>
        IF ip = <<>> THEN \E k \in DOMAIN host : host[k] = "a"
        ELSE IsAddress(host) /\ \A k \in 1..4 : ip[k] <= MaxOctet
=============================================================================
