------------------------------- MODULE Inputs -------------------------------
(***************************************************************************)
(* What the board reads and judges byte by byte, each input by itself: the *)
(* data under a CRC, a URL, a DHCP message, a response header.  A behaviour *)
(* is about the one that input names; the variables of the others rest.    *)
(***************************************************************************)
EXTENDS Crc32

CONSTANTS
    MaxUrl, MaxPath, MaxLabel, MaxPort, MaxOctet, MaxDigits,                \* UrlHost's
    Messages, Statics,                                                      \* DhcpReply's
    HttpTokens, Chunk, Attempts, Watched, MaxTotal, MaxLine, APP_END, Sizes \* HttpResponse's

VARIABLES
    input,  \* "crc", "url", "dhcp", "http"
    pc,
    url, host, label, port, ip, octet, digits, pos,             \* UrlHost's
    message, kind, at, type, end, opts, touched, statics, config, \* DhcpReply's
    expected, packet, rx_pos, rx_len, total, line, at_status, seen, attempt, sent, silent, taken \* HttpResponse's

crcVars == vars
urlVars == <<url, host, label, port, ip, octet, digits, pos>>
dhcpVars == <<message, kind, at, type, end, opts, touched, statics, config>>
httpVars == <<expected, packet, rx_pos, rx_len, total, line, at_status, seen, attempt, sent, silent, taken>>
inputVars == <<input, pc, crcVars, urlVars, dhcpVars, httpVars>>

Url == INSTANCE UrlHost
Dhcp == INSTANCE DhcpReply WITH i <- at, found <- opts
Http == INSTANCE HttpResponse WITH Tokens <- HttpTokens, first <- at_status

ASSUME InputAssumption == Url!UrlAssumption /\ Dhcp!MessageAssumption /\ Http!ResponseAssumption

CrcRests == crc = Start /\ again = Start /\ written = <<>> /\ found = <<>> /\ first = 0
UrlRests ==
    /\ url = <<>> /\ host = <<>> /\ label = 0 /\ port = 80
    /\ ip = <<>> /\ octet = 0 /\ digits = 0 /\ pos = 0
DhcpRests ==
    /\ message = <<>> /\ kind = 0 /\ at = 0 /\ type = 0 /\ end = FALSE
    /\ opts = <<>> /\ touched = 0 /\ statics = <<>> /\ config = {}
HttpRests ==
    /\ expected = 0 /\ packet = <<>> /\ rx_pos = 0 /\ rx_len = 0
    /\ total = 0 /\ line = <<>> /\ at_status = TRUE /\ seen = FALSE
    /\ attempt = 0 /\ sent = <<>> /\ silent = FALSE /\ taken = <<>>

InputInit ==
    \/ input = "crc" /\ pc = "rest" /\ Init /\ UrlRests /\ DhcpRests /\ HttpRests
    \/ input = "url" /\ Url!Init /\ CrcRests /\ DhcpRests /\ HttpRests
    \/ input = "dhcp" /\ Dhcp!Init /\ CrcRests /\ UrlRests /\ HttpRests
    \/ input = "http" /\ Http!Init /\ CrcRests /\ UrlRests /\ DhcpRests

InputNext ==
    \/ input = "crc" /\ Next /\ UNCHANGED <<input, pc, urlVars, dhcpVars, httpVars>>
    \/ input = "url" /\ Url!Next /\ UNCHANGED <<input, crcVars, dhcpVars, httpVars>>
    \/ input = "dhcp" /\ Dhcp!Next /\ UNCHANGED <<input, crcVars, urlVars, httpVars>>
    \/ input = "http" /\ Http!Next /\ UNCHANGED <<input, crcVars, urlVars, dhcpVars>>

InputSpec == InputInit /\ [][InputNext]_inputVars

\* URL: the boot parser, the application API and the generator accept the
\* same ones, and a numeric host is never looked up.
UrlsAgree == input = "url" => Url!TypeOK /\ Url!OneGrammar /\ Url!NumericNeverAsked

\* DHCP: what is taken, and what is read from it, is what the list says.
OffersAgree == input = "dhcp" => Dhcp!TypeOK /\ Dhcp!Agrees

\* DHCP: nothing of a message that is dropped is kept.
OffersWhole == [][input = "dhcp" => Dhcp!NothingHalfTaken]_inputVars

\* The reference sets are computed once.
Right == [s \in Sizes |-> Http!Responses(s)]
Beginnings == [s \in Sizes |-> Http!Prefixes(Right[s])]

\* HTTP: http_open accepts exactly the headers that the reference can write:
\* what it accepts is one of them, and what it refuses is not the beginning
\* of one.
AcceptsExactly ==
    input = "http" =>
        /\ Http!TypeOK
        /\ pc = "body" /\ Len(taken) = total => taken \in Right[expected]
        /\ pc = "failed" /\ ~silent => taken \notin Beginnings[expected]
=============================================================================
