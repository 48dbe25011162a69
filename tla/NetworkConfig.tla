---------------------------- MODULE NetworkConfig ----------------------------
(***************************************************************************)
(* network_configure (src/network_cfg.c) and its DHCP client (src/dhcp.c)  *)
(* over UDP: messages are lost, duplicated, reordered, and may arrive in a *)
(* later attempt.  The transaction ID is derived from the MAC alone, so it *)
(* does not tell the attempts of one board apart: what protects the client *)
(* is the comparison of an ACK with the offer it asked for.                *)
(*                                                                         *)
(* The DHCP servers are external: they answer a DISCOVER with any offers   *)
(* and a REQUEST that names them with any ACKs or none, at any later time, *)
(* with or without the options that the client asks for.  Messages for     *)
(* another client fail the ID, MAC and cookie tests of dhcp_parse and are  *)
(* left out, and so are messages of other types, which it drops.           *)
(***************************************************************************)
EXTENDS Integers

CONSTANTS
    Servers,   \* DHCP servers on the segment
    Ips,       \* addresses they may offer
    UsableIps, \* those whose first byte is in 1..223
    Absent,    \* an option that a message does not carry
    StaticIp, StaticParam,   \* the settings of the EEPROM record
    MaxRetry   \* attempts per phase: 3

ASSUME ConfigAssumption ==
    /\ UsableIps \subseteq Ips
    /\ Absent \notin Servers \cup Ips
    /\ StaticIp \notin Ips /\ StaticParam \notin Servers \cup {Absent}
    /\ MaxRetry \in Nat \ {0}

\* cfg.network_mode.
Modes == {"DHCP", "FALLBACK", "STATIC"}

\* A mask, gateway or DNS value is named after the server that hands it out.
Params == Servers \cup {StaticParam, Absent}

VARIABLES
    mode,     \* network_mode of the record
    pc,       \* "start", "send", "recv", "up" or "down"
    state,    \* 1: DISCOVER/OFFER; 3: REQUEST/ACK
    retry,    \* attempts made in this phase
    offered, server, mask, gateway, dns_server,  \* the client's statics
    chip,     \* W5500 address registers [ip, mask, gateway]
    sent      \* every message this board ever sent

statics == <<offered, server, mask, gateway, dns_server>>
vars == <<mode, pc, state, retry, statics, chip, sent>>

NoAddress == [ip |-> Absent, mask |-> Absent, gateway |-> Absent]

DISCOVER == [type |-> 1]
REQUEST(s, ip) == [type |-> 3, server |-> s, ip |-> ip]

\* What may reach the client, once or more often, now or much later.  A
\* server may leave out its identifier or any other option.
Offers == [type : {2}, server : Servers \cup {Absent}, ip : Ips]

AcksTo(m) ==
    [type : {5}, server : {m.server, Absent}, ip : {m.ip},
     mask : {m.server, Absent}, gateway : {m.server, Absent}, dns : {m.server, Absent}]

Deliverable ==
    (IF DISCOVER \in sent THEN Offers ELSE {})
        \cup UNION {AcksTo(m) : m \in {r \in sent : r.type = 3}}

Init ==
    /\ mode \in Modes
    /\ pc = "start"
    /\ state = 1 /\ retry = 0
    /\ offered = Absent /\ server = Absent
    /\ mask = Absent /\ gateway = Absent /\ dns_server = Absent
    /\ chip = NoAddress
    /\ sent = {}

-----------------------------------------------------------------------------
(* network_configure() *)

\* net_config(cfg.ip, cfg.mask, cfg.gateway) and the DNS copy.
Static ==
    /\ chip' = [ip |-> StaticIp, mask |-> StaticParam, gateway |-> StaticParam]
    /\ dns_server' = StaticParam
    /\ pc' = "up"
    /\ UNCHANGED <<offered, server, mask, gateway>>

\* dhcp() returned 0.
Fails ==
    IF mode = "DHCP" THEN pc' = "down" /\ UNCHANGED <<statics, chip>> ELSE Static

UseStatic ==
    /\ pc = "start"
    /\ mode = "STATIC"
    /\ Static
    /\ UNCHANGED <<mode, state, retry, sent>>

-----------------------------------------------------------------------------
(* dhcp() *)

\* net_open(2, 68), or its failure.
Open ==
    /\ pc = "start"
    /\ mode # "STATIC"
    /\ \/ pc' = "send" /\ state' = 1 /\ retry' = 0 /\ UNCHANGED <<statics, chip>>
       \/ Fails /\ UNCHANGED <<state, retry>>
    /\ UNCHANGED <<mode, sent>>

\* request() and udp_send().
Send ==
    /\ pc = "send"
    /\ retry < MaxRetry
    /\ retry' = retry + 1
    /\ sent' = sent \cup {IF state = 1 THEN DISCOVER ELSE REQUEST(server, offered)}
    /\ pc' = "recv"
    /\ UNCHANGED <<mode, state, statics, chip>>

\* Mutant: a failed send is not an attempt.
SendFailsUncounted ==
    /\ pc = "send"
    /\ retry < MaxRetry
    /\ UNCHANGED <<mode, pc, state, statics, chip, sent>>
    /\ retry' = 0

\* udp_send() gave up: no buffer space, a stuck command, or no ARP reply.
SendFails ==
    /\ pc = "send"
    /\ retry < MaxRetry
    /\ retry' = retry + 1
    /\ UNCHANGED <<mode, pc, state, statics, chip, sent>>

\* The response window closed.
Timeout ==
    /\ pc = "recv"
    /\ pc' = "send"
    /\ UNCHANGED <<mode, state, retry, statics, chip, sent>>

\* No reply in the last window, or a datagram that udp_recv cannot read.
GiveUp ==
    /\ \/ pc = "send" /\ retry = MaxRetry
       \/ pc = "recv"
    /\ Fails
    /\ UNCHANGED <<mode, state, retry, sent>>

\* dhcp_parse(): kind, server identifier, address.
Acceptable(m, kind) ==
    m.type = kind /\ m.server # Absent /\ m.ip \in UsableIps

TakeOffer(m) ==
    /\ pc = "recv" /\ state = 1
    /\ Acceptable(m, 2)
    /\ offered' = m.ip /\ server' = m.server
    /\ state' = 3 /\ retry' = 0 /\ pc' = "send"
    /\ UNCHANGED <<mode, mask, gateway, dns_server, chip, sent>>

\* Mutant: any ACK for this board will do.
MatchesOfferAny(m) == Acceptable(m, 5)

\* The ACK is for the offer that was requested.
MatchesOffer(m) == Acceptable(m, 5) /\ m.server = server /\ m.ip = offered

\* Mutant: an ACK may lack options, whose old values stay.
TakeAckPartly(m) ==
    /\ pc = "recv" /\ state = 3
    /\ MatchesOffer(m)
    /\ mask' = IF m.mask = Absent THEN mask ELSE m.mask
    /\ gateway' = IF m.gateway = Absent THEN gateway ELSE m.gateway
    /\ dns_server' = IF m.dns = Absent THEN dns_server ELSE m.dns
    /\ chip' = [ip |-> offered, mask |-> mask', gateway |-> gateway']
    /\ pc' = "up"
    /\ UNCHANGED <<mode, state, retry, offered, server, sent>>

\* All options are there; then net_config().
TakeAck(m) ==
    /\ pc = "recv" /\ state = 3
    /\ MatchesOffer(m)
    /\ m.mask # Absent /\ m.gateway # Absent /\ m.dns # Absent
    /\ mask' = m.mask /\ gateway' = m.gateway /\ dns_server' = m.dns
    /\ chip' = [ip |-> offered, mask |-> mask', gateway |-> gateway']
    /\ pc' = "up"
    /\ UNCHANGED <<mode, state, retry, offered, server, sent>>

\* The next OTA attempt: net_init resets the chip, the statics stay.  A UART
\* host may have written another record in between.
NextAttempt ==
    /\ pc \in {"up", "down"}
    /\ pc' = "start"
    /\ mode' \in Modes
    /\ chip' = NoAddress
    /\ UNCHANGED <<state, retry, statics, sent>>

Client ==
    \/ UseStatic \/ Open \/ Send \/ SendFails \/ Timeout \/ GiveUp
    \/ \E m \in Deliverable : TakeOffer(m) \/ TakeAck(m)

Next == Client \/ NextAttempt

Spec == Init /\ [][Next]_vars

-----------------------------------------------------------------------------
(* Properties *)

TypeOK ==
    /\ mode \in Modes
    /\ pc \in {"start", "send", "recv", "up", "down"}
    /\ state \in {1, 3}
    /\ retry \in 0..MaxRetry
    /\ offered \in Ips \cup {Absent} /\ server \in Servers \cup {Absent}
    /\ {mask, gateway, dns_server} \subseteq Params
    /\ chip \in [ip : Ips \cup {StaticIp, Absent}, mask : Params, gateway : Params]
    /\ sent \subseteq {DISCOVER} \cup [type : {3}, server : Servers, ip : Ips]

\* The configuration of the chip and the DNS server that dns() will ask.
Current == [ip |-> chip.ip, mask |-> chip.mask, gateway |-> chip.gateway,
            dns |-> dns_server]

FromAck(m) ==
    /\ m.type = 5
    /\ Absent \notin {m.mask, m.gateway, m.dns}
    /\ Current = [ip |-> m.ip, mask |-> m.mask, gateway |-> m.gateway, dns |-> m.dns]

FromRecord ==
    Current = [ip |-> StaticIp, mask |-> StaticParam, gateway |-> StaticParam,
               dns |-> StaticParam]

\* The board never runs on a mixture: address, mask, gateway and DNS server
\* come together, from one ACK or from the EEPROM record, as the mode allows;
\* also after earlier attempts that left their values in the statics.
OneSource ==
    pc = "up" =>
        \/ mode # "STATIC" /\ \E m \in Deliverable : FromAck(m)
        \/ mode # "DHCP" /\ FromRecord

\* A leased address is a usable one, and this board asked its server for it:
\* an ACK of an earlier attempt is not taken for another offer.
LeaseRequested ==
    pc = "up" /\ chip.ip # StaticIp =>
        /\ chip.ip \in UsableIps
        /\ \E s \in Servers : chip.mask = s /\ REQUEST(s, chip.ip) \in sent

-----------------------------------------------------------------------------
(* Liveness *)

\* The processor runs, and every window closes (module Deadline).
FairSpec == Spec /\ WF_vars(Client)

\* An attempt ends, whatever the servers send.
ConfigEnds == pc = "start" ~> pc \in {"up", "down"}
=============================================================================
