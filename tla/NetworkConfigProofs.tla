------------------------- MODULE NetworkConfigProofs -------------------------
(***************************************************************************)
(* For any number of servers, addresses and attempts: the configuration a  *)
(* board comes up with has one source, and a lease was asked for.          *)
(***************************************************************************)
EXTENDS NetworkConfig, TLAPS

IInv == TypeOK /\ OneSource /\ LeaseRequested

\* An ACK that reaches the client answers a request that the client sent.
LEMMA AckAnswers ==
    ASSUME TypeOK, NEW m \in Deliverable, m.type = 5
    PROVE  \E r \in [type : {3}, server : Servers, ip : Ips] :
              r \in sent /\ m \in AcksTo(r)
<1>1. m \notin Offers
      BY DEF Offers
<1>2. PICK r \in sent : r.type = 3 /\ m \in AcksTo(r)
      BY <1>1 DEF Deliverable
<1>3. r \in [type : {3}, server : Servers, ip : Ips]
      BY <1>2 DEF TypeOK, DISCOVER
<1> QED
      BY <1>2, <1>3

LEMMA OfferFields ==
    ASSUME TypeOK, NEW m \in Deliverable, m.type = 2
    PROVE  m.server \in Servers \cup {Absent} /\ m.ip \in Ips
<1>1. \A r : m \notin AcksTo(r)
      BY DEF AcksTo
<1>2. m \in Offers
      BY <1>1 DEF Deliverable
<1> QED
      BY <1>2 DEF Offers

LEMMA StaticKeeps ==
    ASSUME TypeOK, Static, mode # "DHCP",
           UNCHANGED mode, state' \in {1, 3}, retry' \in 0..MaxRetry, UNCHANGED sent
    PROVE  IInv'
BY DEF Static, IInv, TypeOK, Params, OneSource, FromRecord, Current, LeaseRequested

LEMMA FailsKeeps ==
    ASSUME IInv, Fails, UNCHANGED <<mode, state, retry, sent>>
    PROVE  IInv'
<1>1. CASE mode = "DHCP"
      BY <1>1 DEF Fails, statics, IInv, TypeOK, OneSource, LeaseRequested
<1>2. CASE mode # "DHCP"
      BY <1>2, StaticKeeps DEF Fails, IInv, TypeOK
<1> QED
      BY <1>1, <1>2

LEMMA TakeAckKeeps ==
    ASSUME IInv, NEW m \in Deliverable, TakeAck(m), mode # "STATIC"
    PROVE  IInv'
<1>1. PICK r \in [type : {3}, server : Servers, ip : Ips] :
          r \in sent /\ m \in AcksTo(r)
      BY AckAnswers DEF TakeAck, MatchesOffer, Acceptable, IInv
<1>2. /\ m.type = 5 /\ m.server = r.server /\ m.ip = r.ip
      /\ m.mask = r.server /\ m.gateway = r.server /\ m.dns = r.server
      BY <1>1 DEF TakeAck, MatchesOffer, Acceptable, AcksTo
<1>3. r = REQUEST(r.server, r.ip) /\ r.server \in Servers /\ r.ip \in Ips
      BY <1>1 DEF REQUEST
<1>4. /\ m.ip = offered /\ m.ip \in UsableIps
      /\ chip' = [ip |-> m.ip, mask |-> m.mask, gateway |-> m.gateway]
      /\ dns_server' = m.dns
      BY DEF TakeAck, MatchesOffer, Acceptable
<1>5. TypeOK'
      BY <1>2, <1>3, <1>4, ConfigAssumption DEF TakeAck, IInv, TypeOK, Params
<1>6. m \in Deliverable'
      BY DEF TakeAck, Deliverable
<1>7. OneSource'
      BY <1>2, <1>3, <1>4, <1>6, ConfigAssumption
      DEF TakeAck, OneSource, FromAck, Current
<1>8. LeaseRequested'
      BY <1>1, <1>2, <1>3, <1>4 DEF TakeAck, LeaseRequested
<1> QED
      BY <1>5, <1>7, <1>8 DEF IInv

LEMMA Initially == Init => IInv
BY ConfigAssumption
DEF Init, IInv, TypeOK, Params, NoAddress, OneSource, LeaseRequested

\* DHCP runs only in the modes that use it, and requests what it was offered.
DhcpPhase ==
    pc \in {"send", "recv"} =>
        /\ mode # "STATIC"
        /\ state = 3 => server \in Servers /\ offered \in UsableIps

LEMMA Step == IInv /\ DhcpPhase /\ [Next]_vars => IInv' /\ DhcpPhase'
<1> SUFFICES ASSUME IInv, DhcpPhase, [Next]_vars PROVE IInv' /\ DhcpPhase'
    OBVIOUS
<1> USE ConfigAssumption
<1>1. CASE UseStatic
      BY <1>1, StaticKeeps DEF UseStatic, Static, IInv, TypeOK, DhcpPhase
<1>2. CASE Open
  <2>1. CASE pc' = "send" /\ state' = 1 /\ retry' = 0 /\ UNCHANGED <<statics, chip>>
        BY <1>2, <2>1
        DEF Open, statics, IInv, TypeOK, OneSource, LeaseRequested, DhcpPhase
  <2>2. CASE Fails /\ UNCHANGED <<state, retry>>
        BY <1>2, <2>2, FailsKeeps DEF Open, Fails, Static, DhcpPhase
  <2> QED
        BY <1>2, <2>1, <2>2 DEF Open
<1>3. CASE Send
  <2>1. state = 3 => REQUEST(server, offered) \in [type : {3}, server : Servers, ip : Ips]
        BY <1>3 DEF Send, DhcpPhase, REQUEST
  <2>2. sent' \subseteq {DISCOVER} \cup [type : {3}, server : Servers, ip : Ips]
        BY <1>3, <2>1 DEF Send, IInv, TypeOK
  <2>3. TypeOK'
        BY <1>3, <2>2 DEF Send, statics, IInv, TypeOK
  <2>4. pc' = "recv" /\ UNCHANGED <<mode, state, server, offered>>
        BY <1>3 DEF Send, statics
  <2>5. DhcpPhase'
        BY <1>3, <2>4 DEF Send, DhcpPhase
  <2> QED
        BY <2>3, <2>4, <2>5 DEF IInv, OneSource, LeaseRequested
<1>4. CASE SendFails
      BY <1>4 DEF SendFails, statics, IInv, TypeOK, OneSource, LeaseRequested, DhcpPhase
<1>5. CASE Timeout
      BY <1>5 DEF Timeout, statics, IInv, TypeOK, OneSource, LeaseRequested, DhcpPhase
<1>6. CASE GiveUp
      BY <1>6, FailsKeeps DEF GiveUp, Fails, Static, DhcpPhase
<1>7. ASSUME NEW m \in Deliverable, TakeOffer(m) PROVE IInv' /\ DhcpPhase'
      BY <1>7, OfferFields
      DEF TakeOffer, Acceptable, IInv, TypeOK, OneSource, LeaseRequested, DhcpPhase
<1>8. ASSUME NEW m \in Deliverable, TakeAck(m) PROVE IInv' /\ DhcpPhase'
      BY <1>8, TakeAckKeeps DEF TakeAck, DhcpPhase
<1>9. CASE NextAttempt
      BY <1>9
      DEF NextAttempt, statics, IInv, TypeOK, Params, NoAddress, OneSource,
          LeaseRequested, DhcpPhase
<1>10. CASE UNCHANGED vars
      BY <1>10
      DEF vars, statics, IInv, TypeOK, OneSource, FromAck, FromRecord, Current,
          Deliverable, LeaseRequested, DhcpPhase
<1> QED
      BY <1>1, <1>2, <1>3, <1>4, <1>5, <1>6, <1>7, <1>8, <1>9, <1>10 DEF Next, Client

THEOREM Invariance == Spec => [](IInv /\ DhcpPhase)
<1>1. Init => DhcpPhase
      BY DEF Init, DhcpPhase
<1> QED
      BY <1>1, Initially, Step, PTL DEF Spec

\* Every variable keeps its type: the client only sends requests that name
\* a server and an address it was offered.
THEOREM TypeCorrect == Spec => []TypeOK
<1>1. IInv => TypeOK
      BY DEF IInv
<1> QED
      BY <1>1, Invariance, PTL

\* Address, mask, gateway and DNS server never come from different messages
\* or from a message and the record.
THEOREM NeverMixed == Spec => []OneSource
<1>1. IInv => OneSource
      BY DEF IInv
<1> QED
      BY <1>1, Invariance, PTL

\* No ACK of another offer, server or attempt configures the chip.
THEOREM OnlyOwnLease == Spec => []LeaseRequested
<1>1. IInv => LeaseRequested
      BY DEF IInv
<1> QED
      BY <1>1, Invariance, PTL
=============================================================================
