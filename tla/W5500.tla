------------------------------- MODULE W5500 -------------------------------
(***************************************************************************)
(* Socket 0, opened for TCP or for UDP: net_recv() and udp_recv() share    *)
(* the ring, the registers and the driver's steps over them; a behaviour   *)
(* uses one of the two, as net_open() chose.                               *)
(***************************************************************************)
EXTENDS TcpReceive

CONSTANTS
    UdpSize, UdpWrap, UdpBase,   \* the ring of a socket opened for UDP
    Payloads, MaxLen, MaxSent    \* UdpReceive's

VARIABLES
    mode,                   \* Sn_MR
    sent, taken_up, result  \* UdpReceive's

datagrams == <<sent, taken_up, result>>
socketVars == <<vars, mode, datagrams>>

Udp == INSTANCE UdpReceive WITH Size <- UdpSize, Wrap <- UdpWrap, Base <- UdpBase

ASSUME UdpAssumption == Udp!RingConstants /\ Udp!DatagramAssumption

SocketInit ==
    \/ mode = "tcp" /\ Init /\ sent = <<>> /\ taken_up = 0 /\ result = <<>>
    \/ mode = "udp" /\ Udp!Init /\ arrived = 0 /\ status = ESTABLISHED /\ base = 0 /\ delivered = <<>>

SocketNext ==
    \/ mode = "tcp" /\ Next /\ UNCHANGED <<mode, datagrams>>
    \/ mode = "udp" /\ Udp!Next /\ UNCHANGED <<mode, arrived, status, base, delivered>>

\* The processor runs; the server sends what it has and the chip stores it.
SocketSpec ==
    /\ SocketInit /\ [][SocketNext]_socketVars
    /\ WF_socketVars(mode = "tcp" /\ Driver /\ UNCHANGED <<mode, datagrams>>)
    /\ WF_socketVars(mode = "tcp" /\ Segment /\ UNCHANGED <<mode, datagrams>>)

-----------------------------------------------------------------------------
(* Properties *)

\* TCP: every byte of the stream is delivered, or the connection ends.
TcpFlows == mode = "tcp" => StreamFlows

\* UDP: the driver never loses the place of the next header.
UdpFramed == mode = "udp" => Udp!TypeOK /\ Udp!FramingKept

\* UDP: what is handed over is the next datagram, whole.
UdpWhole == [][mode = "udp" => Udp!WholeDatagrams]_socketVars
=============================================================================
