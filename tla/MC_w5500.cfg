\* Reception over TCP and over UDP.
SPECIFICATION SocketSpec
CONSTANTS
    Size = 4
    Wrap = 8
    Base = 2
    Cap = 3
    Turns = 2
    Stream <- MCStream
    UdpSize = 8
    UdpWrap = 16
    UdpBase = 4
    Payloads <- MCPayloads
    MaxLen = 4
    MaxSent = 3
INVARIANTS UdpFramed
PROPERTIES StreamKept TcpFlows UdpWhole
