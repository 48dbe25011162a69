\* The size is read before the state: the end can overtake the last bytes.
SPECIFICATION SocketSpec
CONSTANTS
    Size = 4
    Wrap = 8
    Base = 2
    Cap = 3
    Turns = 6
    Stream <- MCStream
    UdpSize = 8
    UdpWrap = 16
    UdpBase = 4
    Payloads <- MCPayloads
    MaxLen = 4
    MaxSent = 3
INVARIANTS ClosedOnceConsumed
