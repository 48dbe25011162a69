\* Bytes under a CRC, URLs, DHCP messages and response headers.
SPECIFICATION InputSpec
CONSTANTS
    Width = 32
    Poly <- MCPoly
    Bytes <- MCBytes
    Burst = 4
    MaxLen = 5
    MaxUrl = 9
    MaxPath = 1
    MaxLabel = 3
    MaxPort = 60
    MaxOctet = 60
    MaxDigits = 2
    Messages <- MCMessages
    Statics <- MCStatics
    HttpTokens <- MCTokens
    Chunk = 1
    Attempts = 1
    Watched = 0
    MaxTotal = 14
    MaxLine = 3
    APP_END = 10
    Sizes = {1}
INVARIANTS Agrees Detected UrlsAgree OffersAgree AcceptsExactly
PROPERTIES OffersWhole
CHECK_DEADLOCK FALSE
