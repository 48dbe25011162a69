\* Replies, lookups, sends, responses and frames.
SPECIFICATION ExchangeSpec
CONSTANTS
    Packets <- MCPackets
    Hosts <- MCHosts
    Id = 7
    Steps = 128
    Sought = {"a", "b"}
    Window = 2
    Wrap = 5
    MaxAge = 4
    Ages = {"this", "old"}
    None = "none"
    Tokens = {"CR", "LF", "S", "L", "0", "1"}
    Chunk = 2
    Attempts = 2
    Watched = 2
    MaxTotal = 10
    MaxLine = 3
    APP_END = 10
    Sizes = {10}
    Base = 4
    Xor <- MCXor
    MESSAGE_START = 1
    TOKEN = 2
    MaxLength = 4
    MaxBody = 3
    Noise = 2
INVARIANTS InPacket Agrees OwnAnswers FramesOnly
PROPERTIES AnswerIsOurs FindsFrames ExchangesEnd
CHECK_DEADLOCK FALSE
