----------------------------- MODULE Exchanges -----------------------------
(***************************************************************************)
(* The parts in which someone waits for an answer, each by itself: a       *)
(* parser of replies, a lookup, a socket, a response, a line to a host.  A *)
(* behaviour is about the one that part names; the variables of the others *)
(* rest.                                                                   *)
(***************************************************************************)
EXTENDS DnsReply

CONSTANTS
    Sought, Window, Wrap, MaxAge,                                      \* DnsClient's
    Ages, None,                                                        \* SocketSend's
    Tokens, Chunk, Attempts, Watched, MaxTotal, MaxLine, APP_END, Sizes, \* HttpResponse's
    Base, Xor(_, _), MESSAGE_START, TOKEN, MaxLength, MaxBody, Noise   \* StkFraming's

VARIABLES
    part,  \* "reply", "lookup", "socket", "response", "line"
    clock, id, t, retry, replies, rested, result,            \* DnsClient's
    mode, status, link, inflight, ok, timeout, answer,       \* SocketSend's
    expected, rx_pos, rx_len, total, line, first, seen, attempt, sent, silent, taken, \* HttpResponse's
    state, seq, sum, length, frame, wire, noise, heard, ran  \* StkFraming's

parserVars == <<host, phase, p, count, walk, touched, ip>>
lookupVars == <<clock, id, t, retry, replies, rested, result>>
socketVars == <<mode, status, link, inflight, ok, timeout, answer>>
responseVars == <<expected, rx_pos, rx_len, total, line, first, seen, attempt, sent, silent, taken>>
lineVars == <<state, seq, sum, length, frame, wire, noise, heard, ran>>
allVars == <<part, pc, packet, parserVars, lookupVars, socketVars, responseVars, lineVars>>

Lookup == INSTANCE DnsClient WITH Hosts <- Sought
Socket == INSTANCE SocketSend
Response == INSTANCE HttpResponse
Line == INSTANCE StkFraming WITH n <- length, line <- wire

ASSUME ExchangeAssumption ==
    /\ Lookup!ClientAssumption /\ Socket!AgesAssumption
    /\ Response!ResponseAssumption /\ Line!FramingAssumption

ParserRests ==
    /\ phase = "question" /\ p = 0 /\ count = 0
    /\ pos = 0 /\ end = 0 /\ steps = 0 /\ chars = 0 /\ match = TRUE
    /\ touched = 0 /\ ip = {}
LookupRests == clock = 0 /\ id = 0 /\ t = 0 /\ retry = 0 /\ replies = {} /\ rested = TRUE /\ result = {}
SocketRests ==
    /\ mode = "udp" /\ status = "closed" /\ link = None /\ inflight = None
    /\ ok = None /\ timeout = None /\ answer = FALSE
ResponseRests ==
    /\ expected = 0 /\ rx_pos = 0 /\ rx_len = 0
    /\ total = 0 /\ line = <<>> /\ first = TRUE /\ seen = FALSE
    /\ attempt = 0 /\ sent = <<>> /\ silent = FALSE /\ taken = <<>>
LineRests ==
    /\ state = 0 /\ seq = 0 /\ sum = 0 /\ length = 0
    /\ frame = <<>> /\ wire = <<>> /\ noise = 0 /\ heard = <<>> /\ ran = FALSE

ExchangeInit ==
    \/ part = "reply" /\ Init /\ LookupRests /\ SocketRests /\ ResponseRests /\ LineRests
    \/ part = "lookup" /\ Lookup!Init /\ packet = <<>> /\ ParserRests /\ SocketRests /\ ResponseRests /\ LineRests
    \/ /\ part = "socket" /\ Socket!Init /\ packet = <<>> /\ host = <<>>
       /\ ParserRests /\ LookupRests /\ ResponseRests /\ LineRests
    \/ part = "response" /\ Response!Init /\ host = <<>> /\ ParserRests /\ LookupRests /\ SocketRests /\ LineRests
    \/ /\ part = "line" /\ Line!Init /\ pc = "rest" /\ host = <<>>
       /\ ParserRests /\ LookupRests /\ SocketRests /\ ResponseRests

\* What the parts leave alone.
InReply == part = "reply" /\ UNCHANGED <<part, lookupVars, socketVars, responseVars, lineVars>>
InLookup ==
    part = "lookup" /\ UNCHANGED <<part, packet, phase, p, count, walk, touched, ip, socketVars, responseVars, lineVars>>
InSocket == part = "socket" /\ UNCHANGED <<part, packet, parserVars, lookupVars, responseVars, lineVars>>
InResponse == part = "response" /\ UNCHANGED <<part, parserVars, lookupVars, socketVars, lineVars>>
InLine == part = "line" /\ UNCHANGED <<part, pc, parserVars, lookupVars, socketVars, responseVars>>

ExchangeNext ==
    \/ Next /\ InReply
    \/ Lookup!Next /\ InLookup
    \/ Socket!Next /\ InSocket
    \/ Response!Next /\ InResponse
    \/ Line!Next /\ InLine

\* The processor runs: the parser and the loops take their steps.
Runs ==
    \/ Next /\ InReply
    \/ Lookup!Try /\ InLookup
    \/ Socket!Driver /\ InSocket
    \/ Response!Client /\ InResponse
    \/ Line!Listen /\ InLine

\* Time passes: the clock ticks, 3000 ms expire, and the host on the line
\* does not wait for two seconds before it repeats its frame.
Passes ==
    \/ Lookup!Tick /\ InLookup
    \/ Socket!ConnectExpires /\ InSocket
    \/ Response!Silence /\ InResponse
    \/ Line!Send /\ InLine

\* Neither the network nor a server owes anything, the chip only its reports.
ExchangeSpec ==
    /\ ExchangeInit /\ [][ExchangeNext]_allVars
    /\ WF_allVars(Runs) /\ WF_allVars(Passes)
    /\ WF_allVars(Socket!SendExpires /\ InSocket)
    /\ WF_allVars(Socket!Report /\ InSocket)

\* A send or a connect returns 1 only for what it sent or connected itself.
AnswerIsOurs == [][part = "socket" => Socket!AnswerIsOurs]_allVars

\* A lookup takes the reply to its latest query, and http_byte the bytes of
\* the present connection, whatever is late, repeated or left in a buffer.
OwnAnswers ==
    /\ part = "socket" => Socket!TypeOK
    /\ part = "lookup" => Lookup!TypeOK /\ Lookup!AnswersLatest
    /\ part = "response" => Response!TypeOK /\ Response!OfThisConnection

\* stk500() executes exactly the whole frames.
FramesOnly == part = "line" => Line!TypeOK /\ Line!RunsFrames

\* After any noise stk500() finds the frames again: what the host repeats is
\* executed sooner or later, with no pause on the line and no new session.
FindsFrames == []<>(part = "line" => Line!Found)

\* Cycles of names notwithstanding, dns_parse ends; and so do a lookup, a send,
\* a connect and a response, though nobody may answer and a server may send a
\* byte from time to time for ever.
Waits ==
    CASE part = "reply" -> pc # "done"
      [] part = "lookup" -> pc # "idle"
      [] part = "socket" -> Socket!Awaits
      [] part = "response" -> pc # "idle" /\ ~Response!Decided
      [] part = "line" -> FALSE
ExchangesEnd == Waits ~> ~Waits
=============================================================================
