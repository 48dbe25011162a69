# Verification of the Mega2560 W5500 OTA bootloader

TLA+ specifications of the bootloader in `src/`, the TLC configurations that
check them on small instances, and TLAPS proofs for instances of every size.
Paths below are those of the repository; C functions are named as in the source.

## 1. The system

The bootloader occupies the last 8 KiB of an ATmega2560. After every reset it
opens a UART recovery window, reads one 160-byte EEPROM record, performs the
update that the record asks for over a W5500 Ethernet controller, and starts
the application. The application asks for updates by writing that record and
letting the watchdog reset the board. One thread runs; there are no interrupts.
What makes the code hard is that everything else moves: power fails inside
writes, servers and hosts lose, delay and repeat messages, a host may rewrite
flash and EEPROM in any window, a 16-bit clock wraps during waits, and two
buffers are shared by phases that do not know of each other.

### Components

| Component (source) | State | Operations | Correct when |
|---|---|---|---|
| Boot policy (`src/main.c`, `src/early.c`) | locals `valid`; reset entry | `main`: window, load, update, decide | no partial image starts; the decision agrees with the EEPROM |
| EEPROM record (`src/eeprom_cfg.c`, `src/boot.h`) | 160 bytes at 3936, RAM copy `cfg` | `cfg_load`, `cfg_valid`, `cfg_done`, `cfg_bootable` | a record is accepted only whole; a request ends only with its image complete |
| Request API (`application/ota_request.c`) | the record | `ota_request`: 161 byte writes in a fixed order | a cut at any byte leaves the old record, ARMING, or the new one |
| OTA engine (`src/ota.c`) | `at`, `crc`, page buffer | download loop, two CRC passes | pages in place, padded, nothing else written |
| Flash and EEPROM cells (`src/platform.c`) | memories | `flash_write`, `ee_write` | aligned, below the boot section |
| UART (`src/platform.c`) | - | `uart_get`, `uart_put` | a line error is never a byte |
| Timer (`src/platform.c`) | 16-bit counter of 64 us | `ticks`, `expired` | no wait ends early or laps the counter |
| STK500v2 (`src/stk500.c`) | `address`, `leave`, framing state | 16 commands | only whole frames execute; acknowledged blocks are where the host meant them to be |
| Network configuration, DHCP (`src/network_cfg.c`, `src/dhcp.c`) | `offered`, `server`, `mask`, `gateway`, `dns_server`, chip registers | two phases of three attempts, option walk, fallback | one source for the whole configuration; no half-taken message |
| DNS client (`src/dns.c`) | query ID | query, name walk, three attempts | the answer belongs to the question; the walk stays in the datagram and ends |
| HTTP client (`src/http.c`, `src/net.h`) | receive position in `packet` | connect, request, header lines, body bytes | only a complete, matching header leads to flash |
| URL parser (`src/url_parse.h`) | none | parse | API, boot and tools agree |
| W5500 driver (`src/w5500.c`) | chip registers, socket 0 rings | open, connect, send, receive | no byte lost, repeated or torn |
| CRC-32 (`src/crc32.c`) | none | `crc_byte`, `range_ok` | standard CRC; bounds without overflow |
| Record generators (`tools/eeprom.py`, `tools/provision.py`) | files | build a record | they produce records that boot accepts |
| Build, release, tests, linker script, third-party | - | - | outside the running system |

### Interaction

`main` calls everything else and is the only caller of `ota`, `stk500`,
`cfg_load` and `application`. EEPROM and flash are the only state that survives
a reset; they are written by the UART host through `stk_command`, by `ota`
through `flash_write`, by `cfg_done`, and by the application through
`ota_request`. `packet` is shared by STK frames, DHCP, DNS and HTTP; `page` by
STK writes, HTTP header lines and the download. The clients share socket 0 one
after the other. All waits poll `expired`.

## 2. Modules

| Module | Models | Kind |
|---|---|---|
| `BootRecord` | the record: `cfg_valid`, `cfg_bootable`, sizes and states | helper |
| `Bootloader` | board from reset to application, `ota` by pages, `ota_request` by bytes, UART host, resets and torn writes | core |
| `UpdatePromise` | what all of that amounts to: an image, a request, what runs | abstract specification |
| `MCBootloader` | three images of different sizes, torn values | TLC instance |
| `BootloaderProofs` | inductive invariant and safety of `Bootloader`; `Bootloader` implements `UpdatePromise` | proofs |
| `OtaStream`, `MCOtaStream`, `OtaStreamProofs` | the download loop byte by byte with `flash_write` and `range_ok` | component |
| `Deadline`, `MCDeadline`, `DeadlineProofs` | `ticks`, `expired`, nested waits | component |
| `StkSession`, `MCStkSession`, `StkSessionProofs` | memory commands, host, lossy line | component |
| `StkFraming` | the byte switch of `stk500`, noisy line | component |
| `NetworkConfig`, `MCNetworkConfig`, `NetworkConfigProofs` | `network_configure`, `dhcp` | component |
| `DhcpReply` | `dhcp_parse` on one message | component |
| `RxRing` | receive ring, `stable`, `transfer`, `consume` | shared by the next two |
| `TcpReceive` | `net_recv` under its caller | component |
| `ByteStream` | what a connection promises to HTTP | abstract specification |
| `UdpReceive` | `udp_recv` under its callers | component |
| `SocketSend` | `net_open`, `net_connect`, `net_send` | component |
| `DnsReply` | `dns_parse`, `name` | component |
| `DnsClient` | the query loop of `dns` | component |
| `HttpResponse` | `http_open`, `http_header`, `http_byte` | component |
| `UrlHost` | `url_parse_impl`, the literals of `dns` and `ota_request` | component |
| `Crc32` | `crc_byte`, `crc32` | component |
| `W5500`, `MCW5500`, `W5500Proofs` | `TcpReceive` and `UdpReceive` on one socket, by its mode | composition |
| `Inputs`, `MCInputs`, `InputsProofs` | `Crc32`, `UrlHost`, `DhcpReply`, `HttpResponse`: what is read and judged | composition |
| `Exchanges`, `MCExchanges`, `ExchangesProofs` | `DnsReply`, `DnsClient`, `SocketSend`, `HttpResponse`, `StkFraming`: what waits for answers | composition |

An operator whose comment begins with "Mutant:" is a broken variant of the
definition after it. No specification uses it; each shows that one property
would notice that mistake.

The last three rows put components side by side, so that their `MC` modules hold
values and nothing else. One thread runs, and these
parts of it follow one another without sharing more than a buffer, whose leftovers
each component already takes as arbitrary. So a behaviour of such a module is one
of a single component, chosen in the first state, while the variables of the
others keep one value; what is said of a component is guarded by that choice, and
so is its fairness.

How they fit together: `Bootloader` takes a download as pages that arrive, may be
wrong or stop; `OtaStream` takes it as bytes of `http_byte`; `HttpResponse` says
which bytes those are, given pieces of `net_recv`; `TcpReceive` says which pieces
those are, given what the chip stores. Names and addresses come to `HttpResponse`
through `UrlHost`, `DnsClient` (with `DnsReply` deciding what a reply says),
`NetworkConfig` (with `DhcpReply`), all of them over `UdpReceive` and `SocketSend`.
Every wait in them is one of `Deadline`'s. `StkSession` works on the frames that
`StkFraming` lets through.

### Bootloader

`ee` is the record, `cfg` its RAM copy, `flash` has one content per page, and
`pc` names the next step of the processor; the C locals `valid`, `at`, `crc`
and the shared `page` buffer keep their names. One action is one EEPROM write,
one page erase, one page write or one decision, because a reset between any two
of them leaves a different board.

- The record body (bytes 4-159) is `BodyLen` cells that each name the record
  they belong to. `cfg_valid` demands a body of one record, which is what its
  CRC establishes except for collisions.
- A page holds the content of an image's page, is blank, or is `Junk`. A CRC is
  the sequence of page contents it was computed over.
- `Reset` (power, brown-out, watchdog, button) is possible in every state. In
  the middle of a write it leaves the byte with any value of `TornBytes`, a body
  cell mixed, or the page `Junk`.
- `FetchPage(c)` may deliver any content and `WritePage(c)` may fail to program.
- `application` clears what boot had in RAM; `ota_request` works on its own copy.
- `HostFlash` and `HostEeprom` stand for `stk_command`'s writes and change one
  page or byte at a time, in any order, while a recovery window is open.
  `serviced` records that this happened.

### UpdatePromise

Three variables: the complete image in flash, the committed request, the image
that runs. A request may be made while none is open (`Ask`); the image may be
given up only for the open request (`Rewrite`); the request ends only with its
image complete (`Finish`); only a complete image runs (`Start`). `Bootloader`
maps to it by reading `flash`, `ee` and `pc`; it says what the whole protocol of
markers, checks and write orders is for, without any of them.

### OtaStream

The loop of `ota.c` with byte addresses, `http_byte` results one at a time, a
buffer that begins with arbitrary (header) bytes, `flash_write` with both its
guards, one bad cell per write, and attempts that end anywhere and start over on
what they left in flash. `Bootloader`'s pages are this module's pages.

### Deadline

An outer wait (`http_byte`, the DHCP and DNS windows, the two loops of
`net_send`) whose turns contain up to two inner waits (`stable`, `command`).
`elapsed` and `waited` are true times; the code only sees 16-bit differences.
`MaxStep` bounds the time between two evaluations. With the real numbers
(46875 ticks for 3000 ms, 1562 for 100 ms, 65536 per wrap) the assumption of the
module leaves 15537 ticks, nearly a second, for five steps; the longest is a
2 KiB SPI transfer of a few milliseconds.

### StkSession

`address`, both memories and whole frames. `Accepts...` are the checks of
`stk_command`; each command is an action; `Fail` leaves everything as it was.
The host uploads to flash or EEPROM in blocks, verifies by reading back, and
after a time-out loads the address again before it repeats a memory command.
`Silence` ends a session, and the next one starts with address 0. `HostAssumption`
says what an upload is: bytes inside the EEPROM, or inside the application area in
whole words and blocks of whole words. Three more assumptions about the host are external to this code and named in the module:
it is prompt (no two seconds pass while it is not waiting for a reply), it
reloads the address after a time-out, and no reply is late by more than one
time-out. Without the second one, a host that repeats a program command whose
reply was lost writes to the block after it, since the address has advanced
(`src/stk500.c:173`).

### NetworkConfig

The client's statics survive from attempt to attempt, as in the code, and
`Deliverable` may hand it any offer or ACK to anything it ever sent, in any
order, any number of times; the transaction ID is the same in all attempts
(`src/dhcp.c:107`). Each server's option values are named after the server, so
that a mixture is visible. A UART host may change the mode between attempts.
Which messages are taken is one condition here and `DhcpReply`'s subject.

### DhcpReply

One turn of the loop over the options is one action; `found` holds `srv`, `m`,
`g` and `d` as far as they were set. The 240 bytes before the options are `ours`
(the comparisons with constants, transaction ID and MAC) and `yiaddr`. `Lists`
and `Takes` read a message as RFC 2132 would, as a list of options. The code
accepts a second message-type option if the first one was 0; so does the
reference.

### RxRing, TcpReceive, UdpReceive

The chip's memory, its write pointer and its size register change at any moment;
the driver reads the size register one byte at a time, twice or more (`ReadHigh`,
`ReadLow`), copies byte by byte, writes the read pointer and issues RECV. Pointers
count modulo `Wrap`, addresses modulo `Size`. A reading that is torn between its
two bytes can be too low, never too high, because the size only grows while the
driver reads: over TCP that costs nothing, over UDP it would lose the framing,
and there the second reading of `stable` is needed (`UdpReceive!FramingKept`). TCP segments
of any length arrive, the last one with or without the FIN; the server may abort.
UDP datagrams are stored whole behind a header, in one step of the chip.
`ByteStream` is the connection as the HTTP client sees it.

### SocketSend

What answers could belong to: every SEND_OK, TIMEOUT and connection carries
whether it is of the present call (`"this"`) or of an earlier one (`"old"`).
Commands may not be executed, CLOSE included; the clients use the socket in any
order. The chip is external: it executes a command when it is written or not at
all, and reports every UDP send within 3 s, since nothing in `net_init` changes
its retry time and count (200 ms, 8 retries). Without that assumption a late
SEND_OK of one DNS or DHCP query could be taken for that of the next one, which
would only shorten a retry.

### DnsReply, DnsClient

`DnsReply` has one action for each kind of turn of `name()`'s loop, with all
positions in 16 bits, and reads zeros behind the datagram, where the code would
read what an earlier one left. The reference (`Text`, `Address`) takes names as
RFC 1035 writes them: a label, a pointer or the root, and then the name behind it.
They have fewer than `Steps` such units, the limit by which `name()` rejects cycles
(`src/src/dns.c:6`). So a longer name is refused although it is no cycle; no host of
93 characters has one, except through chains of pointers. Both compare dotted text,
so a label that contains a dot counts as two.

In `DnsClient` a reply is the query it answers; the network keeps, repeats and
loses replies, and others send from other addresses. The ID is `ticks()` XOR a
constant, modelled as `ticks()`: two queries share an ID only a whole period
(4.19 s) apart. `MaxAge < Wrap` says that no reply is older than that, and `rested`
that a recovery window lies between two lookups.

### HttpResponse

A byte is a token (see the module), so that whole names and the status line are
one byte long and every header up to the scaled limits can be tried. Of the three names,
`X` may be left out: a digit before another name is another header, too. `Fetch` puts
a piece of the stream into the shared buffer, `Take` is `packet[rx_pos++]`, `Open`
leaves other clients' bytes in the buffer. `Responses` is the set of headers, as
RFC 1945 would write them, that the code promises to take; `Inputs!AcceptsExactly`
also says that a refused header is not the beginning of one.

### UrlHost

The URL is chosen character by character. Two digits, a letter, and each
separator stand for their classes; the limits are scaled so that each is met and
exceeded by one. `IsUrl` is the regular expression and the tests of
`tools/eeprom.py`. `ota_request` repeats the literal of `dns`, statement by
statement, so one set of actions stands for both.

### StkFraming

The seven states, with a host that repeats one frame and a line that changes,
drops or invents `Noise` bytes at any place. Resynchronisation is shown for frames
that contain no second MESSAGE_START: noise can make the board take a start byte
inside a frame for a start, and a host that repeats the same frame without a
pause could then repeat the same misreading for ever. Hosts time out and send
something else.

### Crc32

Register and bytes are sets of bit positions, so the code's XOR is a symmetric
difference and its polynomial is the real one. `Reference` is a long division of
polynomials. Beside the data runs a damaged copy that differs from it within
`Burst` bytes.

## 3. Model checking

`tlc -config <cfg> <module>`; times on two cores.

| Run | Instance | Properties | States |
|---|---|---|---|
| `MC_power_cuts.cfg` | 3 pages, 3 images (3, 1 and 4 pages; the last does not fit), 3 body cells, torn bytes, no UART host | `NoPartialBoot`, `PreparationFailsClosed`, `RequestKept`, `PromiseKept` | 9 thousand |
| `MC_uart_service.cfg` | 2 pages, 2 images, a UART host that writes any byte and page | `FlashGuarded`, `BootAgrees` | 634 thousand |
| `MC_clean_cuts.cfg` | as `power_cuts`, byte writes not torn | `PendingIsWhole` | 8 thousand |
| `MC_liveness.cfg` | 2 pages, two images of which one has an unusable URL, fairness | `PendingInstalls`, `OtaEnds` | 1 thousand |
| `MC_ota_stream.cfg` | 2 pages of 2 bytes, boot section of 2 bytes, 4 images | `WritesAccepted`, `Padded`, `StreamInPlace`, `OnlyImagePages` | 12 thousand |
| `MC_deadline.cfg` | a counter of 40, deadlines 25 and 2, steps up to 2 | `NeverEarly`, `NeverMissed`, `WaitEnds` | 820 thousand |
| `MC_stk_session.cfg` | 2 pages of 4 bytes, 3 EEPROM bytes, 3 uploads, 13 other commands | `TypeOK`, `WritesConfined`, `AckedWritesLand`, `UploadAccepted` | 2.7 million |
| `MC_network_config.cfg` | 2 servers, 2 usable addresses and one that is not, 3 attempts per phase | `OneSource`, `LeaseRequested`, `ConfigEnds` | 17 thousand |
| `MC_w5500.cfg` | TCP: ring of 4 bytes, pointers modulo 8, a buffer of 3, a stream of 8; UDP: ring of 8, pointers modulo 16, 3 datagrams of 5 kinds | `StreamKept`, `TcpFlows`, `UdpFramed`, `UdpWhole` | 2.7 million |
| `MC_fin_race.cfg` | the same | `ClosedOnceConsumed` (violated) | 2 million |
| `MC_inputs.cfg` | CRC-32 over up to 5 bytes of 3 values; URLs of up to 9 characters of 8 kinds; up to two loose options of 17 kinds before 44 lists; headers of up to 14 bytes of 9 kinds, lines of up to 3 | `Agrees`, `Detected`, `UrlsAgree`, `OffersAgree`, `OffersWhole`, `AcceptsExactly` | 4.9 million |
| `MC_exchanges.cfg` | 2 hosts and 9 thousand datagrams; lookups with a clock of period 5; two protocols on a socket; responses in pieces of up to 2 bytes over 2 connections; 4 byte values, bodies of up to 3, 2 disturbances | `InPacket`, `Agrees`, `OwnAnswers`, `AnswerIsOurs`, `FramesOnly`, `FindsFrames`, `ExchangesEnd` | 1.3 million |

What they show:

- **No partial image** (`NoPartialBoot`): until a UART host has reprogrammed the
  board, an application runs only if some image is complete in flash, whatever
  resets, torn writes, wrong downloads and bad cells came before.
- **Preparation** (`PreparationFailsClosed`, `PendingIsWhole`): a record that
  mixes two requests is marked ARMING. PENDING on an invalid record is possible
  only when a torn write happens to produce that byte, so `PendingIsWhole` is
  checked with atomic byte writes; the policy refuses to boot either way.
- **Requests** (`RequestKept`, `PromiseKept`): once committed, nothing but a
  complete image or the UART host changes the record.
- **Stale decisions** (`FlashGuarded`, `BootAgrees`): `main` works on a copy of
  the record that a host may rewrite in the next window. Flash changes only under a
  record that is valid and PENDING in EEPROM at that moment, and the permission
  to start agrees with the EEPROM.
- **Progress** (`PendingInstalls`, `OtaEnds`): every attempt ends, and if the
  disturbances end, a committed request is installed and started. The one
  exception is the documented one: a cut inside the final write of IDLE leaves
  an unknown state byte (`docs/EEPROM.md`) that is not repaired.
- **Reception** (`StreamKept`, `TcpFlows`, `UdpFramed`, `UdpWhole`): whatever the
  chip stores while the driver reads its registers and its memory, the stream is
  handed over in order, once and without a stop, and datagrams are handed over
  whole, one after the other.
- **Answers** (`AnswerIsOurs`, `OwnAnswers`): a send, a connection, a lookup and a
  body byte belong to the call that returns them, although one socket, one buffer
  and one clock serve all clients. All of them end (`ExchangesEnd`).
- **Parsers** (`Agrees` of `DnsReply`, `UrlsAgree`, `OffersAgree`, `AcceptsExactly`,
  `InPacket`, `OffersWhole`): each accepts exactly what a reference definition
  accepts, stays in its input, and leaves nothing behind of what it refuses.
- **Framing** (`FramesOnly`, `FindsFrames`) and **CRC** (`Agrees` of `Crc32`,
  `Detected`): only whole frames execute and the board finds the next one; the loop
  is CRC-32, and damage as wide as its register is always seen.
- **Download, clock, commands, configuration**: the comments at the properties in
  `OtaStream`, `Deadline`, `StkSession` and `NetworkConfig` state them.

### A finding

`fin_race` is expected to fail. `net_recv` reads the received-size register, and
when it is 0 it reads the status to tell an idle connection from one that has
ended (`src/w5500.c:179-181`). If the server's last segment and its FIN arrive
between the two reads, the status is CLOSE_WAIT while the bytes wait in the ring:
`net_recv` returns -1, the body is taken for truncated, and the attempt fails,
although "the connection closes once the image is consumed" (`docs/OTA.md:96`)
and every byte came in time. The board stays safe, since the request is kept and
the next attempt starts from byte zero. Looking at the size again after
CLOSE_WAIT would close the gap. `StreamKept` is what remains true: the bytes
delivered are always the beginning of the stream, and an end is reported only
when the server has ended the connection.

### Bounds

- *Pages, BodyLen*: three pages are a first, a middle and a last one; images
  shorter than, equal to and longer than the area occur. Three body cells are
  first, middle and last; each is torn, old or new independently.
- *Torn bytes*: 0, IDLE, ARMING, PENDING, 255 and one other value, that is every
  class that `cfg_bootable` and `ota_request` distinguish.
- *UART host*: one page or byte per step, so the writes of an interrupted host
  command are all visible; two images and one body cell keep the product of both
  memories and both record copies small.
- *OtaStream*: two bytes per page distinguish even, odd, first and last; every
  size class of `docs/TESTING.md` (1, 255, 256, 257, all) has its image.
- *Deadline*: the proportions of the real clock with the smallest margin that
  the assumption allows; all start values, so the wrap falls everywhere.
- *StkSession*: `MaxProbes = 2` commands before an upload reach every address
  class (LOAD_ADDRESS, then a block that crosses a page or the boot section);
  `MaxReplies = 2` is one late and one current reply.
- *NetworkConfig*: two servers and two addresses are enough to mix any two
  messages; attempts are unbounded.
- *TcpReceive, UdpReceive*: `Base` is smaller than the ring, so the size has two
  "bytes" and can be torn; the stream fills the ring twice and starts at every
  pointer, so ring and pointer wrap in every phase; the buffer is smaller than
  the ring, as 600 is smaller than 2048. `Turns = 2` is one repeated reading
  before `stable` gives up.
- *DnsReply*: the alphabet has a root, lengths, a pointer, letters of both cases
  and the offset of the question, in every combination of three or four bytes for
  the question's name and of two or three for an owner's.
- *DnsClient*: the clock wraps within two windows; `MaxAge` is one less than its
  period, the oldest that the assumption allows.
- *HttpResponse*: in `MCInputs`, 14 bytes hold a status line, one other header or a
  second length, a length and the empty line, and all texts are tried; `MCExchanges`
  cuts the shorter ones in every way, over two connections.
- *UrlHost*: nine characters hold a literal of four octets, or a port with its
  limit exceeded, with the path.
- *DhcpReply*: two options in front of a whole list are enough for any option that
  is repeated, wrong, padded or cut short to come before good ones.
- *StkFraming*: with two bits per byte most noise is a frame byte of some kind.
- *Crc32*: four damaged bytes are as many as the register has.

Every variable has a finite type, so the runs need no state constraints. Where
`TypeOK` is a theorem the runs do not repeat it (`MC_stk_session.cfg` does, for the
address arithmetic); for `UdpReceive`, `SocketSend`,
`DnsClient`, `HttpResponse`, `UrlHost`, `DhcpReply` and `StkFraming` it is part of
the property about that component. The deadlock check is off where the code itself
stops: a parser that has returned, a connection whose watched body is read or whose
attempts are used up, and data at their bound (`inputs`, `exchanges`).

### Fairness

`Bootloader!Fairness` is weak fairness of the boot steps, of the OTA engine and
of the reset after a commit. The processor runs, all network and UART waits have
deadlines (module `Deadline`), and an application that got 1 from `ota_request`
lets the watchdog expire (`docs/EEPROM.md`, step 6). No fairness is given to
the host, the server or the power supply; `Calm` says that they stop disturbing,
and `PendingInstalls` is conditional on it. `Deadline` assumes that time passes
in every wait and that the expired test of an outer loop is eventually
evaluated. `NetworkConfig` assumes only that the code takes its steps. So do `W5500` and
`Exchanges` (`Runs`), the latter also that time passes (`Passes`): the clock ticks
and 3 s expire. `W5500` adds that the server sends what it has (`TcpFlows` rests on
it), `Exchanges` that the chip reports its UDP sends and that the host on the line
repeats its frame; its noise is bounded, not fair. A lookup, a send over TCP and a
response end without anything from the network.

## 4. Proofs

`tlapm <module>`; all obligations are proved from the named assumptions on the
constants alone.

| Theorem | Statement |
|---|---|
| `BootloaderProofs!Invariance` | the inductive invariant `IInv` |
| `BootloaderProofs!TypeCorrect`, `SafeBoot`, `FailsClosed`, `CommitLast` | `TypeOK`, `NoPartialBoot`, `PreparationFailsClosed`, `PendingIsWhole` (the last when `TornBytes = {}`) |
| `BootloaderProofs!RequestSurvives`, `FlashSafe`, `FreshDecision` | `RequestKept`, `FlashGuarded`, `BootAgrees` |
| `BootloaderProofs!Refinement` | without a UART host, `Bootloader` implements `UpdatePromise` |
| `OtaStreamProofs!TypeCorrect`, `AlwaysAccepted`, `AlwaysPadded`, `InPlace`, `StaysInImage` | all five properties of `OtaStream`, for every page size and image |
| `DeadlineProofs!TypeCorrect`, `NotCutShort`, `NotLapped` | `TypeOK`, `NeverEarly`, `NeverMissed`, for every counter and deadlines with the margin |
| `NetworkConfigProofs!TypeCorrect`, `NeverMixed`, `OnlyOwnLease` | `TypeOK`, `OneSource`, `LeaseRequested`, for any servers |
| `StkSessionProofs!TypeCorrect`, `BlocksLand`, `NeverRefused`, `Confined` | all four properties of `StkSession`, for every page size, upload and block length |
| `W5500Proofs!TypeCorrect`, `DeliversInOrder`, `ImplementsByteStream` | over TCP: `TypeOK`, `InOrder`, `StreamKept`, for every ring, wrap, buffer and stream |
| `W5500Proofs!DatagramInvariance`, `DatagramsFramed`, `DatagramsWhole` | over UDP: the inductive invariant, `UdpFramed`, `UdpWhole`, for every ring, wrap, buffer and datagrams |
| `ExchangesProofs!ReadsInPacketOnly` | `InPacket`, for every datagram and host |
| `ExchangesProofs!AnswersRead` | `Agrees` of `DnsReply`, for every datagram, host and limit of steps |
| `ExchangesProofs!SocketInvariance`, `AnswersOurs` | `AnswerIsOurs`, for any use of the socket |
| `ExchangesProofs!LookupInvariance`, `ResponseInvariance`, `AnswersOwn` | `OwnAnswers`, for any clock, windows, names and pieces of a response |
| `ExchangesProofs!LineInvariance`, `OnlyFrames` | `FramesOnly`, for any bytes, checksum operation and limit |
| `InputsProofs!TypeCorrect`, `DamageDetected`, `RemainderComputed` | `TypeOK`, `Detected`, `Agrees` of `Crc32`, for data of any length and any polynomial of the register's width |
| `InputsProofs!TakenWhole`, `OffersJudged` | `OffersWhole`, `OffersAgree`, for DHCP messages of any length |
| `InputsProofs!UrlsParsed` | `UrlsAgree`, for URLs of any length and all limits |
| `InputsProofs!HeadersAccepted` | `AcceptsExactly`, for streams, pieces and limits of any size |

**Bootloader.** None of the safety properties is inductive: that no partial
image runs depends on what every phase knows. `IInv` adds the *phases*: while
the engine runs, `cfg` equals the record in EEPROM and that is a valid PENDING
one; after `k` pages the running CRC has `k` entries; before `cfg_done` the
requested image is whole; at the policy step `cfg` and `valid` describe the
EEPROM; each step of `ota_request` knows which bytes are old, zeroed and new.
`FlashTrusted` says that on a board without UART service, flash is incomplete
only under PENDING. There is one lemma per action. The action properties follow
from the invariant, and so does the refinement, with one step per action that
names the abstract step or stutter.

**OtaStream.** Only the last page is shorter than a page, so in the loop the
address is aligned unless the image is finished; from that and the page
arithmetic lemmas (`PageOf`, `NextAligned`) the guards of `flash_write` are
always satisfied.

**Deadline.** While the true time is below one wrap, the 16-bit difference is
the true time (`Tracks`). The invariant bounds the time at which each inner
wait can begin, which keeps it so.

**NetworkConfig.** An ACK that is taken answers a request in `sent`
(`AckAnswers`), and carries all three options of one server.

**StkSession.** Sequence numbers tell replies apart because at most one frame is on
its way and the next number differs from every reply's (`Numbered`); so what the host
waits for follows from where it is in the upload (`Asked`), a host that has loaded
the address is right about it until its block is executed (`Pointed`), and an answer
on the line says what the board has done (`Performed`). That every block is accepted
and lands in its place follows. `Extended` and the page arithmetic carry the address
through words and bytes.

**TcpReceive.** The invariant gives every pointer its position in the stream:
`rd` is the position of the next byte to deliver, `wr` that of the next to arrive,
both modulo `Wrap`, and at most `Size` apart (`Positions`); each position between
them has its byte at its place in the ring (`Content`); what a reading of the size
register has found so far, torn or not, is at most what is there (`Found`). The
arithmetic rests on `Wrap` being a multiple of `Size`, which makes the offset of a
wrapped pointer that of its position; the lemmas at the top of the module are about
that. Every step then is a step of `ByteStream` or leaves it alone.

**UdpReceive.** The ring holds whole datagrams behind their headers (`Layout`), and
the read pointer is at the beginning of one whenever `udp_recv` begins. Two equal
readings of the size register count whole datagrams: a torn one is lower than what its
high byte alone says when it is read again, so it is not read twice (`Steady`). So the header that is read is a header,
and what is skipped or handed over is that datagram.

**DnsReply.** Wherever the code subtracts a position from `n`, the position is
at most `n` (`Positions`), so the 16-bit difference is the real one
(`MinusExact`) and each length that passes its test ends in the datagram.
That the address is the reference's: what `name()` has compared, with the texts that may
still stand at its position in the steps that are left (`Left`), makes up the name
(`NamePlace`). A label is the beginning of what is left of the host exactly when the
rest of the name is what is left behind it (`LabelFollows`), and where no unit stands
or the steps end, no text is left. A record that is no answer hands the question on to
those behind it (`AnswerInv`). The equations of the reference's recursive functions are
proved by induction (`SpellsExist`, `ReadsExist`, `EndsExist`).

**SocketSend.** From the moment a call has cleared the interrupt flags, no flag,
answer or connection of an earlier one is left: CLOSE ends what it had under way,
and the clearing comes after it. What is seen later is of this call.

**DnsClient.** The ID is the clock, so it tells the age of a query up to a period.
A reply in the network is younger than that, hence one with the open query's ID
answers the open query, and no other.

**HttpResponse.** The bytes between `rx_pos` and `rx_len` are the last ones of this
connection and those before them were taken in order, from the reset of the place in
the buffer on.

**StkFraming.** In each state of the switch, the bytes heard since the start byte are
the frame as far as the variables describe it, and the checksum is their sum under the
line's operation; that sum is a function over the heard bytes, extended by one.

**Crc32.** The register is linear: the difference of the two registers is turned like
a register of its own. The polynomial sets the highest bit, which tells what was
shifted out, so a difference that eight turns leave below bit `k` was within the bits from
8 to `k + 7` before (`TurnsLow`). The rest of the damage can undo only the lowest bits,
eight fewer with each byte (`Room`), and the difference always reaches above them
(`DamageInv`); behind the damage it is never empty. The remainder is the same loop: a step
of the long division is a turn of the register.

**DhcpReply.** What the walk has read, with the lists of what is left, makes up the lists
of the message (`DhcpRead`): a turn moves one option from the one to the other, an option
that does not fit its kind or reaches behind the message leaves no sound list, and at END
there is exactly one. The lists themselves are a recursive function, whose equations and
types are proved by induction over the distance to the end (`EveryNatural`).

**UrlHost.** The host, port and path that have been read are each described by what every
URL that begins like this must have (`HostSoFar`, `InPort`, `InPath`): where the host and
the port end is fixed by the first byte that cannot belong to them. So a byte that is
refused begins no URL, whatever follows (`HostRefused`, `PortRefused`, `PathRefused`), and
the end within a host or port is none either. A literal is described by its marks, the
dots and both ends (`Literal`): neighbouring marks that have been passed enclose an octet,
their number is that of the octets, and digits only add to a value (`ValueGrows`), so an
octet that is too long or too high spoils every address. The port's overflow test is shown
to be the comparison it stands for (`TooHighSays`).

**HttpResponse, its header.** The invariant says what may stand behind the lines that
were taken: a whole response, headers, or nothing (`Rest`). The texts of headers are the
smallest set that is closed under putting another header in front (`Texts`), and the
reference writes exactly those that fit (`ResponsesAre`). A text has only one first line
(`LedOnce`), so each line that is taken carries the question over to what is behind it,
and a byte or line that is refused leaves no text that begins like this (`Hopeless`).

Induction over data is done with the least element of a set of naturals
(`WFMin`, `NatLessThanWellFounded`), since the induction theorems of the library take an
operator, which the provers cannot instantiate.

Only model-checked: the liveness properties (`PendingInstalls`, `OtaEnds`,
`WaitEnds`, `ConfigEnds`, `TcpFlows`, `ExchangesEnd`, `FindsFrames`), since the prover
does not handle fairness and ENABLED. Every other property of a passing run is proved.

## 5. Not modelled

- CRC collisions: outside `Crc32` a CRC is the data it was computed from. MAC,
  version and serial fields are payload.
- The text of requests: the DHCP message, the DNS query and the HTTP request are
  each one step of sending; their constant fields have no behaviour.
- The bits of SPI and of the serial line, pin, timer and chip set-up, interrupt
  masking: register writes in a fixed order, without a state that anything reads.
- The W5500, the servers, the hosts and the network are external: modelled from
  how the code uses them, with the assumptions named in section 2.
- What a UART host leaves behind: after it has written flash no promise is made
  about the application, because the code makes none.
- Intermediate `STAGE` builds, LEDs, build and release tools, linker assertions
  (the layout is a constant), and the host tests, which are a reference here.
- Parsing of arguments and writing of Intel HEX in the generators.

## 6. Left open

Two refinements are not stated: that the pages of `OtaStream` implement `Bootloader`'s
`FetchPage` and `WritePage`, and that the frames of `StkFraming` implement the line of
`StkSession`. Each side is checked and proved on its own; that they fit together is
argued in section 2 only.
