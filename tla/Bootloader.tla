---------------------------- MODULE Bootloader ----------------------------
(***************************************************************************)
(* One board: the reset-to-application loop of src/main.c with its OTA     *)
(* engine (src/ota.c), the EEPROM record it decides on, the application's  *)
(* request API (application/ota_request.c), a UART host that may program   *)
(* anything while the recovery window is open, and resets that strike      *)
(* between any two steps, or in the middle of an EEPROM or flash write.    *)
(*                                                                         *)
(* Flash is modelled by whole pages: a page holds the content of one       *)
(* image's page, is blank, or holds Junk (anything else, torn pages        *)
(* included).  The running CRC is the sequence of page contents it was     *)
(* computed from, and image_crc of a request for m is the sequence of m's  *)
(* own pages: CRC collisions are outside the model.                        *)
(***************************************************************************)
EXTENDS BootRecord, Sequences

CONSTANTS
    Blank,      \* content of an erased page (0xFF bytes)
    UrlOk,      \* the images whose URL url_parse and dns() can use
    TornBytes,  \* values a record byte may be left with when power fails
                \* during its write; {}: single writes are not torn
    UartHost,   \* whether a programming host is connected to the UART
    HostBytes   \* HostBytes[f]: values that host may store in byte f

ByteFields == {"magic0", "magic1", "format", "state"}
Contents == Images \cup {Blank, Junk}

ASSUME BootloaderAssumption ==
    /\ Blank \notin Images \cup {Factory, Junk}
    /\ UrlOk \subseteq Images
    /\ TornBytes \subseteq Byte
    /\ UartHost \in BOOLEAN
    /\ HostBytes \in [ByteFields -> SUBSET Byte]

VARIABLES
    ee,       \* EEPROM: the record at CFG_BASE
    flash,    \* application flash, one content per page
    pc,       \* what the processor is about to do
    cfg,      \* RAM copy of the record (eeprom_cfg.c)
    valid,    \* main's local: result of cfg_load
    at,       \* ota's local: the page to write next (at / 256 + 1)
    page,     \* shared page buffer
    crc,      \* ota's local: page contents hashed since the OTA began
    req,      \* the application's Config: the image it asks for
    i,        \* ota_request's local: the body cell to write next
    serviced  \* history: a UART host has written flash or EEPROM

ram == <<cfg, valid, at, page, crc, req, i>>
vars == <<ee, flash, pc, ram, serviced>>

OtaSteps == {"net", "fetch", "erase", "write", "dlcrc", "rbcrc"}
RequestSteps == {"arm", "inv0", "inv1", "fill", "fmt", "mag0", "mag1", "commit"}
AppSteps == {"app"} \cup RequestSteps
BootSteps == {"stk500", "load", "done", "policy"} \cup OtaSteps

-----------------------------------------------------------------------------
(* Records and images *)

\* The image of a record that asks for one.
Wanted(c) == c.body[1]

\* The record that ota_request builds in RAM for image m.
Requested(m) ==
    [magic0 |-> MAGIC0, magic1 |-> MAGIC1, format |-> CFG_FORMAT,
     state |-> PENDING, body |-> WholeBody(m)]

ZeroConfig ==
    [magic0 |-> 0, magic1 |-> 0, format |-> 0, state |-> 0,
     body |-> WholeBody(Junk)]

\* All the pages of image m are in flash.
Whole(m) == m \in Installable /\ \A p \in 1..Size[m] : flash[p] = m

Installed == \E m \in Images : Whole(m)

-----------------------------------------------------------------------------
(* Startup: a provisioned or a virgin board, after reset. *)

\* Erased EEPROM, the factory record, a request made on the bench
\* (tools/eeprom.py, which refuses a bad URL), or one that has been served.
InitialRecords ==
    {[magic0 |-> 255, magic1 |-> 255, format |-> 255, state |-> 255,
      body |-> WholeBody(Junk)]}
    \cup {[Requested(Factory) EXCEPT !.state = IDLE]}
    \cup {[Requested(m) EXCEPT !.state = s] :
            m \in Installable \cap UrlOk, s \in {IDLE, PENDING}}

\* Flash is erased, or the ISP programmer left one image in it.
InitialFlash ==
    {[p \in 1..Pages |-> Blank]}
    \cup {[p \in 1..Pages |-> IF p <= Size[m] THEN m ELSE Blank] :
            m \in Installable}

\* Reset clears .bss; the locals are dead, and are given a fixed value.
RamCleared ==
    /\ cfg' = ZeroConfig
    /\ valid' = FALSE
    /\ at' = 1
    /\ page' = Junk
    /\ crc' = <<>>
    /\ req' = Factory
    /\ i' = 1

Init ==
    /\ ee \in InitialRecords
    /\ flash \in InitialFlash
    /\ pc = "stk500"
    /\ cfg = ZeroConfig
    /\ valid = FALSE
    /\ at = 1
    /\ page = Junk
    /\ crc = <<>>
    /\ req = Factory
    /\ i = 1
    /\ serviced = FALSE

-----------------------------------------------------------------------------
(* stk500(): the host may program anything, in any order. *)

HostFlash ==
    /\ UartHost /\ pc = "stk500"
    /\ \E p \in 1..Pages, c \in Contents : flash' = [flash EXCEPT ![p] = c]
    /\ serviced' = TRUE
    /\ UNCHANGED <<ee, pc, ram>>

HostEeprom ==
    /\ UartHost /\ pc = "stk500"
    /\ \/ \E v \in HostBytes["magic0"] : ee' = [ee EXCEPT !.magic0 = v]
       \/ \E v \in HostBytes["magic1"] : ee' = [ee EXCEPT !.magic1 = v]
       \/ \E v \in HostBytes["format"] : ee' = [ee EXCEPT !.format = v]
       \/ \E v \in HostBytes["state"] : ee' = [ee EXCEPT !.state = v]
       \/ \E j \in 1..BodyLen, c \in Cells : ee' = [ee EXCEPT !.body[j] = c]
    /\ serviced' = TRUE
    /\ UNCHANGED <<flash, pc, ram>>

\* The host leaves programming mode or is silent for two seconds.
UartClose ==
    /\ pc = "stk500"
    /\ pc' = "load"
    /\ UNCHANGED <<ee, flash, ram, serviced>>

-----------------------------------------------------------------------------
(* main(): the decisions *)

\* Mutant: a valid record starts an update whatever its state.
cfg_loadAnyState ==
    /\ pc = "load"
    /\ cfg' = ee
    /\ valid' = cfg_valid(ee)
    /\ pc' = IF valid' THEN "net" ELSE "policy"
    /\ UNCHANGED <<ee, flash, at, page, crc, req, i, serviced>>

cfg_load ==
    /\ pc = "load"
    /\ cfg' = ee
    /\ valid' = cfg_valid(ee)
    /\ pc' = IF valid' /\ cfg'.state = PENDING THEN "net" ELSE "policy"
    /\ UNCHANGED <<ee, flash, at, page, crc, req, i, serviced>>

\* Mutant: the request is cleared in RAM only.
cfg_doneRamOnly ==
    /\ pc = "done"
    /\ cfg' = [cfg EXCEPT !.state = IDLE]
    /\ pc' = "policy"
    /\ UNCHANGED <<ee, flash, valid, at, page, crc, req, i, serviced>>

\* ota() returned 1.
cfg_done ==
    /\ pc = "done"
    /\ ee' = [ee EXCEPT !.state = IDLE]
    /\ cfg' = [cfg EXCEPT !.state = IDLE]
    /\ pc' = "policy"
    /\ UNCHANGED <<flash, valid, at, page, crc, req, i, serviced>>

\* The first two bytes of flash are not 0xFF.  An image starts with its
\* vector table; a Junk page may start either way.
StayInBoot ==
    /\ pc = "policy"
    /\ ~cfg_bootable(cfg, valid) \/ flash[1] \in {Blank, Junk}
    /\ pc' = "stk500"
    /\ UNCHANGED <<ee, flash, ram, serviced>>

\* The application's own memory takes over: what boot held in RAM is dead.
application ==
    /\ pc = "policy"
    /\ cfg_bootable(cfg, valid)
    /\ flash[1] # Blank
    /\ pc' = "app"
    /\ RamCleared
    /\ UNCHANGED <<ee, flash, serviced>>

-----------------------------------------------------------------------------
(* ota(): every return 0 sends main back to stk500() *)

\* Mutant: a failed attempt gives the request up.
OtaFailsGivingUp ==
    /\ pc' = "stk500"
    /\ ee' = [ee EXCEPT !.state = IDLE]
    /\ UNCHANGED <<flash, ram, serviced>>

\* Mutant: a failed attempt is retried without returning to UART recovery.
OtaFailsRetrying ==
    /\ pc' = "net"
    /\ UNCHANGED <<ee, flash, ram, serviced>>

OtaFails ==
    /\ pc' = "stk500"
    /\ UNCHANGED <<ee, flash, ram, serviced>>

\* url_parse, net_init, network_configure, dns and http_open.
NetworkReady ==
    /\ pc = "net"
    /\ Wanted(cfg) \in UrlOk
    /\ at' = 1
    /\ crc' = <<>>
    /\ pc' = "fetch"
    /\ UNCHANGED <<ee, flash, cfg, valid, page, req, i, serviced>>

NetworkFails == pc = "net" /\ OtaFails

\* One page of the response body.  The server may send any content.
FetchPage(c) ==
    /\ pc = "fetch"
    /\ page' = c
    /\ crc' = Append(crc, c)
    /\ pc' = "erase"
    /\ UNCHANGED <<ee, flash, cfg, valid, at, req, i, serviced>>

\* http_byte() < 0: the connection ended or timed out inside the page.
FetchFails == pc = "fetch" /\ OtaFails

\* flash_write(), first half.
ErasePage ==
    /\ pc = "erase"
    /\ at <= Pages
    /\ flash' = [flash EXCEPT ![at] = Blank]
    /\ pc' = "write"
    /\ UNCHANGED <<ee, ram, serviced>>

\* flash_write(), second half; c differs from the buffer when the cell array
\* did not take it.  Then the loop test.
WritePage(c) ==
    /\ pc = "write"
    /\ flash' = [flash EXCEPT ![at] = c]
    /\ at' = at + 1
    /\ pc' = IF at < Size[Wanted(cfg)] THEN "fetch" ELSE "dlcrc"
    /\ UNCHANGED <<ee, cfg, valid, page, crc, req, i, serviced>>

ImageCrc(m) == [p \in 1..Size[m] |-> m]

CheckDownload ==
    /\ pc = "dlcrc"
    /\ IF crc = ImageCrc(Wanted(cfg)) THEN pc' = "rbcrc" ELSE pc' = "stk500"
    /\ UNCHANGED <<ee, flash, ram, serviced>>

\* Mutant: the second comparison is missing.
CheckReadbackSkipped ==
    /\ pc = "rbcrc"
    /\ pc' = "done"
    /\ UNCHANGED <<ee, flash, ram, serviced>>

CheckReadback ==
    /\ pc = "rbcrc"
    /\ IF [p \in 1..Size[Wanted(cfg)] |-> flash[p]] = ImageCrc(Wanted(cfg))
         THEN pc' = "done" ELSE pc' = "stk500"
    /\ UNCHANGED <<ee, flash, ram, serviced>>

-----------------------------------------------------------------------------
(* ota_request(): the running application asks for an update *)

\* Mutant: a PENDING request may be replaced.
RequestStartAnyState(m) ==
    /\ pc = "app"
    /\ cfg_valid(Requested(m))
    /\ m \in UrlOk
    /\ req' = m
    /\ pc' = "arm"
    /\ UNCHANGED <<ee, flash, cfg, valid, at, page, crc, i, serviced>>

\* Mutant: the URL is not parsed before the record is written.
RequestStartAnyUrl(m) ==
    /\ pc = "app"
    /\ ee.state \in {0, 255}
    /\ cfg_valid(Requested(m))
    /\ req' = m
    /\ pc' = "arm"
    /\ UNCHANGED <<ee, flash, cfg, valid, at, page, crc, i, serviced>>

RequestStart(m) ==
    /\ pc = "app"
    /\ ee.state \in {0, 255}
    /\ cfg_valid(Requested(m))
    /\ m \in UrlOk
    /\ req' = m
    /\ pc' = "arm"
    /\ UNCHANGED <<ee, flash, cfg, valid, at, page, crc, i, serviced>>

\* Step from one EEPROM write of ota_request to the next.
RequestStep(from, to) ==
    /\ pc = from
    /\ pc' = to
    /\ UNCHANGED <<flash, cfg, valid, at, page, crc, req, serviced>>

\* Mutant: the ARMING mark is missing.
ArmMissing ==
    /\ RequestStep("arm", "inv0")
    /\ UNCHANGED <<ee, i>>

Arm ==
    /\ RequestStep("arm", "inv0")
    /\ ee' = [ee EXCEPT !.state = ARMING]
    /\ UNCHANGED i

InvalidateLow ==
    /\ RequestStep("inv0", "inv1")
    /\ ee' = [ee EXCEPT !.magic0 = 0]
    /\ UNCHANGED i

\* Mutant: the payload loop starts at byte 3, so PENDING is written first.
InvalidateHighThenState ==
    /\ RequestStep("inv1", "fill")
    /\ ee' = [ee EXCEPT !.magic1 = 0, !.state = PENDING]
    /\ i' = 1

InvalidateHigh ==
    /\ RequestStep("inv1", "fill")
    /\ ee' = [ee EXCEPT !.magic1 = 0]
    /\ i' = 1

FillBody ==
    /\ RequestStep("fill", IF i < BodyLen THEN "fill" ELSE "fmt")
    /\ ee' = [ee EXCEPT !.body[i] = Requested(req).body[i]]
    /\ i' = i + 1

WriteFormat ==
    /\ RequestStep("fmt", "mag0")
    /\ ee' = [ee EXCEPT !.format = CFG_FORMAT]
    /\ UNCHANGED i

WriteMagicLow ==
    /\ RequestStep("mag0", "mag1")
    /\ ee' = [ee EXCEPT !.magic0 = MAGIC0]
    /\ UNCHANGED i

WriteMagicHigh ==
    /\ RequestStep("mag1", "commit")
    /\ ee' = [ee EXCEPT !.magic1 = MAGIC1]
    /\ UNCHANGED i

Commit ==
    /\ RequestStep("commit", "app")
    /\ ee' = [ee EXCEPT !.state = PENDING]
    /\ UNCHANGED i

-----------------------------------------------------------------------------
(* Resets: power failure, brown-out, watchdog, reset button *)

\* eeprom_update_byte starts a write only when the value differs.
TornState(from, v) ==
    /\ pc = from /\ ee.state # v
    /\ \E b \in TornBytes : ee' = [ee EXCEPT !.state = b]

TornMagic0(from, v) ==
    /\ pc = from /\ ee.magic0 # v
    /\ \E b \in TornBytes : ee' = [ee EXCEPT !.magic0 = b]

TornMagic1(from, v) ==
    /\ pc = from /\ ee.magic1 # v
    /\ \E b \in TornBytes : ee' = [ee EXCEPT !.magic1 = b]

TornFormat ==
    /\ pc = "fmt" /\ ee.format # CFG_FORMAT
    /\ \E b \in TornBytes : ee' = [ee EXCEPT !.format = b]

\* A cell is many bytes: a cut inside it leaves a mixture.
TornBody ==
    /\ pc = "fill"
    /\ ee' = [ee EXCEPT !.body[i] = Junk]

TornEeprom ==
    /\ \/ TornState("arm", ARMING) \/ TornState("commit", PENDING)
       \/ TornState("done", IDLE)
       \/ TornMagic0("inv0", 0) \/ TornMagic0("mag0", MAGIC0)
       \/ TornMagic1("inv1", 0) \/ TornMagic1("mag1", MAGIC1)
       \/ TornFormat \/ TornBody
    /\ UNCHANGED flash

TornFlash ==
    /\ pc \in {"erase", "write"}
    /\ flash' = [flash EXCEPT ![at] = Junk]
    /\ UNCHANGED ee

Reset ==
    /\ \/ UNCHANGED <<ee, flash>>
       \/ TornEeprom
       \/ TornFlash
    /\ pc' = "stk500"
    /\ RamCleared
    /\ UNCHANGED serviced

-----------------------------------------------------------------------------
Request == \E m \in Images : RequestStart(m)

RequestWrite ==
    \/ Arm \/ InvalidateLow \/ InvalidateHigh \/ FillBody
    \/ WriteFormat \/ WriteMagicLow \/ WriteMagicHigh \/ Commit

Ota ==
    \/ NetworkReady \/ NetworkFails
    \/ \E c \in Images \cup {Junk} : FetchPage(c)
    \/ FetchFails
    \/ ErasePage
    \/ \E c \in {page, Junk} : WritePage(c)
    \/ CheckDownload \/ CheckReadback

Main == UartClose \/ cfg_load \/ cfg_done \/ StayInBoot \/ application

Host == HostFlash \/ HostEeprom

Next == Main \/ Ota \/ Request \/ RequestWrite \/ Host \/ Reset

Spec == Init /\ [][Next]_vars

-----------------------------------------------------------------------------
(* Safety *)

TypeOK ==
    /\ ee \in Config
    /\ flash \in [1..Pages -> Contents]
    /\ pc \in BootSteps \cup AppSteps
    /\ cfg \in Config
    /\ valid \in BOOLEAN
    /\ at \in 1..(Pages + 1)
    /\ page \in Contents
    /\ crc \in Seq(Contents)
    /\ req \in Bodies
    /\ i \in 1..(BodyLen + 1)
    /\ serviced \in BOOLEAN

\* Whatever resets, torn writes and bad downloads happened, an application
\* runs only when some image is complete in flash; until a UART host has
\* reprogrammed the board, which can put anything there.
NoPartialBoot == pc \in AppSteps /\ ~serviced => Installed

\* ota_request.c: "State ARMING first: any interrupted preparation fails
\* closed".  A record body that mixes two records is marked ARMING, which
\* keeps every later startup from running the application.
PreparationFailsClosed ==
    ~serviced /\ (\A c \in Cells : ee.body # WholeBody(c)) => ee.state = ARMING

\* "commit magic and PENDING last": when single byte writes are not torn, the
\* PENDING mark is only ever seen on a complete, valid record.  This is what
\* tests/run.py, test_eeprom_power_cut_every_write, asserts of one request.
PendingIsWhole == ~serviced /\ ee.state = PENDING => cfg_valid(ee)

\* A committed request survives until the image it names is complete in
\* flash: no failure, reset or second request changes a byte of the record.
\* Only the UART host may withdraw it.
RequestKept ==
    [][\A m \in Images :
        Committed(ee, m) /\ pc # "stk500" /\ ee' # ee => Whole(m)]_vars

\* Outside UART recovery flash changes only while the EEPROM itself holds a
\* valid PENDING record, and only in the pages of the image it names; even
\* when the host rewrote the record just before.
FlashGuarded ==
    [][\A p \in 1..Pages :
        flash'[p] # flash[p] /\ pc # "stk500"
          => \E m \in Images : Committed(ee, m) /\ p <= Size[m]]_vars

\* main decides on its RAM copy of the record, read before ota() and
\* cfg_done().  The application is started only if the EEPROM, read again at
\* that moment, would give the same permission.
BootAgrees ==
    [][pc = "policy" /\ pc' = "app" => cfg_bootable(ee, cfg_valid(ee))]_vars

-----------------------------------------------------------------------------
(* The promise: what these steps amount to for the application *)

CompleteImage == IF Whole(flash[1]) THEN flash[1] ELSE Blank
OpenRequest == IF Committed(ee, Wanted(ee)) THEN Wanted(ee) ELSE Blank
RunningImage == IF pc \in AppSteps THEN CompleteImage ELSE Blank

Promise == INSTANCE UpdatePromise
    WITH None <- Blank, image <- CompleteImage, request <- OpenRequest,
         running <- RunningImage

\* On a board without a UART host, every step of boot, of ota_request and of
\* a reset is a step of UpdatePromise: an image is given up only for a
\* committed request, a request ends only with its image complete, and only
\* an image that was there at the start or was asked for ever runs.
PromiseKept == Promise!Spec

-----------------------------------------------------------------------------
(* Liveness *)

\* The processor runs: no boot step waits for ever (every network and UART
\* wait has a deadline), and an application that has committed a request
\* resets the board (docs/EEPROM.md, step 6: it lets the watchdog expire).
AppRestarts == pc = "app" /\ ee.state = PENDING /\ Reset

Fairness ==
    /\ WF_vars(Main)
    /\ WF_vars(Ota)
    /\ WF_vars(AppRestarts)

FairSpec == Spec /\ Fairness

\* What the environment may do to an attempt.
Disturbance ==
    \/ Host
    \/ pc \notin AppSteps /\ Reset
    \/ Wanted(cfg) \in UrlOk /\ NetworkFails
    \/ FetchFails
    \/ \E c \in Contents \ {Wanted(cfg)} : FetchPage(c)
    \/ \E c \in Contents \ {page} : WritePage(c)

Calm == <>[][~Disturbance]_vars

\* Failed attempts are retried from the first page: if the disturbances end,
\* the image of a committed request is installed and started, or installed
\* and held because a cut inside cfg_done left an unknown state byte.
PendingInstalls ==
    Calm => \A m \in Images :
        (Committed(ee, m) /\ ~serviced)
          ~> (\/ serviced
              \/ Whole(m) /\ pc = "app" /\ ee.state = IDLE
              \/ Whole(m) /\ ee.state \notin {IDLE, PENDING})

\* Every attempt ends, in UART recovery or in a finished update, whatever
\* the server sends.
OtaEnds == pc \in OtaSteps ~> pc \in {"stk500", "done"}
=============================================================================
