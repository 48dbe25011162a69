------------------------- MODULE BootloaderProofs -------------------------
(***************************************************************************)
(* Theorems about Bootloader for every flash size, every set of images and *)
(* sizes, every record length and every way a byte write can be torn.      *)
(***************************************************************************)
EXTENDS Bootloader, TLAPS

(***************************************************************************)
(* The inductive invariant.  Its parts say what each phase of the program  *)
(* knows about the EEPROM and the flash.                                   *)
(***************************************************************************)

\* ota() and cfg_done() work on a RAM copy that is still what the EEPROM
\* holds, and the EEPROM holds a committed request.
OtaPhase ==
    pc \in OtaSteps \cup {"done"} =>
        /\ cfg = ee /\ valid
        /\ Committed(ee, Wanted(ee))

\* The write position stays inside the image, so inside the application area.
PagePhase == pc \in {"fetch", "erase", "write"} => at <= Size[Wanted(cfg)]

\* cfg_done runs only after the readback matched.
DonePhase == pc = "done" => Whole(Wanted(ee))

\* The decision to start is taken on fresh data, cfg_done's write included.
PolicyPhase == pc = "policy" => cfg = ee /\ valid = cfg_valid(ee)

\* ota_request marks ARMING first, and knows what it has written since.
ArmedPhase ==
    /\ pc \in RequestSteps => req \in Installable
    /\ pc = "arm" => ee.state \in {0, 255}
    /\ pc \in RequestSteps \ {"arm"} => ee.state = ARMING

FillPhase ==
    /\ pc = "fill" => i <= BodyLen /\ \A j \in 1..(i - 1) : ee.body[j] = req
    /\ pc \in {"fmt", "mag0", "mag1", "commit"} => ee.body = WholeBody(req)
    /\ pc \in {"mag0", "mag1", "commit"} => ee.format = CFG_FORMAT
    /\ pc \in {"mag1", "commit"} => ee.magic0 = MAGIC0
    /\ pc = "commit" => ee.magic1 = MAGIC1

\* Until a host writes, flash that could be started is complete, unless a
\* committed request keeps it from being started.
FlashTrusted ==
    ~serviced => Installed \/ flash[1] = Blank \/ Committed(ee, Wanted(ee))

\* When byte writes are atomic.
CleanPending == TornBytes = {} => PendingIsWhole

Phases ==
    /\ OtaPhase /\ PagePhase /\ DonePhase /\ PolicyPhase
    /\ ArmedPhase /\ FillPhase

IInv ==
    /\ TypeOK
    /\ Phases
    /\ FlashTrusted
    /\ NoPartialBoot
    /\ PreparationFailsClosed
    /\ CleanPending

-----------------------------------------------------------------------------
(* Records *)

LEMMA WholeBodyType == \A b \in Cells : WholeBody(b) \in [1..BodyLen -> Cells]
  BY DEF WholeBody

\* The body names its record.
LEMMA WantedOfWhole ==
  ASSUME NEW c, NEW b, c.body = WholeBody(b)
  PROVE  Wanted(c) = b
  BY RecordAssumption DEF Wanted, WholeBody

LEMMA InstallableSize ==
  ASSUME NEW m \in Installable
  PROVE  m \in Images /\ m \in Cells /\ Size[m] \in Nat /\ 1 <= Size[m] /\ Size[m] <= Pages
  BY RecordAssumption DEF Installable, Cells, Bodies

\* A record is acted on exactly when it is committed for some image.
LEMMA CommittedWanted ==
  ASSUME NEW c, NEW m, Committed(c, m)
  PROVE  /\ Wanted(c) = m /\ Committed(c, Wanted(c)) /\ m \in Images
         /\ cfg_valid(c) /\ c.state = PENDING
  <1>1. Wanted(c) = m
    BY WantedOfWhole DEF Committed
  <1>2. m \in Installable
    BY DEF Committed
  <1>3. cfg_valid(c)
    BY <1>2 DEF Committed, cfg_valid
  <1>. QED  BY <1>1, <1>2, <1>3, InstallableSize DEF Committed

LEMMA ValidPending ==
  ASSUME NEW c, cfg_valid(c), c.state = PENDING
  PROVE  Committed(c, Wanted(c))
  <1>1. PICK m \in Installable : c.body = WholeBody(m)
    BY DEF cfg_valid, PENDING, IDLE
  <1>2. Wanted(c) = m
    BY <1>1, WantedOfWhole
  <1>. QED  BY <1>1, <1>2 DEF cfg_valid, Committed

-----------------------------------------------------------------------------
(* Type correctness *)

LEMMA ByteUpdate ==
  ASSUME NEW c \in Config, NEW v \in Byte
  PROVE  /\ [c EXCEPT !.magic0 = v] \in Config
         /\ [c EXCEPT !.magic1 = v] \in Config
         /\ [c EXCEPT !.format = v] \in Config
         /\ [c EXCEPT !.state = v] \in Config
  BY DEF Config

LEMMA CellUpdate ==
  ASSUME NEW c \in Config, NEW j \in 1..BodyLen, NEW v \in Cells
  PROVE  [c EXCEPT !.body[j] = v] \in Config
  BY DEF Config

LEMMA ByteConstants ==
  /\ {0, 255, IDLE, ARMING, PENDING, MAGIC0, MAGIC1, CFG_FORMAT} \subseteq Byte
  /\ IDLE # PENDING /\ IDLE # ARMING /\ ARMING # PENDING
  /\ PENDING \notin {0, 255} /\ ARMING \notin {0, 255}
  BY DEF Byte, IDLE, ARMING, PENDING, MAGIC0, MAGIC1, CFG_FORMAT

LEMMA ConfigTypes ==
  /\ ZeroConfig \in Config
  /\ \A m \in Bodies : Requested(m) \in Config
  /\ InitialRecords \subseteq Config
  <1>1. ZeroConfig \in Config
    BY DEF ZeroConfig, Config, Byte, WholeBody, Cells
  <1>2. \A m \in Bodies : Requested(m) \in Config
    BY DEF Requested, Config, Byte, MAGIC0, MAGIC1, CFG_FORMAT, PENDING, WholeBody, Cells
  <1>3. ASSUME NEW r \in InitialRecords PROVE r \in Config
    <2>1. CASE r = [magic0 |-> 255, magic1 |-> 255, format |-> 255, state |-> 255,
                    body |-> WholeBody(Junk)]
      BY <2>1 DEF Config, Byte, WholeBody, Cells
    <2>2. CASE r = [Requested(Factory) EXCEPT !.state = IDLE]
      BY <2>2 DEF Requested, Config, Byte, MAGIC0, MAGIC1, CFG_FORMAT, IDLE,
                  WholeBody, Cells, Bodies
    <2>3. CASE \E m \in Installable \cap UrlOk, s \in {IDLE, PENDING} :
                  r = [Requested(m) EXCEPT !.state = s]
      BY <2>3 DEF Requested, Config, Byte, MAGIC0, MAGIC1, CFG_FORMAT, IDLE,
                  PENDING, WholeBody, Cells, Bodies, Installable
    <2>. QED  BY <1>3, <2>1, <2>2, <2>3 DEF InitialRecords
  <1>. QED  BY <1>1, <1>2, <1>3

LEMMA TypeInit == Init => TypeOK
  <1>. SUFFICES ASSUME Init PROVE TypeOK
    OBVIOUS
  <1>1. ee \in Config /\ cfg \in Config
    BY ConfigTypes DEF Init
  <1>2. flash \in [1..Pages -> Contents]
    BY DEF Init, InitialFlash, Contents, Installable
  <1>3. at \in 1..(Pages + 1) /\ i \in 1..(BodyLen + 1)
    BY RecordAssumption DEF Init
  <1>4. crc \in Seq(Contents)
    BY DEF Init
  <1>. QED
    BY <1>1, <1>2, <1>3, <1>4 DEF Init, TypeOK, BootSteps, Contents, Bodies
-----------------------------------------------------------------------------
(* The invariant holds initially and is preserved by every action *)

LEMMA InitIInv == Init => IInv
  <1>. SUFFICES ASSUME Init PROVE IInv
    OBVIOUS
  <1>1. TypeOK
    BY TypeInit
  <1>2. Phases
    BY DEF Init, Phases, OtaPhase, PagePhase, DonePhase, PolicyPhase, ArmedPhase,
           FillPhase, OtaSteps, RequestSteps
  <1>3. NoPartialBoot
    BY DEF Init, NoPartialBoot, AppSteps, RequestSteps
  <1>4. FlashTrusted
    <2>1. CASE flash = [p \in 1..Pages |-> Blank]
      BY <2>1, RecordAssumption DEF FlashTrusted
    <2>2. CASE \E m \in Installable :
                 flash = [p \in 1..Pages |-> IF p <= Size[m] THEN m ELSE Blank]
      <3>1. PICK m \in Installable :
                 flash = [p \in 1..Pages |-> IF p <= Size[m] THEN m ELSE Blank]
        BY <2>2
      <3>2. Whole(m)
        <4>. SUFFICES ASSUME NEW p \in 1..Size[m] PROVE flash[p] = m
          BY DEF Whole
        <4>1. p \in 1..Pages /\ p <= Size[m]
          BY InstallableSize, RecordAssumption
        <4>. QED  BY <3>1, <4>1
      <3>. QED  BY <3>2 DEF FlashTrusted, Installed, Installable
    <2>. QED  BY <2>1, <2>2 DEF Init, InitialFlash
  <1>5. \E c \in Cells : ee.body = WholeBody(c)
    <2>1. CASE ee = [magic0 |-> 255, magic1 |-> 255, format |-> 255, state |-> 255,
                     body |-> WholeBody(Junk)]
      BY <2>1 DEF Cells
    <2>2. CASE ee = [Requested(Factory) EXCEPT !.state = IDLE]
      BY <2>2 DEF Requested, Cells, Bodies
    <2>3. ASSUME NEW m \in Installable \cap UrlOk, NEW s \in {IDLE, PENDING},
                 ee = [Requested(m) EXCEPT !.state = s]
          PROVE  ee.body = WholeBody(m) /\ m \in Cells
      BY <2>3, InstallableSize DEF Requested
    <2>. QED  BY <2>1, <2>2, <2>3 DEF Init, InitialRecords
  <1>6. ee.state = PENDING => cfg_valid(ee)
    <2>1. CASE ee = [magic0 |-> 255, magic1 |-> 255, format |-> 255, state |-> 255,
                     body |-> WholeBody(Junk)]
      BY <2>1 DEF PENDING
    <2>2. CASE ee = [Requested(Factory) EXCEPT !.state = IDLE]
      BY <2>2 DEF Requested, IDLE, PENDING
    <2>3. ASSUME NEW m \in Installable \cap UrlOk, NEW s \in {IDLE, PENDING},
                 ee = [Requested(m) EXCEPT !.state = s]
          PROVE  cfg_valid(ee)
      BY <2>3 DEF Requested, cfg_valid
    <2>. QED  BY <2>1, <2>2, <2>3 DEF Init, InitialRecords
  <1>. QED
    BY <1>1, <1>2, <1>3, <1>4, <1>5, <1>6
    DEF IInv, PreparationFailsClosed, CleanPending, PendingIsWhole

\* Most steps leave the EEPROM and the flash alone.
LEMMA StorageFrame ==
  ASSUME IInv, UNCHANGED <<ee, flash, serviced>>
  PROVE  /\ FlashTrusted' /\ PreparationFailsClosed' /\ CleanPending'
         /\ Installed' <=> Installed
         /\ \A m : Whole(m)' <=> Whole(m)
  BY DEF IInv, FlashTrusted, PreparationFailsClosed, CleanPending, PendingIsWhole,
         Installed, Whole

LEMMA UartCloseIInv ==
  ASSUME IInv, UartClose
  PROVE  IInv'
  <1>. USE DEF UartClose, IInv, ram
  <1>1. TypeOK'
    BY DEF TypeOK, BootSteps
  <1>2. Phases' /\ NoPartialBoot'
    BY DEF Phases, OtaPhase, PagePhase, DonePhase, PolicyPhase, ArmedPhase, FillPhase,
           OtaSteps, RequestSteps, NoPartialBoot, AppSteps
  <1>. QED  BY <1>1, <1>2, StorageFrame

LEMMA cfg_loadIInv ==
  ASSUME IInv, cfg_load
  PROVE  IInv'
  <1>. USE DEF cfg_load, IInv
  <1>1. TypeOK'
    BY DEF TypeOK, BootSteps, OtaSteps, cfg_valid
  <1>2. pc' = "net" => Committed(ee, Wanted(ee))
    BY ValidPending
  <1>3. Phases' /\ NoPartialBoot'
    BY <1>2 DEF Phases, OtaPhase, PagePhase, DonePhase, PolicyPhase, ArmedPhase,
                FillPhase, OtaSteps, RequestSteps, NoPartialBoot, AppSteps
  <1>. QED  BY <1>1, <1>3, StorageFrame

\* The image is complete, so the request may go.
LEMMA cfg_doneIInv ==
  ASSUME IInv, cfg_done
  PROVE  IInv'
  <1>. USE DEF cfg_done, IInv
  <1>1. TypeOK'
    <2>1. ee' \in Config /\ cfg' \in Config
      BY ByteUpdate, ByteConstants DEF TypeOK
    <2>. QED  BY <2>1 DEF TypeOK, BootSteps
  <1>2. /\ cfg = ee /\ valid /\ Committed(ee, Wanted(ee)) /\ Whole(Wanted(ee))
        /\ Wanted(ee) \in Images
    BY CommittedWanted DEF Phases, OtaPhase, DonePhase
  <1>3. Installed'
    BY <1>2 DEF Whole, Installed
  <1>4. cfg_valid(ee')
    BY <1>2 DEF Committed, cfg_valid, TypeOK, Config
  <1>5. valid' = cfg_valid(ee')
    BY <1>2, <1>4 DEF cfg_valid, TypeOK
  <1>6. Phases'
    BY <1>2, <1>5 DEF Phases, OtaPhase, PagePhase, DonePhase, PolicyPhase, ArmedPhase,
                FillPhase, OtaSteps, RequestSteps
  <1>7. PreparationFailsClosed' /\ CleanPending'
    BY <1>2, <1>4 DEF PreparationFailsClosed, Committed, CleanPending, PendingIsWhole,
       TypeOK, Config, Cells, Bodies
  <1>. QED
    BY <1>1, <1>3, <1>6, <1>7 DEF FlashTrusted, NoPartialBoot

LEMMA StayInBootIInv ==
  ASSUME IInv, StayInBoot
  PROVE  IInv'
  <1>. USE DEF StayInBoot, IInv, ram
  <1>1. TypeOK'
    BY DEF TypeOK, BootSteps
  <1>2. Phases' /\ NoPartialBoot'
    BY DEF Phases, OtaPhase, PagePhase, DonePhase, PolicyPhase, ArmedPhase, FillPhase,
           OtaSteps, RequestSteps, NoPartialBoot, AppSteps
  <1>. QED  BY <1>1, <1>2, StorageFrame

LEMMA RamClearedType ==
  ASSUME RamCleared
  PROVE  /\ cfg' \in Config /\ valid' \in BOOLEAN /\ at' \in 1..(Pages + 1)
         /\ page' \in Contents /\ crc' \in Seq(Contents) /\ req' \in Bodies
         /\ i' \in 1..(BodyLen + 1)
  <1>1. at' \in 1..(Pages + 1) /\ i' \in 1..(BodyLen + 1)
    BY RecordAssumption DEF RamCleared
  <1>2. crc' \in Seq(Contents)
    BY DEF RamCleared
  <1>. QED  BY <1>1, <1>2, ConfigTypes DEF RamCleared, Contents, Bodies

\* A bootable record is not PENDING, so what protects flash must be that it
\* is complete.
LEMMA applicationIInv ==
  ASSUME IInv, application
  PROVE  IInv'
  <1>. USE DEF application, IInv
  <1>1. TypeOK'
    BY RamClearedType DEF TypeOK, AppSteps
  <1>2. ~Committed(ee, Wanted(ee))
    BY DEF Phases, PolicyPhase, cfg_bootable, Committed
  <1>3. NoPartialBoot'
    BY <1>2, StorageFrame DEF FlashTrusted, NoPartialBoot
  <1>4. Phases'
    BY DEF Phases, OtaPhase, PagePhase, DonePhase, PolicyPhase, ArmedPhase, FillPhase,
           OtaSteps, RequestSteps
  <1>. QED  BY <1>1, <1>3, <1>4, StorageFrame

-----------------------------------------------------------------------------
(* ota() *)

\* A failed attempt changes nothing that lasts.
LEMMA OtaFailsIInv ==
  ASSUME IInv, OtaFails
  PROVE  IInv'
  <1>. USE DEF OtaFails, IInv, ram
  <1>1. TypeOK'
    BY DEF TypeOK, BootSteps
  <1>2. Phases' /\ NoPartialBoot'
    BY DEF Phases, OtaPhase, PagePhase, DonePhase, PolicyPhase, ArmedPhase, FillPhase,
           OtaSteps, RequestSteps, NoPartialBoot, AppSteps
  <1>. QED  BY <1>1, <1>2, StorageFrame

LEMMA NetworkReadyIInv ==
  ASSUME IInv, NetworkReady
  PROVE  IInv'
  <1>. USE DEF NetworkReady, IInv
  <1>1. Committed(ee, Wanted(ee)) /\ cfg = ee /\ valid
    BY DEF Phases, OtaPhase, OtaSteps
  <1>2. at' = 1 /\ 1 \in 1..(Pages + 1) /\ 1 <= Size[Wanted(cfg)]
    BY <1>1, InstallableSize, RecordAssumption DEF Committed
  <1>3. <<>> \in Seq(Contents)
    OBVIOUS
  <1>4. TypeOK'
    BY <1>2, <1>3 DEF TypeOK, BootSteps, OtaSteps
  <1>5. Phases' /\ NoPartialBoot'
    BY <1>1, <1>2 DEF Phases, OtaPhase, PagePhase, DonePhase, PolicyPhase, ArmedPhase,
       FillPhase, OtaSteps, RequestSteps, NoPartialBoot, AppSteps, Wanted
  <1>. QED  BY <1>4, <1>5, StorageFrame

LEMMA FetchPageIInv ==
  ASSUME IInv, NEW c \in Images \cup {Junk}, FetchPage(c)
  PROVE  IInv'
  <1>. USE DEF FetchPage, IInv
  <1>1. crc' \in Seq(Contents) /\ page' \in Contents
    BY DEF TypeOK, Contents
  <1>2. TypeOK'
    BY <1>1 DEF TypeOK, BootSteps, OtaSteps
  <1>3. Phases' /\ NoPartialBoot'
    BY DEF Phases, OtaPhase, PagePhase, DonePhase, PolicyPhase, ArmedPhase,
       FillPhase, OtaSteps, RequestSteps, NoPartialBoot, AppSteps, Wanted
  <1>. QED  BY <1>2, <1>3, StorageFrame

\* While flash changes, the request is committed and the EEPROM is untouched.
LEMMA RequestProtects ==
  ASSUME IInv, pc \in OtaSteps, ee' = ee, serviced' = serviced
  PROVE  FlashTrusted' /\ PreparationFailsClosed' /\ CleanPending'
  BY DEF IInv, Phases, OtaPhase, FlashTrusted, PreparationFailsClosed, CleanPending,
         PendingIsWhole, Wanted

LEMMA ErasePageIInv ==
  ASSUME IInv, ErasePage
  PROVE  IInv'
  <1>. USE DEF ErasePage, IInv, ram
  <1>1. flash' \in [1..Pages -> Contents]
    BY DEF TypeOK, Contents
  <1>2. TypeOK'
    BY <1>1 DEF TypeOK, BootSteps, OtaSteps
  <1>3. Phases' /\ NoPartialBoot'
    BY DEF Phases, OtaPhase, PagePhase, DonePhase, PolicyPhase, ArmedPhase,
       FillPhase, OtaSteps, RequestSteps, NoPartialBoot, AppSteps, Wanted
  <1>. QED  BY <1>2, <1>3, RequestProtects DEF OtaSteps

LEMMA WritePageIInv ==
  ASSUME IInv, NEW c \in {page, Junk}, WritePage(c)
  PROVE  IInv'
  <1>. USE DEF WritePage, IInv
  <1>1. flash' \in [1..Pages -> Contents]
    BY DEF TypeOK, Contents
  <1>2. /\ Wanted(cfg) \in Installable /\ at <= Size[Wanted(cfg)]
        /\ at \in Nat /\ at >= 1
    BY DEF Phases, OtaPhase, PagePhase, OtaSteps, Committed, TypeOK
  <1>3. at' \in 1..(Pages + 1)
    BY <1>2, InstallableSize, RecordAssumption
  <1>4. TypeOK'
    BY <1>1, <1>3 DEF TypeOK, BootSteps, OtaSteps
  <1>5. pc' = "fetch" => at' <= Size[Wanted(cfg)]
    BY <1>2, InstallableSize
  <1>6. Phases' /\ NoPartialBoot'
    BY <1>5 DEF Phases, OtaPhase, PagePhase, DonePhase, PolicyPhase, ArmedPhase,
       FillPhase, OtaSteps, RequestSteps, NoPartialBoot, AppSteps, Wanted
  <1>. QED  BY <1>4, <1>6, RequestProtects DEF OtaSteps

LEMMA CheckDownloadIInv ==
  ASSUME IInv, CheckDownload
  PROVE  IInv'
  <1>. USE DEF CheckDownload, IInv, ram
  <1>1. TypeOK'
    BY DEF TypeOK, BootSteps, OtaSteps
  <1>2. Phases' /\ NoPartialBoot'
    BY DEF Phases, OtaPhase, PagePhase, DonePhase, PolicyPhase, ArmedPhase, FillPhase,
           OtaSteps, RequestSteps, NoPartialBoot, AppSteps, Wanted
  <1>. QED  BY <1>1, <1>2, StorageFrame

\* The readback is what makes the image complete; the download CRC is not
\* needed for safety.
LEMMA CheckReadbackIInv ==
  ASSUME IInv, CheckReadback
  PROVE  IInv'
  <1>. USE DEF CheckReadback, IInv, ram
  <1>1. TypeOK'
    BY DEF TypeOK, BootSteps, OtaSteps
  <1>2. cfg = ee /\ Wanted(ee) \in Installable
    BY DEF Phases, OtaPhase, OtaSteps, Committed
  <1>3. pc' = "done" => Whole(Wanted(ee))
    <2>. SUFFICES ASSUME pc' = "done", NEW p \in 1..Size[Wanted(ee)]
                  PROVE  flash[p] = Wanted(ee)
      BY <1>2 DEF Whole
    <2>. DEFINE m == Wanted(ee)
    <2>1. [q \in 1..Size[m] |-> flash[q]] = [q \in 1..Size[m] |-> m]
      BY <1>2 DEF ImageCrc
    <2>2. [q \in 1..Size[m] |-> flash[q]][p] = [q \in 1..Size[m] |-> m][p]
      BY <2>1
    <2>. QED  BY <2>2
  <1>4. DonePhase'
    BY <1>3, StorageFrame DEF DonePhase, Wanted, Whole
  <1>5. Phases' /\ NoPartialBoot'
    BY <1>4 DEF Phases, OtaPhase, PagePhase, PolicyPhase, ArmedPhase, FillPhase,
           OtaSteps, RequestSteps, NoPartialBoot, AppSteps, Wanted
  <1>. QED  BY <1>1, <1>5, StorageFrame

LEMMA OtaIInv ==
  ASSUME IInv, Ota
  PROVE  IInv'
  BY NetworkReadyIInv, OtaFailsIInv, FetchPageIInv, ErasePageIInv, WritePageIInv,
     CheckDownloadIInv, CheckReadbackIInv
  DEF Ota, NetworkFails, FetchFails

-----------------------------------------------------------------------------
(* ota_request() *)

\* The application does not touch flash.
LEMMA RequestFrame ==
  ASSUME IInv, pc \in AppSteps, UNCHANGED <<flash, serviced>>
  PROVE  FlashTrusted' /\ NoPartialBoot'
  BY DEF IInv, FlashTrusted, NoPartialBoot, Installed, Whole

\* ARMING blocks startup whatever the rest of the record is.
LEMMA ArmedFrame ==
  ASSUME ee'.state = ARMING
  PROVE  PreparationFailsClosed' /\ CleanPending'
  BY ByteConstants DEF PreparationFailsClosed, CleanPending, PendingIsWhole

LEMMA RequestStartIInv ==
  ASSUME IInv, NEW m \in Images, RequestStart(m)
  PROVE  IInv'
  <1>. USE DEF RequestStart, IInv
  <1>1. m \in Installable /\ m \in Bodies
    <2>1. Requested(m).state = PENDING
      BY DEF Requested
    <2>2. Committed(Requested(m), Wanted(Requested(m)))
      BY <2>1, ValidPending
    <2>3. Wanted(Requested(m)) = m
      BY WantedOfWhole DEF Requested
    <2>. QED  BY <2>2, <2>3 DEF Committed, Bodies
  <1>2. TypeOK'
    BY <1>1 DEF TypeOK, AppSteps, RequestSteps
  <1>3. Phases'
    BY <1>1 DEF Phases, OtaPhase, PagePhase, DonePhase, PolicyPhase, ArmedPhase,
                FillPhase, OtaSteps, RequestSteps
  <1>4. NoPartialBoot'
    BY RequestFrame DEF AppSteps
  <1>. QED  BY <1>2, <1>3, <1>4, StorageFrame

LEMMA ArmIInv ==
  ASSUME IInv, Arm
  PROVE  IInv'
  <1>. USE DEF Arm, RequestStep, IInv
  <1>1. ee' \in Config /\ ee'.state = ARMING
    BY ByteUpdate, ByteConstants DEF TypeOK, Config
  <1>2. TypeOK'
    BY <1>1 DEF TypeOK, AppSteps, RequestSteps
  <1>3. Phases'
    BY <1>1 DEF Phases, OtaPhase, PagePhase, DonePhase, PolicyPhase, ArmedPhase,
                FillPhase, OtaSteps, RequestSteps
  <1>4. FlashTrusted' /\ NoPartialBoot'
    BY RequestFrame DEF AppSteps, RequestSteps
  <1>. QED  BY <1>1, <1>2, <1>3, <1>4, ArmedFrame

LEMMA InvalidateLowIInv ==
  ASSUME IInv, InvalidateLow
  PROVE  IInv'
  <1>. USE DEF InvalidateLow, RequestStep, IInv
  <1>1. ee' \in Config /\ ee'.state = ARMING
    BY ByteUpdate, ByteConstants DEF TypeOK, Config, Phases, ArmedPhase, RequestSteps
  <1>2. TypeOK'
    BY <1>1 DEF TypeOK, AppSteps, RequestSteps
  <1>3. Phases'
    BY <1>1 DEF Phases, OtaPhase, PagePhase, DonePhase, PolicyPhase, ArmedPhase,
                FillPhase, OtaSteps, RequestSteps
  <1>4. FlashTrusted' /\ NoPartialBoot'
    BY RequestFrame DEF AppSteps, RequestSteps
  <1>. QED  BY <1>1, <1>2, <1>3, <1>4, ArmedFrame

LEMMA InvalidateHighIInv ==
  ASSUME IInv, InvalidateHigh
  PROVE  IInv'
  <1>. USE DEF InvalidateHigh, RequestStep, IInv
  <1>1. ee' \in Config /\ ee'.state = ARMING
    BY ByteUpdate, ByteConstants DEF TypeOK, Config, Phases, ArmedPhase, RequestSteps
  <1>2. i' = 1 /\ 1 \in 1..(BodyLen + 1) /\ 1 <= BodyLen /\ 1..(1 - 1) = {}
    BY RecordAssumption
  <1>3. TypeOK'
    BY <1>1, <1>2 DEF TypeOK, AppSteps, RequestSteps
  <1>4. Phases'
    BY <1>1, <1>2 DEF Phases, OtaPhase, PagePhase, DonePhase, PolicyPhase, ArmedPhase,
                FillPhase, OtaSteps, RequestSteps
  <1>5. FlashTrusted' /\ NoPartialBoot'
    BY RequestFrame DEF AppSteps, RequestSteps
  <1>. QED  BY <1>1, <1>3, <1>4, <1>5, ArmedFrame

\* After the last cell the whole body is the request's.
LEMMA FillBodyIInv ==
  ASSUME IInv, FillBody
  PROVE  IInv'
  <1>. USE DEF FillBody, RequestStep, IInv
  <1>1. /\ req \in Installable /\ req \in Cells /\ ee.state = ARMING
        /\ i \in 1..BodyLen /\ i' = i + 1
        /\ \A j \in 1..(i - 1) : ee.body[j] = req
    BY RecordAssumption, InstallableSize
    DEF Phases, ArmedPhase, FillPhase, RequestSteps, TypeOK
  <1>2. Requested(req).body[i] = req
    BY <1>1 DEF Requested, WholeBody
  <1>3. /\ ee' \in Config /\ ee'.state = ARMING
        /\ ee'.body = [ee.body EXCEPT ![i] = req]
    BY <1>1, <1>2, CellUpdate DEF TypeOK, Config
  <1>4. i' \in 1..(BodyLen + 1)
    BY <1>1, RecordAssumption
  <1>5. TypeOK'
    BY <1>3, <1>4 DEF TypeOK, AppSteps, RequestSteps
  <1>6. \A j \in 1..(i' - 1) : ee'.body[j] = req
    BY <1>1, <1>3, RecordAssumption DEF TypeOK, Config
  <1>7. CASE i < BodyLen
    <2>1. i' <= BodyLen
      BY <1>1, <1>7, RecordAssumption
    <2>. QED
      BY <1>1, <1>3, <1>5, <1>6, <1>7, <2>1, RequestFrame, ArmedFrame
      DEF Phases, OtaPhase, PagePhase, DonePhase, PolicyPhase, ArmedPhase,
          FillPhase, OtaSteps, RequestSteps, AppSteps
  <1>8. CASE ~(i < BodyLen)
    <2>1. i' - 1 = BodyLen
      BY <1>1, <1>8, RecordAssumption
    <2>2. ee'.body = WholeBody(req)
      BY <1>3, <1>6, <2>1 DEF WholeBody, Config
    <2>. QED
      BY <1>1, <1>3, <1>5, <1>8, <2>2, RequestFrame, ArmedFrame
      DEF Phases, OtaPhase, PagePhase, DonePhase, PolicyPhase, ArmedPhase,
          FillPhase, OtaSteps, RequestSteps, AppSteps
  <1>. QED  BY <1>7, <1>8

LEMMA WriteFormatIInv ==
  ASSUME IInv, WriteFormat
  PROVE  IInv'
  <1>. USE DEF WriteFormat, RequestStep, IInv
  <1>1. /\ ee' \in Config /\ ee'.state = ARMING /\ ee'.body = WholeBody(req)
        /\ ee'.format = CFG_FORMAT
    BY ByteUpdate, ByteConstants
    DEF TypeOK, Config, Phases, ArmedPhase, FillPhase, RequestSteps
  <1>2. TypeOK'
    BY <1>1 DEF TypeOK, AppSteps, RequestSteps
  <1>3. Phases'
    BY <1>1 DEF Phases, OtaPhase, PagePhase, DonePhase, PolicyPhase, ArmedPhase,
                FillPhase, OtaSteps, RequestSteps
  <1>4. FlashTrusted' /\ NoPartialBoot'
    BY RequestFrame DEF AppSteps, RequestSteps
  <1>. QED  BY <1>1, <1>2, <1>3, <1>4, ArmedFrame

LEMMA WriteMagicLowIInv ==
  ASSUME IInv, WriteMagicLow
  PROVE  IInv'
  <1>. USE DEF WriteMagicLow, RequestStep, IInv
  <1>1. /\ ee' \in Config /\ ee'.state = ARMING /\ ee'.body = WholeBody(req)
        /\ ee'.format = CFG_FORMAT /\ ee'.magic0 = MAGIC0
    BY ByteUpdate, ByteConstants
    DEF TypeOK, Config, Phases, ArmedPhase, FillPhase, RequestSteps
  <1>2. TypeOK'
    BY <1>1 DEF TypeOK, AppSteps, RequestSteps
  <1>3. Phases'
    BY <1>1 DEF Phases, OtaPhase, PagePhase, DonePhase, PolicyPhase, ArmedPhase,
                FillPhase, OtaSteps, RequestSteps
  <1>4. FlashTrusted' /\ NoPartialBoot'
    BY RequestFrame DEF AppSteps, RequestSteps
  <1>. QED  BY <1>1, <1>2, <1>3, <1>4, ArmedFrame

LEMMA WriteMagicHighIInv ==
  ASSUME IInv, WriteMagicHigh
  PROVE  IInv'
  <1>. USE DEF WriteMagicHigh, RequestStep, IInv
  <1>1. /\ ee' \in Config /\ ee'.state = ARMING /\ ee'.body = WholeBody(req)
        /\ ee'.format = CFG_FORMAT /\ ee'.magic0 = MAGIC0 /\ ee'.magic1 = MAGIC1
    BY ByteUpdate, ByteConstants
    DEF TypeOK, Config, Phases, ArmedPhase, FillPhase, RequestSteps
  <1>2. TypeOK'
    BY <1>1 DEF TypeOK, AppSteps, RequestSteps
  <1>3. Phases'
    BY <1>1 DEF Phases, OtaPhase, PagePhase, DonePhase, PolicyPhase, ArmedPhase,
                FillPhase, OtaSteps, RequestSteps
  <1>4. FlashTrusted' /\ NoPartialBoot'
    BY RequestFrame DEF AppSteps, RequestSteps
  <1>. QED  BY <1>1, <1>2, <1>3, <1>4, ArmedFrame

\* PENDING is written last, on a record that is already whole.
LEMMA CommitIInv ==
  ASSUME IInv, Commit
  PROVE  IInv' /\ Committed(ee', req)
  <1>. USE DEF Commit, RequestStep, IInv
  <1>1. ee' \in Config /\ Committed(ee', req) /\ req \in Cells
    BY ByteUpdate, ByteConstants, InstallableSize, ZenonT(40)
    DEF TypeOK, Config, Phases, ArmedPhase, FillPhase, RequestSteps, Committed
  <1>2. TypeOK'
    BY <1>1 DEF TypeOK, AppSteps, RequestSteps
  <1>3. Phases'
    BY DEF Phases, OtaPhase, PagePhase, DonePhase, PolicyPhase, ArmedPhase,
                FillPhase, OtaSteps, RequestSteps
  <1>4. FlashTrusted' /\ NoPartialBoot'
    BY RequestFrame DEF AppSteps, RequestSteps
  <1>5. PreparationFailsClosed' /\ CleanPending'
    BY <1>1, CommittedWanted DEF PreparationFailsClosed, CleanPending, PendingIsWhole,
       Committed
  <1>. QED  BY <1>1, <1>2, <1>3, <1>4, <1>5

LEMMA RequestWriteIInv ==
  ASSUME IInv, RequestWrite
  PROVE  IInv'
  BY ArmIInv, InvalidateLowIInv, InvalidateHighIInv, FillBodyIInv, WriteFormatIInv,
     WriteMagicLowIInv, WriteMagicHighIInv, CommitIInv DEF RequestWrite

-----------------------------------------------------------------------------
(* The UART host and the resets *)

LEMMA HostFlashIInv ==
  ASSUME IInv, HostFlash
  PROVE  IInv'
  <1>. USE DEF HostFlash, IInv, ram
  <1>1. TypeOK'
    BY DEF TypeOK
  <1>2. Phases'
    BY DEF Phases, OtaPhase, PagePhase, DonePhase, PolicyPhase, ArmedPhase, FillPhase,
           OtaSteps, RequestSteps
  <1>. QED
    BY <1>1, <1>2 DEF FlashTrusted, NoPartialBoot, PreparationFailsClosed,
       CleanPending, PendingIsWhole

LEMMA HostEepromIInv ==
  ASSUME IInv, HostEeprom
  PROVE  IInv'
  <1>. USE DEF HostEeprom, IInv, ram
  <1>1. ee' \in Config
    <2>1. \A f \in ByteFields : \A v \in HostBytes[f] : v \in Byte
      BY BootloaderAssumption
    <2>2. /\ \A v \in HostBytes["magic0"] : v \in Byte
          /\ \A v \in HostBytes["magic1"] : v \in Byte
          /\ \A v \in HostBytes["format"] : v \in Byte
          /\ \A v \in HostBytes["state"] : v \in Byte
      BY <2>1 DEF ByteFields
    <2>3. ee \in Config
      BY DEF TypeOK
    <2>4. CASE \E j \in 1..BodyLen, c \in Cells : ee' = [ee EXCEPT !.body[j] = c]
      BY <2>3, <2>4, CellUpdate
    <2>5. CASE ~\E j \in 1..BodyLen, c \in Cells : ee' = [ee EXCEPT !.body[j] = c]
      <3>1. \E v \in Byte : \/ ee' = [ee EXCEPT !.magic0 = v]
                            \/ ee' = [ee EXCEPT !.magic1 = v]
                            \/ ee' = [ee EXCEPT !.format = v]
                            \/ ee' = [ee EXCEPT !.state = v]
        BY <2>2, <2>5
      <3>. QED  BY <2>3, <3>1, ByteUpdate
    <2>. QED  BY <2>4, <2>5
  <1>2. TypeOK'
    BY <1>1 DEF TypeOK
  <1>3. Phases'
    BY DEF Phases, OtaPhase, PagePhase, DonePhase, PolicyPhase, ArmedPhase, FillPhase,
           OtaSteps, RequestSteps
  <1>. QED
    BY <1>2, <1>3 DEF FlashTrusted, NoPartialBoot, PreparationFailsClosed,
       CleanPending, PendingIsWhole

\* A byte is torn only while its record is marked, or while flash is complete.
LEMMA TornEepromSafe ==
  ASSUME IInv, TornEeprom, serviced' = serviced
  PROVE  /\ ee' \in Config /\ FlashTrusted' /\ PreparationFailsClosed' /\ CleanPending'
         /\ pc \in RequestSteps \cup {"done"}
  <1>. USE DEF IInv, TornEeprom
  <1>1. pc \in RequestSteps \cup {"done"}
    BY DEF TornState, TornMagic0, TornMagic1, TornFormat, TornBody, RequestSteps
  <1>2. ee' \in Config
    <2>1. ee \in Config /\ \A v \in TornBytes : v \in Byte
      BY BootloaderAssumption DEF TypeOK
    <2>2. CASE TornBody
      <3>1. i \in 1..BodyLen /\ Junk \in Cells
        BY <2>2, RecordAssumption DEF TornBody, TypeOK, Phases, FillPhase, Cells
      <3>. QED  BY <2>1, <2>2, <3>1, CellUpdate DEF TornBody
    <2>3. CASE ~TornBody
      <3>1. \E v \in Byte : \/ ee' = [ee EXCEPT !.magic0 = v]
                            \/ ee' = [ee EXCEPT !.magic1 = v]
                            \/ ee' = [ee EXCEPT !.format = v]
                            \/ ee' = [ee EXCEPT !.state = v]
        BY <2>1, <2>3 DEF TornState, TornMagic0, TornMagic1, TornFormat
      <3>. QED  BY <2>1, <3>1, ByteUpdate
    <2>. QED  BY <2>2, <2>3
  <1>3. FlashTrusted'
    <2>1. ~serviced => Installed
      BY <1>1, CommittedWanted DEF NoPartialBoot, AppSteps, Phases, OtaPhase,
         DonePhase, Installed
    <2>. QED  BY <2>1 DEF FlashTrusted, Installed, Whole
  <1>4. CASE TornState("arm", ARMING) \/ TornState("commit", PENDING)
             \/ TornState("done", IDLE)
    <2>1. ee'.body = ee.body /\ TornBytes # {}
      BY <1>4 DEF TornState, TypeOK, Config
    <2>2. ~serviced => \E c \in Cells : ee.body = WholeBody(c)
      <3>1. CASE pc = "arm"
        BY <3>1, ByteConstants DEF PreparationFailsClosed, Phases, ArmedPhase
      <3>2. CASE pc = "commit"
        BY <3>2, InstallableSize DEF Phases, ArmedPhase, FillPhase, RequestSteps
      <3>3. CASE pc = "done"
        BY <3>3, InstallableSize DEF Phases, OtaPhase, Committed
      <3>. QED  BY <1>4, <3>1, <3>2, <3>3 DEF TornState
    <2>. QED
      BY <1>1, <1>2, <1>3, <2>1, <2>2 DEF PreparationFailsClosed, CleanPending
  <1>5. CASE ~(TornState("arm", ARMING) \/ TornState("commit", PENDING)
               \/ TornState("done", IDLE))
    <2>1. ee'.state = ee.state /\ pc \in RequestSteps \ {"arm"}
      BY <1>5 DEF TornMagic0, TornMagic1, TornFormat, TornBody, TypeOK, Config,
         RequestSteps
    <2>. QED
      BY <1>1, <1>2, <1>3, <2>1, ArmedFrame DEF Phases, ArmedPhase
  <1>. QED  BY <1>4, <1>5

LEMMA ResetIInv ==
  ASSUME IInv, Reset
  PROVE  IInv'
  <1>. USE DEF Reset, IInv
  <1>1. Phases' /\ NoPartialBoot'
    BY DEF Phases, OtaPhase, PagePhase, DonePhase, PolicyPhase, ArmedPhase, FillPhase,
           OtaSteps, RequestSteps, NoPartialBoot, AppSteps
  <1>2. CASE UNCHANGED <<ee, flash>>
    <2>1. TypeOK'
      BY <1>2, RamClearedType DEF TypeOK, BootSteps
    <2>. QED  BY <1>1, <1>2, <2>1, StorageFrame
  <1>3. CASE TornEeprom
    <2>1. TypeOK'
      BY <1>3, TornEepromSafe, RamClearedType DEF TypeOK, BootSteps, TornEeprom
    <2>. QED  BY <1>1, <1>3, <2>1, TornEepromSafe
  <1>4. CASE TornFlash
    <2>1. flash' \in [1..Pages -> Contents]
      BY <1>4 DEF TornFlash, TypeOK, Contents
    <2>2. TypeOK'
      BY <1>4, <2>1, RamClearedType DEF TypeOK, BootSteps, TornFlash
    <2>. QED  BY <1>1, <1>4, <2>2, RequestProtects DEF TornFlash, OtaSteps
  <1>. QED  BY <1>2, <1>3, <1>4

LEMMA NextIInv == IInv /\ [Next]_vars => IInv'
  <1>. SUFFICES ASSUME IInv, [Next]_vars PROVE IInv'
    OBVIOUS
  <1>1. CASE Main
    BY <1>1, UartCloseIInv, cfg_loadIInv, cfg_doneIInv, StayInBootIInv, applicationIInv
    DEF Main
  <1>2. CASE UNCHANGED vars
    BY <1>2 DEF vars, ram, IInv, TypeOK, Phases, OtaPhase, PagePhase, DonePhase,
       PolicyPhase, ArmedPhase, FillPhase, FlashTrusted, NoPartialBoot, Installed,
       Whole, PreparationFailsClosed, CleanPending, PendingIsWhole, Wanted
  <1>. QED
    BY <1>1, <1>2, OtaIInv, RequestStartIInv, RequestWriteIInv, HostFlashIInv,
       HostEepromIInv, ResetIInv DEF Next, Request, Host

-----------------------------------------------------------------------------
(* The theorems *)

\* The inductive invariant holds in every reachable state.
THEOREM Invariance == Spec => []IInv
  BY InitIInv, NextIInv, PTL DEF Spec

\* Every variable keeps its type: no write position leaves the application
\* area and no record cell is written past the record.
THEOREM TypeCorrect == Spec => []TypeOK
  <1>1. IInv => TypeOK
    BY DEF IInv
  <1>. QED  BY <1>1, Invariance, PTL

\* An application runs only when some image is complete in flash.
THEOREM SafeBoot == Spec => []NoPartialBoot
  <1>1. IInv => NoPartialBoot
    BY DEF IInv
  <1>. QED  BY <1>1, Invariance, PTL

\* An interrupted preparation leaves the record ARMING.
THEOREM FailsClosed == Spec => []PreparationFailsClosed
  <1>1. IInv => PreparationFailsClosed
    BY DEF IInv
  <1>. QED  BY <1>1, Invariance, PTL

\* With atomic byte writes PENDING marks only valid records.
THEOREM CommitLast == TornBytes = {} => (Spec => []PendingIsWhole)
  <1>1. TornBytes = {} /\ IInv => PendingIsWhole
    BY DEF IInv, CleanPending
  <1>. SUFFICES ASSUME TornBytes = {} PROVE Spec => []PendingIsWhole
    OBVIOUS
  <1>2. IInv => PendingIsWhole
    BY <1>1
  <1>. QED  BY <1>2, Invariance, PTL

\* A step that changes the record of a committed request, other than the
\* host's, is cfg_done or a cut inside it.
LEMMA RecordStep ==
  ASSUME IInv, [Next]_vars, NEW m, Committed(ee, m), pc # "stk500", ee' # ee
  PROVE  pc = "done"
  <1>. SUFFICES ASSUME pc # "done" PROVE FALSE
    OBVIOUS
  <1>1. pc \notin RequestSteps
    BY ByteConstants DEF Committed, IInv, Phases, ArmedPhase
  <1>2. ~TornEeprom
    BY <1>1 DEF TornEeprom, TornState, TornMagic0, TornMagic1, TornFormat, TornBody,
                RequestSteps
  <1>3. ~Reset
    BY <1>2 DEF Reset, TornFlash
  <1>4. ~RequestWrite
    BY <1>1 DEF RequestWrite, Arm, InvalidateLow, InvalidateHigh, FillBody, WriteFormat,
       WriteMagicLow, WriteMagicHigh, Commit, RequestStep, RequestSteps
  <1>5. ~Main
    BY DEF Main, UartClose, cfg_load, cfg_done, StayInBoot, application
  <1>6. ~Ota
    BY DEF Ota, NetworkReady, NetworkFails, FetchPage, FetchFails, ErasePage, WritePage,
       CheckDownload, CheckReadback, OtaFails
  <1>7. ~Request /\ ~Host /\ ~UNCHANGED vars
    BY DEF Request, RequestStart, Host, HostFlash, HostEeprom, vars
  <1>. QED  BY <1>3, <1>4, <1>5, <1>6, <1>7 DEF Next

\* A committed request survives until its image is complete in flash.
THEOREM RequestSurvives == Spec => RequestKept
  <1>1. ASSUME IInv, [Next]_vars, NEW m \in Images, Committed(ee, m), pc # "stk500",
               ee' # ee
        PROVE  Whole(m)
    <2>1. pc = "done"
      BY <1>1, RecordStep
    <2>. QED  BY <1>1, <2>1, CommittedWanted DEF IInv, Phases, DonePhase
  <1>2. IInv /\ [Next]_vars =>
          [\A m \in Images :
             Committed(ee, m) /\ pc # "stk500" /\ ee' # ee => Whole(m)]_vars
    BY <1>1
  <1>. QED  BY <1>2, Invariance, PTL DEF Spec, RequestKept

\* Outside UART recovery, flash changes only in the pages of the image that
\* the EEPROM's committed request names.
THEOREM FlashSafe == Spec => FlashGuarded
  <1>1. ASSUME IInv, [Next]_vars, NEW p \in 1..Pages, flash'[p] # flash[p],
               pc # "stk500"
        PROVE  \E m \in Images : Committed(ee, m) /\ p <= Size[m]
    <2>1. flash' # flash
      BY <1>1
    <2>2. ~Main /\ ~Request /\ ~Host /\ ~UNCHANGED vars
      BY <1>1, <2>1 DEF Main, UartClose, cfg_load, cfg_done, StayInBoot, application,
         Request, RequestStart, Host, HostFlash, HostEeprom, vars
    <2>3. ~RequestWrite
      BY <2>1 DEF RequestWrite, Arm, InvalidateLow, InvalidateHigh, FillBody,
         WriteFormat, WriteMagicLow, WriteMagicHigh, Commit, RequestStep
    <2>4. /\ pc \in {"erase", "write"}
          /\ \E c : flash' = [flash EXCEPT ![at] = c]
      <3>1. CASE Ota
        BY <2>1, <3>1 DEF Ota, NetworkReady, NetworkFails, FetchPage, FetchFails,
           ErasePage, WritePage, CheckDownload, CheckReadback, OtaFails
      <3>2. CASE Reset
        BY <2>1, <3>2 DEF Reset, TornEeprom, TornFlash
      <3>. QED  BY <1>1, <2>2, <2>3, <3>1, <3>2 DEF Next
    <2>5. p = at
      BY <1>1, <2>4 DEF IInv, TypeOK
    <2>6. Committed(ee, Wanted(ee)) /\ cfg = ee /\ at <= Size[Wanted(ee)]
      BY <1>1, <2>4 DEF IInv, Phases, OtaPhase, PagePhase, OtaSteps
    <2>. QED  BY <2>5, <2>6, CommittedWanted
  <1>2. IInv /\ [Next]_vars =>
          [\A p \in 1..Pages :
             flash'[p] # flash[p] /\ pc # "stk500"
               => \E m \in Images : Committed(ee, m) /\ p <= Size[m]]_vars
    BY <1>1
  <1>. QED  BY <1>2, Invariance, PTL DEF Spec, FlashGuarded

\* The start decision agrees with the EEPROM at that moment.
THEOREM FreshDecision == Spec => BootAgrees
  <1>1. ASSUME IInv, [Next]_vars, pc = "policy", pc' = "app"
        PROVE  cfg_bootable(ee, cfg_valid(ee))
    <2>1. cfg = ee /\ valid = cfg_valid(ee)
      BY <1>1 DEF IInv, Phases, PolicyPhase
    <2>2. application
      BY <1>1 DEF Next, Main, UartClose, cfg_load, cfg_done, StayInBoot, Ota,
         NetworkReady, NetworkFails, FetchPage, FetchFails, ErasePage, WritePage,
         CheckDownload, CheckReadback, OtaFails, Request, RequestStart, RequestWrite,
         Arm, InvalidateLow, InvalidateHigh, FillBody, WriteFormat, WriteMagicLow,
         WriteMagicHigh, Commit, RequestStep, Host, HostFlash, HostEeprom, Reset, vars
    <2>. QED  BY <2>1, <2>2 DEF application
  <1>2. IInv /\ [Next]_vars =>
          [pc = "policy" /\ pc' = "app" => cfg_bootable(ee, cfg_valid(ee))]_vars
    BY <1>1
  <1>. QED  BY <1>2, Invariance, PTL DEF Spec, BootAgrees

-----------------------------------------------------------------------------
(***************************************************************************)
(* Bootloader implements UpdatePromise on a board without a UART host.      *)
(***************************************************************************)

\* Nothing but a host sets the history variable.
Unserviced == ~UartHost => ~serviced

LEMMA UnservicedInvariant == Spec => []Unserviced
  <1>1. Init => Unserviced
    BY DEF Init, Unserviced
  <1>2. Unserviced /\ [Next]_vars => Unserviced'
    BY DEF Unserviced, vars, ram, Next, Main, UartClose, cfg_load, cfg_done, StayInBoot,
       application, Ota, NetworkReady, NetworkFails, FetchPage, FetchFails, ErasePage,
       WritePage, CheckDownload, CheckReadback, OtaFails, Request, RequestStart,
       RequestWrite, Arm, InvalidateLow, InvalidateHigh, FillBody, WriteFormat,
       WriteMagicLow, WriteMagicHigh, Commit, RequestStep, Host, HostFlash, HostEeprom,
       Reset
  <1>. QED  BY <1>1, <1>2, PTL DEF Spec

-----------------------------------------------------------------------------
(* The abstract state *)

\* At most one image is complete, and its first page names it.
LEMMA ImageOfWhole ==
  ASSUME NEW m, Whole(m)
  PROVE  CompleteImage = m /\ m \in Images /\ CompleteImage # Blank
  <1>1. m \in Images /\ 1 \in 1..Size[m]
    BY InstallableSize DEF Whole
  <1>2. flash[1] = m
    BY <1>1 DEF Whole
  <1>. QED  BY <1>1, <1>2, BootloaderAssumption DEF CompleteImage

LEMMA ImageType == CompleteImage \in Images \cup {Blank}
  BY DEF CompleteImage, Whole, Installable

LEMMA RequestOfCommitted ==
  ASSUME NEW m, Committed(ee, m)
  PROVE  OpenRequest = m /\ OpenRequest # Blank
  BY CommittedWanted, BootloaderAssumption DEF OpenRequest

LEMMA NoRequest ==
  ASSUME ee.state # PENDING
  PROVE  OpenRequest = Blank
  BY DEF OpenRequest, Committed

LEMMA RequestType == OpenRequest \in Images \cup {Blank}
  BY CommittedWanted DEF OpenRequest

\* The abstract state depends on three variables.
LEMMA AbstractFrame ==
  /\ flash' = flash => CompleteImage' = CompleteImage
  /\ ee' = ee => OpenRequest' = OpenRequest
  BY DEF CompleteImage, Whole, OpenRequest, Wanted

LEMMA InitPromise == Init => Promise!Init
  <1>. SUFFICES ASSUME Init PROVE Promise!Init
    OBVIOUS
  <1>1. RunningImage = Blank
    BY DEF Init, RunningImage, AppSteps, RequestSteps
  <1>. QED  BY <1>1, ImageType, RequestType DEF Promise!Init

-----------------------------------------------------------------------------
(* Every step *)

\* While an image is being installed the bootloader runs and a request is open.
LEMMA OtaAbstract ==
  ASSUME IInv, pc \in OtaSteps \cup {"done"}
  PROVE  RunningImage = Blank /\ OpenRequest = Wanted(ee) /\ OpenRequest # Blank
  <1>1. RunningImage = Blank
    BY DEF RunningImage, AppSteps, RequestSteps, OtaSteps
  <1>2. Committed(ee, Wanted(ee))
    BY DEF IInv, Phases, OtaPhase
  <1>. QED  BY <1>1, <1>2, RequestOfCommitted

LEMMA RewriteStep ==
  ASSUME IInv, pc \in OtaSteps, ee' = ee, pc' \notin AppSteps
  PROVE  Promise!Rewrite
  <1>1. RunningImage' = Blank
    BY DEF RunningImage
  <1>2. CompleteImage' \in Images \cup {Blank}
    BY DEF CompleteImage, Whole, Installable
  <1>. QED  BY <1>1, <1>2, OtaAbstract, AbstractFrame DEF Promise!Rewrite
\* Steps that change neither storage nor who runs.
LEMMA Stutter ==
  ASSUME UNCHANGED <<ee, flash>>, pc \in AppSteps <=> pc' \in AppSteps
  PROVE  UNCHANGED Promise!pvars
  BY AbstractFrame DEF Promise!pvars, RunningImage

LEMMA MainPromise ==
  ASSUME IInv, IInv', ~serviced, Main
  PROVE  [Promise!Next]_(Promise!pvars)
  <1>1. CASE UartClose \/ cfg_load \/ StayInBoot
    BY <1>1, Stutter DEF UartClose, cfg_load, StayInBoot, AppSteps, RequestSteps
  <1>2. CASE cfg_done
    <2>1. Committed(ee, Wanted(ee)) /\ Whole(Wanted(ee))
      BY <1>2 DEF cfg_done, IInv, Phases, OtaPhase, DonePhase
    <2>2. OpenRequest = Wanted(ee) /\ OpenRequest # Blank /\ CompleteImage = Wanted(ee)
      BY <2>1, RequestOfCommitted, ImageOfWhole
    <2>3. OpenRequest' = Blank
      <3>1. ee'.state # PENDING
        BY <1>2, ByteConstants DEF cfg_done, IInv, TypeOK, Config
      <3>. QED  BY <3>1 DEF OpenRequest, Committed
    <2>4. RunningImage = Blank /\ RunningImage' = Blank
      BY <1>2 DEF cfg_done, RunningImage, AppSteps, RequestSteps
    <2>. QED
      BY <1>2, <2>2, <2>3, <2>4, AbstractFrame DEF cfg_done, Promise!Finish, Promise!Next
  <1>3. CASE application
    <2>1. OpenRequest = Blank
      BY <1>3, NoRequest DEF application, IInv, Phases, PolicyPhase, cfg_bootable
    <2>2. CompleteImage # Blank
      <3>1. Installed
        BY <1>3 DEF application, IInv, NoPartialBoot, AppSteps, Installed, Whole
      <3>. QED  BY <3>1, ImageOfWhole DEF Installed
    <2>3. RunningImage = Blank /\ RunningImage' = CompleteImage'
      BY <1>3 DEF application, RunningImage, AppSteps, RequestSteps
    <2>. QED
      BY <1>3, <2>1, <2>2, <2>3, AbstractFrame
      DEF application, Promise!Start, Promise!Next
  <1>. QED  BY <1>1, <1>2, <1>3 DEF Main

LEMMA OtaPromise ==
  ASSUME IInv, Ota
  PROVE  [Promise!Next]_(Promise!pvars)
  <1>1. CASE ErasePage \/ \E c \in {page, Junk} : WritePage(c)
    BY <1>1, RewriteStep
    DEF ErasePage, WritePage, OtaSteps, AppSteps, RequestSteps, Promise!Next
  <1>2. CASE ~(ErasePage \/ \E c \in {page, Junk} : WritePage(c))
    <2>1. UNCHANGED <<ee, flash>> /\ pc \notin AppSteps /\ pc' \notin AppSteps
      BY <1>2 DEF Ota, NetworkReady, NetworkFails, FetchPage, FetchFails, CheckDownload,
         CheckReadback, OtaFails, AppSteps, RequestSteps
    <2>. QED  BY <2>1, Stutter
  <1>. QED  BY <1>1, <1>2

LEMMA RequestPromise ==
  ASSUME IInv, ~serviced, Request \/ RequestWrite
  PROVE  [Promise!Next]_(Promise!pvars)
  <1>1. CASE Request
    BY <1>1, Stutter DEF Request, RequestStart, AppSteps, RequestSteps
  <1>. SUFFICES ASSUME RequestWrite PROVE [Promise!Next]_(Promise!pvars)
    BY <1>1
  <1>2. flash' = flash /\ pc \in RequestSteps /\ pc' \in AppSteps
    BY DEF RequestWrite, Arm, InvalidateLow, InvalidateHigh, FillBody, WriteFormat,
       WriteMagicLow, WriteMagicHigh, Commit, RequestStep, RequestSteps, AppSteps
  <1>3. CompleteImage' = CompleteImage /\ RunningImage' = RunningImage
    BY <1>2, AbstractFrame DEF RunningImage, AppSteps
  <1>4. OpenRequest = Blank
    BY <1>2, NoRequest, ByteConstants DEF IInv, Phases, ArmedPhase
  <1>5. CASE Commit
    <2>1. Committed(ee', req) /\ req \in Images
      BY <1>5, CommitIInv, InstallableSize DEF Committed
    <2>2. OpenRequest' = req
      BY <2>1, CommittedWanted DEF OpenRequest
    <2>3. RunningImage # Blank
      BY <1>2, ImageOfWhole DEF RunningImage, AppSteps, IInv, NoPartialBoot, Installed
    <2>. QED
      BY <1>3, <1>4, <2>1, <2>2, <2>3 DEF Promise!Ask, Promise!Next
  <1>6. CASE ~Commit
    <2>1. ee'.state # PENDING
      BY <1>2, <1>6, ByteConstants DEF RequestWrite, Arm, InvalidateLow, InvalidateHigh,
         FillBody, WriteFormat, WriteMagicLow, WriteMagicHigh, RequestStep,
         RequestSteps, IInv, TypeOK, Config, Phases, ArmedPhase
    <2>2. OpenRequest' = Blank
      BY <2>1 DEF OpenRequest, Committed
    <2>. QED  BY <1>3, <1>4, <2>2 DEF Promise!pvars
  <1>. QED  BY <1>5, <1>6
LEMMA ResetPromise ==
  ASSUME IInv, ~serviced, Reset
  PROVE  [Promise!Next]_(Promise!pvars)
  <1>1. RunningImage' = Blank
    BY DEF Reset, RunningImage, AppSteps, RequestSteps
  <1>2. CASE UNCHANGED <<ee, flash>>
    BY <1>1, <1>2, AbstractFrame DEF Promise!Stop, Promise!Next
  <1>3. CASE TornFlash
    BY <1>3, RewriteStep DEF TornFlash, OtaSteps, Reset, AppSteps, RequestSteps,
       Promise!Next
  <1>4. CASE TornEeprom
    <2>1. CompleteImage' = CompleteImage
      BY <1>4, AbstractFrame DEF TornEeprom
    <2>2. pc \in RequestSteps \cup {"done"}
      BY <1>4, TornEepromSafe DEF Reset
    <2>3. CASE pc \in RequestSteps
      <3>1. OpenRequest = Blank
        BY <2>3, NoRequest, ByteConstants DEF IInv, Phases, ArmedPhase
      <3>2. RunningImage # Blank
        BY <2>3, ImageOfWhole DEF RunningImage, AppSteps, IInv, NoPartialBoot, Installed
      <3>3. OpenRequest' \in Images \cup {Blank}
        BY CommittedWanted DEF OpenRequest
      <3>. QED
        BY <1>1, <2>1, <3>1, <3>2, <3>3 DEF Promise!Ask, Promise!Stop, Promise!Next
    <2>4. CASE pc = "done"
      <3>1. Committed(ee, Wanted(ee)) /\ Whole(Wanted(ee))
        BY <2>4 DEF IInv, Phases, OtaPhase, DonePhase
      <3>2. /\ OpenRequest = Wanted(ee) /\ OpenRequest # Blank
            /\ CompleteImage = Wanted(ee) /\ RunningImage = Blank
        BY <2>4, <3>1, ImageOfWhole, OtaAbstract
      <3>3. ee'.body = ee.body
        BY <1>4, <2>4 DEF TornEeprom, TornState, TornMagic0, TornMagic1, TornFormat,
           TornBody, IInv, TypeOK, Config
      <3>4. OpenRequest' \in {Blank, OpenRequest}
        BY <3>2, <3>3 DEF OpenRequest, Wanted
      <3>. QED
        BY <1>1, <2>1, <3>2, <3>4 DEF Promise!Finish, Promise!Stop, Promise!Next
    <2>. QED  BY <2>2, <2>3, <2>4
  <1>. QED  BY <1>2, <1>3, <1>4 DEF Reset

LEMMA NextPromise ==
  ASSUME IInv, IInv', ~serviced, ~UartHost, [Next]_vars
  PROVE  [Promise!Next]_(Promise!pvars)
  <1>1. CASE UNCHANGED vars
    BY <1>1, Stutter DEF vars
  <1>2. ~Host
    BY DEF Host, HostFlash, HostEeprom
  <1>. QED
    BY <1>1, <1>2, MainPromise, OtaPromise, RequestPromise, ResetPromise DEF Next

\* Without a UART host the board keeps the promise of UpdatePromise.
THEOREM Refinement == ~UartHost => (Spec => PromiseKept)
  <1>. SUFFICES ASSUME ~UartHost PROVE Spec => PromiseKept
    OBVIOUS
  <1>1. Init => Promise!Init
    BY InitPromise
  <1>2. IInv /\ IInv' /\ Unserviced /\ [Next]_vars => [Promise!Next]_(Promise!pvars)
    BY NextPromise DEF Unserviced
  <1>. QED
    BY <1>1, <1>2, Invariance, UnservicedInvariant, PTL DEF Spec, PromiseKept, Promise!Spec
=============================================================================
