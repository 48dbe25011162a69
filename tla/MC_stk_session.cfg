\* Uploads over a line that loses frames, after arbitrary commands.
SPECIFICATION Spec
CONSTANTS
    PAGE_SIZE = 4
    AppPages = 2
    FlashSize = 10
    EepromSize = 3
    Extended = 16
    Values = {0, 1}
    Probes <- MCProbes
    MaxProbes = 2
    Jobs <- MCJobs
    SeqMod = 3
    MaxReplies = 2
INVARIANTS TypeOK AckedWritesLand UploadAccepted
PROPERTIES WritesConfined
