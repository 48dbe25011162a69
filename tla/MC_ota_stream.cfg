\* Downloads of every size class, with lost connections and bad cells.
SPECIFICATION Spec
CONSTANTS
    PAGE_SIZE = 2
    AppPages = 2
    FlashSize = 6
    Data = {0, 1}
    Requests <- MCRequests
INVARIANTS WritesAccepted Padded StreamInPlace
PROPERTIES OnlyImagePages
