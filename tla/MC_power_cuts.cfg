\* Any number of resets and torn writes, no UART host.
SPECIFICATION Spec
CONSTANTS
    imgA = imgA
    imgB = imgB
    imgC = imgC
    Images = {imgA, imgB, imgC}
    Factory = Factory
    Junk = Junk
    Blank = Blank
    Pages = 3
    BodyLen = 3
    UrlOk = {imgA, imgB, imgC}
    Size <- MCSize
    TornBytes <- MCTornBytes
    UartHost = FALSE
    HostBytes <- MCHostBytes
INVARIANTS NoPartialBoot PreparationFailsClosed
PROPERTIES RequestKept PromiseKept
