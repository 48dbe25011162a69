\* What a fair board achieves once the environment calms down.
SPECIFICATION FairSpec
CONSTANTS
    imgA = imgA
    imgB = imgB
    imgC = imgC
    Images = {imgA, imgB}
    Factory = Factory
    Junk = Junk
    Blank = Blank
    Pages = 2
    BodyLen = 2
    UrlOk = {imgA}
    Size <- MCSize
    TornBytes <- MCTornBytes
    UartHost = FALSE
    HostBytes <- MCHostBytes
PROPERTIES PendingInstalls OtaEnds
