\* Resets between writes only: no byte write is torn.
SPECIFICATION Spec
CONSTANTS
    imgA = imgA
    imgB = imgB
    imgC = imgC
    Images = {imgA, imgB, imgC}
    Factory = Factory
    Junk = Junk
    Blank = Blank
    Pages = 3
    BodyLen = 2
    UrlOk = {imgA, imgB, imgC}
    Size <- MCSize
    TornBytes <- MCNoTorn
    UartHost = FALSE
    HostBytes <- MCHostBytes
INVARIANTS PendingIsWhole
