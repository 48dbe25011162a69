\* A UART host that may program the board in every recovery window.
SPECIFICATION Spec
CONSTANTS
    imgA = imgA
    imgB = imgB
    imgC = imgC
    Images = {imgA, imgB}
    Factory = Factory
    Junk = Junk
    Blank = Blank
    Pages = 2
    BodyLen = 1
    UrlOk = {imgA, imgB}
    Size <- MCSize
    TornBytes <- MCNoTorn
    UartHost = TRUE
    HostBytes <- MCHostBytes
PROPERTIES FlashGuarded BootAgrees
