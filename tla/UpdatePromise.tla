--------------------------- MODULE UpdatePromise ---------------------------
(***************************************************************************)
(* What the bootloader promises an application, without pages, bytes or    *)
(* resets: the board has at most one complete image, at most one request   *)
(* for another, and runs nothing but a complete image.  Only images that   *)
(* were there at the start or were asked for are ever run.                 *)
(***************************************************************************)
CONSTANTS Images, None

VARIABLES
    image,    \* the image that is complete in flash, or None
    request,  \* the image that a committed request asks for, or None
    running   \* the image that is running, or None: the bootloader is

pvars == <<image, request, running>>

Init ==
    /\ image \in Images \cup {None}
    /\ request \in Images \cup {None}
    /\ running = None

\* An application asks for m; a reset may follow at once.
Ask(m) ==
    /\ running # None /\ request = None
    /\ request' = m
    /\ running' \in {running, None}
    /\ UNCHANGED image

\* Flash is rewritten only to serve a request.
Rewrite ==
    /\ running = None /\ request # None
    /\ image' \in Images \cup {None}
    /\ UNCHANGED <<request, running>>

\* A request ends only when its image is complete.
Finish ==
    /\ running = None /\ request # None
    /\ image = request
    /\ request' = None
    /\ UNCHANGED <<image, running>>

\* An application starts complete, and never while a request is open.
Start ==
    /\ running = None /\ request = None
    /\ image # None
    /\ running' = image
    /\ UNCHANGED <<image, request>>

Stop ==
    /\ running' = None
    /\ UNCHANGED <<image, request>>

Next == (\E m \in Images : Ask(m)) \/ Rewrite \/ Finish \/ Start \/ Stop

Spec == Init /\ [][Next]_pvars
=============================================================================
