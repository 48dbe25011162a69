---------------------------- MODULE MCOtaStream ----------------------------
(* Two application pages of two bytes and a boot section of two bytes. *)
EXTENDS OtaStream

\* A partial page, a full page, a partial second page, the whole area.
MCRequests == {<<1>>, <<1, 0>>, <<0, 1, 1>>, <<1, 0, 1, 0>>}
=============================================================================
