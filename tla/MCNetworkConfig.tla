-------------------------- MODULE MCNetworkConfig --------------------------
(* Two servers, one usable and one unusable address. *)
EXTENDS NetworkConfig
=============================================================================
