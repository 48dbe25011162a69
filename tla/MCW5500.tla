------------------------------ MODULE MCW5500 ------------------------------
(* Over TCP a ring of four bytes, pointers that wrap at eight, register     *)
(* bytes of one bit and a stream that fills the ring twice; over UDP twice  *)
(* the ring, and datagrams that are empty, fill the buffer of three bytes,  *)
(* exceed it, and exceed what the driver believes.                          *)
EXTENDS W5500

MCStream == [i \in 1..8 |-> i]
MCPayloads == {<<>>, <<5>>, <<6, 7, 8>>, <<9, 10, 11, 12>>, <<1, 1, 1, 1, 1>>}
=============================================================================
