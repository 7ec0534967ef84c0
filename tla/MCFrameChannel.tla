----------------------------- MODULE MCFrameChannel -----------------------------
(* A small instance of FrameChannel: headers of two bytes, payloads of none to two. *)
EXTENDS FrameChannel
===============================================================================
