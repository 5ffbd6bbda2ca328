------------------------------ MODULE MCOutbox ------------------------------
(* Outbox.tla for TLC: the channels are interchangeable model values. *)
EXTENDS Outbox, TLC

ChannelSymmetry == Permutations(Channels)
=============================================================================
