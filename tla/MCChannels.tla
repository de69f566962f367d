----------------------------- MODULE MCChannels -----------------------------
(* The channel thread on a small instance: two IDs. *)
EXTENDS Channels

\* A command for one channel, and for both in one packet
OneOrTwo == {<<0>>, <<1, 0>>}
=============================================================================
