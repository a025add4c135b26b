------------------------- MODULE MCPacketAccounting -------------------------
(* TLC instance of PacketAccounting. *)
EXTENDS PacketAccounting, TLC

Interchangeable == Permutations(HumanPacket) \cup Permutations(BotPacket)
=============================================================================
