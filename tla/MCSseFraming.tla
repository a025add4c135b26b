--------------------------- MODULE MCSseFraming ---------------------------
(* TLC instance of SseFraming: one event of each kind the parsers tell apart. *)
EXTENDS SseFraming

JsonEvent(user, server_name, bot) ==
  [user |-> user, server_name |-> server_name, bot |-> bot]

SampleEvents ==
  {JsonEvent("plain", "plain", "true"), JsonEvent("absent", "plain", "absent"),
   JsonEvent("plain", "absent", "false"), JsonEvent("escaped", "plain", "false"),
   JsonEvent("plain", "plain", "null")}
=============================================================================
