------------------------------- MODULE MCChat -------------------------------
(* Instance of Chat: one unit of room less than the longest line, so that     *)
(* lines shorter than the buffer, as long as it and longer are all typed.     *)
EXTENDS Chat

MCSides == {"server", "client"}
MCModes == {"raw", "packet", "line"}
MCLengths == [s \in MCSides |-> IF s = "server" THEN {2, 3, 4} ELSE {2}]
MCMaxLines == [s \in MCSides |-> IF s = "server" THEN 2 ELSE 1]
=============================================================================
