---------------------------- MODULE MCLiveSession ----------------------------
(***************************************************************************)
(* Small sessions: a stream, replies, and a tool the client names.     *)
(***************************************************************************)
EXTENDS LiveSession

Jobs1 == [r \in Requests |-> CASE r = "s" -> "stream" [] r = "x" -> "tool" [] OTHER -> "reply"]
OpenPolicy == [actions |-> Actions, channels |-> Channels, maxDiscount |-> 15, ceiling |-> 1000,
               partial |-> TRUE, minPct |-> 50]
Mandate == [class |-> 3, total |-> 500, retries |-> 0, voice |-> 0, nudges |-> 0]
\* A reply is answered with a call or a handoff; the client places a call.
Picks   == [j \in Jobs |-> IF j = "tool" THEN {"VOICE_CALL"} ELSE {"VOICE_CALL", "HANDOFF_TO_HUMAN"}]
Called  == [c \in Channels |-> IF c = "WHATSAPP" THEN 0 ELSE 1]
=============================================================================
