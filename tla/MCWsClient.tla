----------------------------- MODULE MCWsClient -----------------------------
(***************************************************************************)
(* TLC instances of WsClient; the threads are model values.                *)
(***************************************************************************)
EXTENDS WsClient

With(heartbeat_, schedule_) == [heartbeat |-> heartbeat_, schedule |-> schedule_]

\* The defaults, and each way to reconnect once.
LinkSettings == {With(FALSE, "off"), With(TRUE, "limited"), With(FALSE, "unlimited")}

FrameSettings == {With(FALSE, "limited")}
=============================================================================
