----------------------------- MODULE MCSessions -----------------------------
(* One session that writes two chunks, one more than a channel holds, a       *)
(* subscription, a caller that closes the session and Shutdown closing it too.*)
EXTENDS Sessions
=============================================================================
