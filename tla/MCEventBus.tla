----------------------------- MODULE MCEventBus -----------------------------
(* Two publishers, so that fan-outs interleave, and two subscriptions, so   *)
(* that one is cancelled or closed while the other is served.               *)
EXTENDS EventBus
=============================================================================
