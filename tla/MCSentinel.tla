----------------------------- MODULE MCSentinel -----------------------------
(* Three requests in progress and two probes.                              *)
EXTENDS Sentinel
=============================================================================
