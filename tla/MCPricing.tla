----------------------------- MODULE MCPricing ------------------------------
(* Two calls of the page in progress, besides the request of the start.    *)
EXTENDS Pricing
=============================================================================
