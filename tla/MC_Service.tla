----------------------------- MODULE MC_Service -----------------------------
(* A small instance of HealthCheck for TLC. *)
EXTENDS HealthCheck

CONSTANTS a1, a2, a3, a4

\* service.yaml's one agent, and the fewest that decide without all of them.
Sizes == {{a1}, {a1, a2, a3, a4}}

=============================================================================
