-------------------------- MODULE MCMetricsPipeline --------------------------
(* Small instances of MetricsPipeline for TLC. *)
EXTENDS MetricsPipeline
=============================================================================
