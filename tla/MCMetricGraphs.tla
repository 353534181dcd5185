--------------------------- MODULE MCMetricGraphs ---------------------------
(* One panel of two queries for MetricGraphs; custom panels show fewer.     *)
EXTENDS MetricGraphs

CONSTANTS p1, p2

OnePanel == << <<p1, p2>> >>
=============================================================================
