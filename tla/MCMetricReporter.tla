-------------------------- MODULE MCMetricReporter --------------------------
(* Two subjects; days of three ticks, so that batches may cross midnight.  *)
EXTENDS MetricReporter, TLC

CONSTANTS s1, s2

MCSubjects == {s1, s2}
=============================================================================
