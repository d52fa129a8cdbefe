------------------------------ MODULE MCTraces ------------------------------
(* The trace, one session over three processes: a cap of four bytes,        *)
(* events of one byte or five (too large for any file), and batches of two  *)
(* calls.                                                                   *)
(* The metrics and the log share nothing with it: a behaviour is of the one *)
(* or of the other, and of the metrics it reports through one method only:  *)
(* no two methods emit a counter in common.                                 *)
EXTENDS Traces, Metrics

VARIABLE part

OneMethod == \A i \in 1..Len(history) : history[i].method = history[1].method

TracingInit == Init /\ MetricsInit /\ part \in {"trace", "metrics"}
TracingNext ==
    \/ part = "trace" /\ Next /\ UNCHANGED <<metricsVars, part>>
    \/ part = "metrics" /\ MetricsNext /\ OneMethod' /\ UNCHANGED <<vars, part>>
TracingSpec == TracingInit /\ [][TracingNext]_<<vars, metricsVars, part>>
=============================================================================
