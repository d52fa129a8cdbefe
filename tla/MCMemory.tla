------------------------------ MODULE MCMemory ------------------------------
(* The memory on a small instance.  Callers insert one and the same fact,  *)
(* told by the owner or read in quarantine, so that curation meets         *)
(* duplicates and consolidation a batch of two; the summary an LLM writes  *)
(* is a third row with a blank body, which the verifier cannot hash.       *)
EXTENDS Memory

CONSTANTS k1, k2

MCBirths == {[key |-> k1, kind |-> "fact", prov |-> "owner"],
             [key |-> k1, kind |-> "fact", prov |-> "quarantine"]}
=============================================================================
