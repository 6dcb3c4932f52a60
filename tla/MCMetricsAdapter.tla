-------------------------- MODULE MCMetricsAdapter --------------------------
(* Instances of MetricsAdapter for TLC.  Its runs have temporal properties, and so neither *)
(* symmetry nor a view.                                                                    *)
EXTENDS MetricsAdapter
=============================================================================
