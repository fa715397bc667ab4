--------------------------- MODULE MCLiveManager ---------------------------
(* LiveManager for TLC: sessions, traces and watchers are model values.    *)
EXTENDS LiveManager, TLC

CONSTANTS t1, t2, Changes1, Changes2
MCTraces == {t \in {t1, t2} : t = t1 \/ Changes2 > 0}
MCMaxVersion == [t \in MCTraces |-> IF t = t1 THEN Changes1 ELSE Changes2]
=============================================================================
