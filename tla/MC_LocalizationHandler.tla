----------------------- MODULE MC_LocalizationHandler -----------------------
(***************************************************************************)
(* Small instances of LocalizationHandler for TLC.                         *)
(*  - timestamps 1..5 with a retention horizon of 2 and an interpolation   *)
(*    limit of 2, so that eviction and gaps both happen within a run;      *)
(*  - three results, the last MinNumBaseframe = 2 of which must agree      *)
(*    (ratio 1) out of T_G_M estimates 0 and 1 (agreeing) and 4 (outlier); *)
(*  - two cameras, camera 0 active: a result has a match on the active     *)
(*    camera or only on the inactive one.                                  *)
(***************************************************************************)
EXTENDS LocalizationHandler

\* A match that projects under both hypotheses.
MCMatch == [filter |-> [status |-> KeypointVisible, err |-> 0],
            lc |-> [status |-> KeypointVisible, err |-> 1]]

MCLocResults ==
  { [est |-> 0, cams |-> [c \in Cams |-> IF c = 0 THEN <<MCMatch>> ELSE <<>>]],
    [est |-> 1, cams |-> [c \in Cams |-> IF c = 0 THEN <<MCMatch>> ELSE <<>>]],
    [est |-> 4, cams |-> [c \in Cams |-> IF c = 1 THEN <<MCMatch>> ELSE <<>>]] }
=============================================================================
