-------------------------- MODULE ConsistencyGate ---------------------------
(***************************************************************************)
(* The reprojection consistency gate of processAsUpdate() in structure-    *)
(* constraint mode: getReprojectionErrorForGlobalLandmark and              *)
(* getLocalizationReprojectionErrors.  A localization result carries, per  *)
(* maplab camera, its 2D-3D matches; a match is abstracted to the outcome  *)
(* of projecting its landmark under the filter hypothesis (T_G_I_filter)   *)
(* and under the localization hypothesis (T_G_B): the pixel error, or a    *)
(* projection failure.                                                     *)
(***************************************************************************)
EXTENDS Integers, Sequences, FiniteSets

CONSTANTS
  NumCams,          \* camera_calibration_.numCameras()
  ActiveCams,       \* maplab cameras mapped to an OpenVINS camera
  MaxPixelError,    \* largest pixel error of the abstraction
  MinStructure,     \* FLAGS_openvinsli_min_number_of_structure_constraints
  MaxMeanErrorDiff  \* FLAGS_openvinsli_max_mean_localization_reprojection_error_px

ASSUME GateAssumption ==
  /\ NumCams \in Nat \ {0}
  /\ ActiveCams \subseteq 0 .. NumCams - 1
  /\ MaxPixelError \in Nat
  /\ MinStructure \in Int
  /\ MaxMeanErrorDiff \in Nat

Cams == 0 .. NumCams - 1

\* aslam::ProjectionResult statuses of camera.project3 (UNINITIALIZED aside,
\* which fails CHECK_NE and which a calibrated camera never returns).
KeypointVisible == "KEYPOINT_VISIBLE"
KeypointOutsideImageBox == "KEYPOINT_OUTSIDE_IMAGE_BOX"
PointBehindCamera == "POINT_BEHIND_CAMERA"
ProjectionInvalid == "PROJECTION_INVALID"
ProjectionStatus ==
  {KeypointVisible, KeypointOutsideImageBox, PointBehindCamera, ProjectionInvalid}
\* A projection: its status and the pixel error of the reprojected keypoint.
Projection == [status : ProjectionStatus, err : 0 .. MaxPixelError]
Match == [filter : Projection, lc : Projection]

\* getReprojectionErrorForGlobalLandmark returns false only for a point
\* behind the camera or an invalid projection (outside the box is kept).
ReprojectionOk(p) == p.status \notin {PointBehindCamera, ProjectionInvalid}

\* Sum over all cameras of g[c] (g a function on Cams).
CamSum(g) ==
  LET f[k \in 0 .. NumCams] == IF k = 0 THEN 0 ELSE f[k - 1] + g[k - 1]
  IN  f[NumCams]

\* Faulty variant of NumValidMatches: inactive cameras counted too.
NumValidMatchesAllCams(cams) == CamSum([c \in Cams |-> Len(cams[c])])

\* processAsUpdate: num_valid_matches, the matches of the active cameras.
NumValidMatches(cams) ==
  CamSum([c \in Cams |-> IF c \in ActiveCams THEN Len(cams[c]) ELSE 0])

\* Matches of a camera that getLocalizationReprojectionErrors processes.
ProcessedMatches(cams, c) ==
  IF Len(cams[c]) = 0 \/ c \notin ActiveCams THEN <<>> ELSE cams[c]

\* num_matches_processed
NumMatchesProcessed(cams) ==
  CamSum([c \in Cams |-> Len(ProcessedMatches(cams, c))])

\* Indices of the processed matches of camera c projecting under both.
AcceptedIdx(cams, c) ==
  {i \in DOMAIN ProcessedMatches(cams, c) :
     ReprojectionOk(cams[c][i].filter) /\ ReprojectionOk(cams[c][i].lc)}

\* lc_reprojection_errors->size()
NumAccepted(cams) == CamSum([c \in Cams |-> Cardinality(AcceptedIdx(cams, c))])

\* Sum of the errors of the accepted matches under hypothesis h.
ErrorSum(cams, h) ==
  LET s(c) == LET q == cams[c]
                  f[k \in 0 .. Len(q)] ==
                    IF k = 0 THEN 0
                    ELSE f[k - 1] + (IF k \in AcceptedIdx(cams, c) THEN q[k][h].err ELSE 0)
              IN f[Len(q)]
  IN CamSum([c \in Cams |-> s(c)])

(***************************************************************************)
(* reprojection_success: success rate above 0.5 and more accepted matches  *)
(* than the minimum; the gate then passes when the mean errors under both  *)
(* hypotheses differ by at most the threshold (both means share the        *)
(* denominator NumAccepted, so the comparison is exact in integers).       *)
(***************************************************************************)
ReprojectionSuccess(cams) ==
  /\ 2 * NumAccepted(cams) > NumMatchesProcessed(cams)
  /\ NumAccepted(cams) > MinStructure

GatePasses(cams) ==
  /\ ReprojectionSuccess(cams)
  /\ LET d == ErrorSum(cams, "filter") - ErrorSum(cams, "lc")
     IN  d <= MaxMeanErrorDiff * NumAccepted(cams) /\ -d <= MaxMeanErrorDiff * NumAccepted(cams)
=============================================================================
