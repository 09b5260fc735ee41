------------------------- MODULE BaseframeAlignment -------------------------
(***************************************************************************)
(* Baseframe (T_G_M) estimation used by initializeBaseframe():             *)
(*  - the fixed-size queue T_G_M_loc_buffer_ that keeps the last           *)
(*    MinNumBaseframe estimates (common::FixedSizeQueue),                  *)
(*  - common::transformationRansac over that queue (spec.md 4.2),          *)
(*  - the inlier threshold kNumInliersThreshold computed by the handler.   *)
(* A T_G_M estimate is abstracted to an integer: two estimates agree when  *)
(* they are closer than Tol (the orientation and position thresholds of    *)
(* the RANSAC collapsed into one distance).                                *)
(***************************************************************************)
EXTENDS Integers, Sequences, FiniteSets

CONSTANTS
  Estimates,         \* the T_G_M estimates an observation may imply
  Tol,               \* kInitializationRansac*ErrorThreshold, as one distance
  MinNumBaseframe,   \* FLAGS_openvinsli_min_num_baseframe_estimates_before_init
  RatioNum,          \* kInitializationRansacInlierRatioThreshold = RatioNum/RatioDen
  RatioDen,
  RansacIterations   \* kInitializationMaxNumRansacIterations

ASSUME AlignmentAssumption ==
  /\ Estimates \subseteq Int
  /\ Tol \in Nat \ {0}
  /\ MinNumBaseframe \in Nat \ {0}
  /\ RatioNum \in Nat /\ RatioDen \in Nat \ {0} /\ RatioNum <= RatioDen
  /\ RansacIterations \in Nat \ {0}

\* Faulty variants of FixedSizeInsert: a queue that never drops an element,
\* and one that drops its newest element (pop_back) instead of the oldest.
FixedSizeInsertNoEvict(q, e) == Append(q, e)
FixedSizeInsertPopBack(q, e) ==
  IF Len(q) < MinNumBaseframe THEN Append(q, e)
  ELSE Append(SubSeq(q, 1, Len(q) - 1), e)

\* FixedSizeQueue::insert: append, dropping the oldest beyond the capacity.
FixedSizeInsert(q, e) ==
  IF Len(q) < MinNumBaseframe THEN Append(q, e) ELSE Append(Tail(q), e)

\* Residual of an estimate under a hypothesis below both thresholds.
IsInlier(h, e) == h - e < Tol /\ e - h < Tol

NumInliers(q, h) == Cardinality({i \in DOMAIN q : IsInlier(h, q[i])})

\* kNumInliersThreshold = ceil(min_num_baseframe_estimates * ratio)
KNumInliersThreshold == (MinNumBaseframe * RatioNum + RatioDen - 1) \div RatioDen

(***************************************************************************)
(* transformationRansac: each iteration draws one element of the queue as  *)
(* hypothesis; the result is the hypothesis with most inliers.  The seed   *)
(* comes from std::random_device, so the set of drawn indices is any       *)
(* nonempty set of at most RansacIterations indices.                       *)
(***************************************************************************)
RansacDraws(q) ==
  {D \in SUBSET DOMAIN q : D # {} /\ Cardinality(D) <= RansacIterations}

IsRansacBest(q, D, i) ==
  i \in D /\ \A j \in D : NumInliers(q, q[j]) <= NumInliers(q, q[i])
=============================================================================
