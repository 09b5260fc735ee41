-------------------------- MODULE PoseLookupBuffer --------------------------
(***************************************************************************)
(* The T_M_I pose history (vio_common::PoseLookupBuffer, used by the       *)
(* localization handler as T_M_I_buffer_).  Its source is not part of this *)
(* repository: the operators below follow the contract of spec.md 4.1.     *)
(* A buffer is represented by the set of timestamps of the samples it      *)
(* retains; the poses themselves are abstracted away, only whether a pose  *)
(* can be interpolated at a time matters to the handler.                   *)
(***************************************************************************)
EXTENDS Integers

CONSTANTS
  MaxTime,         \* last timestamp of a model run (timestamps are 1..MaxTime)
  History,         \* kBufferPoseHistoryNs: retention horizon of the samples
  MaxPropagation   \* kBufferMaxPropagationNs: largest gap interpolated over

ASSUME PoseBufferAssumption ==
  /\ MaxTime \in Nat \ {0}
  /\ History \in Nat
  /\ MaxPropagation \in Nat \ {0}

Times == 1 .. MaxTime

\* vio_common::PoseLookupBuffer::ResultStatus
Success == "kSuccess"
NotYetAvailable == "kFailedNotYetAvailable"
WillNeverSucceed == "kFailedWillNeverSucceed"
ResultStatus == {Success, NotYetAvailable, WillNeverSucceed}

Newest(P) == CHOOSE t \in P : \A s \in P : s <= t
Oldest(P) == CHOOSE t \in P : \A s \in P : t <= s

\* The two samples bracketing t (defined when Oldest(P) <= t <= Newest(P)).
Below(P, t) == CHOOSE s \in P : s <= t /\ \A u \in P : u <= t => u <= s
Above(P, t) == CHOOSE s \in P : s >= t /\ \A u \in P : u >= t => s <= u

(***************************************************************************)
(* getPoseAt(timestamp): not yet available when t is newer than the newest *)
(* sample (or there is none), never available when t is older than the     *)
(* oldest retained sample or the bracketing samples are further apart than *)
(* the propagation limit, otherwise interpolated.                          *)
(***************************************************************************)
GetPoseAt(P, t) ==
  IF P = {} \/ t > Newest(P) THEN NotYetAvailable
  ELSE IF t < Oldest(P) \/ Above(P, t) - Below(P, t) > MaxPropagation
       THEN WillNeverSucceed
       ELSE Success

\* bufferOdometryEstimate: add a sample and evict those older than History.
BufferPose(P, t) == {s \in P \cup {t} : s + History >= t}
=============================================================================
