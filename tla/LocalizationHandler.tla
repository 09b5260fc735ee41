------------------------ MODULE LocalizationHandler ------------------------
(***************************************************************************)
(* OpenvinsLocalizationHandler (openvins-localization-handler.cc): the     *)
(* fusion of global localization results into OpenVINS.                    *)
(*                                                                         *)
(* Three threads share the handler:                                        *)
(*  - the localization thread delivers results (processLocalizationResult) *)
(*    and, when the buffering block is enabled, drains the pending queue   *)
(*    itself (dealWithBufferedLocalizations, which runs the fusion state   *)
(*    machine processLocalizationResultInternal on each ready result);     *)
(*  - the OpenVINS output thread appends T_M_I poses to T_M_I_buffer_ and, *)
(*    once OpenVINS is localized, T_G_M to T_G_M_filter_buffer_;           *)
(*  - OpenVINS itself, which may become localized once it has been fed.    *)
(* The drain loop is split where the code releases m_localization_buffer_: *)
(* the OpenVINS thread can append (and evict) poses between the steps.     *)
(* A failed CHECK aborts the process: crashed records which one.           *)
(***************************************************************************)
EXTENDS Integers, Sequences, FiniteSets,
        PoseLookupBuffer, BaseframeAlignment, ConsistencyGate

CONSTANTS
  NumObs,              \* localization results delivered in a run
  LocResults,          \* their payloads: the T_G_M they imply and their matches
  Use6Dof,             \* FLAGS_openvinsli_use_6dof_localization
  Use6DofInactive,     \* FLAGS_openvinsli_use_6dof_localization_for_inactive_cameras
  BufferLocalizations  \* the buffering block of processLocalizationResult is compiled in

ASSUME HandlerAssumption ==
  /\ NumObs \in Nat
  /\ LocResults \subseteq [est : Estimates, cams : [Cams -> Seq(Match)]]
  /\ Use6Dof \in BOOLEAN
  /\ Use6DofInactive \in BOOLEAN
  /\ BufferLocalizations \in BOOLEAN

\* common::LocalizationState
Uninitialized == "kUninitialized"
NotLocalized == "kNotLocalized"
Localized == "kLocalized"
LocalizationStates == {Uninitialized, NotLocalized, Localized}

\* What became of a localization result (spec.md 3: exactly one disposition).
Pending == "pending"
FedDirectly == "fedDirectly"              \* fed by processLocalizationResult only
InitNoPose == "initNoPose"                \* getPoseAt failed in initializeBaseframe
InitCollected == "initCollected"          \* too few estimates collected yet
InitRansacFailed == "initRansacFailed"    \* too few RANSAC inliers
InitSucceeded == "initSucceeded"          \* the baseframe was initialized
Updated6Dof == "updated6Dof"              \* fed again by processAsUpdate
NoActiveMatches == "noActiveMatches"      \* no match on an active camera
InactiveRejected == "inactiveRejected"    \* 6DoF fallback for inactive cameras
StructureRejected == "structureRejected"  \* structure constraints not implemented
Dispositions ==
  {Pending, FedDirectly, InitNoPose, InitCollected, InitRansacFailed,
   InitSucceeded, Updated6Dof, NoActiveMatches, InactiveRejected,
   StructureRejected}
\* Dispositions of a result whose pose lookup in initializeBaseframe worked.
EstimateInserted == {InitCollected, InitRansacFailed, InitSucceeded}

\* The CHECKs of processAsUpdate and getLocalizationReprojectionErrors.
NoCrash == "none"
CheckNotYetAvailable == "result != kFailedNotYetAvailable"
CheckWillNeverSucceed == "result != kFailedWillNeverSucceed"
CheckFilterBuffer == "!T_G_M_filter_buffer_.buffer().empty()"
CheckMatchesProcessed == "num_matches_processed > 0"
CrashStates ==
  {NoCrash, CheckNotYetAvailable, CheckWillNeverSucceed, CheckFilterBuffer,
   CheckMatchesProcessed}

\* Where the localization thread is in dealWithBufferedLocalizations.
Idle == "idle"          \* not inside dealWithBufferedLocalizations
Deal == "deal"          \* about to read the newest T_M_I timestamp
Loop == "loop"          \* at the top of while(1)
Process == "process"    \* popped `current`, lock released
ThreadStates == {Idle, Deal, Loop, Process}

Observation == [ts : Times, res : LocResults]

VARIABLES
  poses,               \* T_M_I_buffer_ (timestamps of its samples)
  hasFilterBaseframe,  \* T_G_M_filter_buffer_ is not empty
  ovLocalized,         \* OpenVINS reports status.localized
  fed,                 \* ids fed to feed_measurement_localization, in order
  locState,            \* localization_state_
  locBuffer,           \* localization_buffer_ (ids of pending results)
  tgmLocBuffer,        \* T_G_M_loc_buffer_
  baseframe,           \* T_G_M_lsq of the successful initialization (<<>> before)
  pc,                  \* localization thread
  newestTs,            \* newest_TMI_timestamp_ns read by dealWithBufferedLocalizations
  current,             \* localization_result popped by the drain loop
  obs,                 \* the results delivered so far, in arrival order
  disp,                \* disposition of each delivered result
  crashed              \* the CHECK that aborted the process, or NoCrash

vars == <<poses, hasFilterBaseframe, ovLocalized, fed, locState, locBuffer,
          tgmLocBuffer, baseframe, pc, newestTs, current, obs, disp, crashed>>

TypeOK ==
  /\ poses \subseteq Times
  /\ hasFilterBaseframe \in BOOLEAN
  /\ ovLocalized \in BOOLEAN
  /\ fed \in Seq(1 .. NumObs)
  /\ locState \in LocalizationStates
  /\ locBuffer \in Seq(1 .. NumObs)
  /\ tgmLocBuffer \in Seq(Estimates) /\ Len(tgmLocBuffer) <= MinNumBaseframe
  /\ baseframe \in Seq(Estimates) /\ Len(baseframe) <= 1
  /\ pc \in ThreadStates
  /\ newestTs \in 0 .. MaxTime
  /\ current \in 0 .. NumObs
  /\ obs \in Seq(Observation) /\ Len(obs) <= NumObs
  /\ disp \in Seq(Dispositions) /\ Len(disp) = Len(obs)
  /\ crashed \in CrashStates

Init ==
  /\ poses = {}
  /\ hasFilterBaseframe = FALSE
  /\ ovLocalized = FALSE
  /\ fed = <<>>
  /\ locState = IF Use6Dof THEN Localized ELSE Uninitialized
  /\ locBuffer = <<>>
  /\ tgmLocBuffer = <<>>
  /\ baseframe = <<>>
  /\ pc = Idle
  /\ newestTs = 0
  /\ current = 0
  /\ obs = <<>>
  /\ disp = <<>>
  /\ crashed = NoCrash

Dispose(n, d) == disp' = [disp EXCEPT ![n] = d]

Crash(check) ==
  /\ crashed' = check
  /\ UNCHANGED <<poses, hasFilterBaseframe, ovLocalized, fed, locState,
                 locBuffer, tgmLocBuffer, baseframe, newestTs, current, obs,
                 disp>>
-----------------------------------------------------------------------------
(***************************************************************************)
(* OpenVINS output thread: extractLocalizationFromOpenvinsState yields     *)
(* T_G_M exactly when OpenVINS reports itself localized (status.localized).*)
(* Its caller, which is not under src/, buffers the state's T_M_I and that *)
(* T_G_M; the samples are taken strictly newer than the buffered ones      *)
(* (spec.md 2: appended continuously by the odometry estimator).           *)
(***************************************************************************)
OpenvinsOutput(t) ==
  /\ crashed = NoCrash
  /\ \A s \in poses : s < t
  /\ poses' = BufferPose(poses, t)
  /\ hasFilterBaseframe' = (hasFilterBaseframe \/ ovLocalized)
  /\ UNCHANGED <<ovLocalized, fed, locState, locBuffer, tgmLocBuffer,
                 baseframe, pc, newestTs, current, obs, disp, crashed>>

\* OpenVINS localizes itself from the localizations it has been fed.
OpenvinsLocalizes ==
  /\ crashed = NoCrash
  /\ ~ovLocalized
  /\ fed # <<>>
  /\ ovLocalized' = TRUE
  /\ UNCHANGED <<poses, hasFilterBaseframe, fed, locState, locBuffer,
                 tgmLocBuffer, baseframe, pc, newestTs, current, obs, disp,
                 crashed>>

(***************************************************************************)
(* processLocalizationResult: the result (timestamped t, newer than the    *)
(* previous one and not older than the retained poses) is fed to OpenVINS; *)
(* with the buffering block it is also queued and the queue drained.       *)
(***************************************************************************)
ProcessLocalizationResult(r, t) ==
  LET n == Len(obs) + 1 IN
  /\ crashed = NoCrash
  /\ pc = Idle
  /\ Len(obs) < NumObs
  /\ \A i \in DOMAIN obs : obs[i].ts < t
  /\ poses = {} \/ \E s \in poses : s <= t
  /\ obs' = Append(obs, [ts |-> t, res |-> r])
  /\ fed' = Append(fed, n)
  /\ IF BufferLocalizations
       THEN /\ disp' = Append(disp, Pending)
            /\ locBuffer' = Append(locBuffer, n)
            /\ pc' = Deal
       ELSE /\ disp' = Append(disp, FedDirectly)
            /\ UNCHANGED <<locBuffer, pc>>
  /\ UNCHANGED <<poses, hasFilterBaseframe, ovLocalized, locState,
                 tgmLocBuffer, baseframe, newestTs, current, crashed>>
-----------------------------------------------------------------------------
(* dealWithBufferedLocalizations                                           *)

\* No pose at all yet: return.
DealNoPose ==
  /\ crashed = NoCrash
  /\ pc = Deal
  /\ poses = {}
  /\ pc' = Idle
  /\ UNCHANGED <<poses, hasFilterBaseframe, ovLocalized, fed, locState,
                 locBuffer, tgmLocBuffer, baseframe, newestTs, current, obs,
                 disp, crashed>>

\* Read the newest T_M_I timestamp once, before the loop.
DealBegin ==
  /\ crashed = NoCrash
  /\ pc = Deal
  /\ poses # {}
  /\ newestTs' = Newest(poses)
  /\ pc' = Loop
  /\ UNCHANGED <<poses, hasFilterBaseframe, ovLocalized, fed, locState,
                 locBuffer, tgmLocBuffer, baseframe, current, obs, disp,
                 crashed>>

\* Queue empty, or its front is newer than the newest pose read: return.
DealReturn ==
  /\ crashed = NoCrash
  /\ pc = Loop
  /\ \/ locBuffer = <<>>
     \/ locBuffer # <<>> /\ obs[Head(locBuffer)].ts > newestTs
  /\ pc' = Idle
  /\ UNCHANGED <<poses, hasFilterBaseframe, ovLocalized, fed, locState,
                 locBuffer, tgmLocBuffer, baseframe, newestTs, current, obs,
                 disp, crashed>>

\* Faulty variants of DealPop: the front popped whatever its timestamp, and
\* the front processed without pop_front().
DealPopAnyTs ==
  /\ crashed = NoCrash
  /\ pc = Loop
  /\ locBuffer # <<>>
  /\ current' = Head(locBuffer)
  /\ locBuffer' = Tail(locBuffer)
  /\ pc' = Process
  /\ UNCHANGED <<poses, hasFilterBaseframe, ovLocalized, fed, locState,
                 tgmLocBuffer, baseframe, newestTs, obs, disp, crashed>>

DealPopNoPop ==
  /\ crashed = NoCrash
  /\ pc = Loop
  /\ locBuffer # <<>>
  /\ obs[Head(locBuffer)].ts <= newestTs
  /\ current' = Head(locBuffer)
  /\ pc' = Process
  /\ UNCHANGED <<poses, hasFilterBaseframe, ovLocalized, fed, locState,
                 locBuffer, tgmLocBuffer, baseframe, newestTs, obs, disp,
                 crashed>>

\* Faulty variant of DealPop: the newest queued result taken (pop_back).
DealPopBack ==
  /\ crashed = NoCrash
  /\ pc = Loop
  /\ locBuffer # <<>>
  /\ obs[locBuffer[Len(locBuffer)]].ts <= newestTs
  /\ current' = locBuffer[Len(locBuffer)]
  /\ locBuffer' = SubSeq(locBuffer, 1, Len(locBuffer) - 1)
  /\ pc' = Process
  /\ UNCHANGED <<poses, hasFilterBaseframe, ovLocalized, fed, locState,
                 tgmLocBuffer, baseframe, newestTs, obs, disp, crashed>>

\* Pop the front under the lock.
DealPop ==
  /\ crashed = NoCrash
  /\ pc = Loop
  /\ locBuffer # <<>>
  /\ obs[Head(locBuffer)].ts <= newestTs
  /\ current' = Head(locBuffer)
  /\ locBuffer' = Tail(locBuffer)
  /\ pc' = Process
  /\ UNCHANGED <<poses, hasFilterBaseframe, ovLocalized, fed, locState,
                 tgmLocBuffer, baseframe, newestTs, obs, disp, crashed>>
-----------------------------------------------------------------------------
(***************************************************************************)
(* initializeBaseframe(current), with the state change of its caller:      *)
(* look up T_M_I, insert the implied T_G_M into the fixed-size queue, and  *)
(* once the queue is full run the RANSAC over it.                          *)
(***************************************************************************)
InitializeBaseframe(n) ==
  LET o == obs[n]
      q == FixedSizeInsert(tgmLocBuffer, o.res.est)
  IN
  \/ /\ GetPoseAt(poses, o.ts) # Success
     /\ Dispose(n, InitNoPose)
     /\ UNCHANGED <<tgmLocBuffer, locState, baseframe>>
  \/ /\ GetPoseAt(poses, o.ts) = Success
     /\ tgmLocBuffer' = q
     /\ \/ /\ Len(q) < MinNumBaseframe
           /\ Dispose(n, InitCollected)
           /\ UNCHANGED <<locState, baseframe>>
        \/ /\ Len(q) >= MinNumBaseframe
           /\ \E D \in RansacDraws(q), i \in DOMAIN q :
                /\ IsRansacBest(q, D, i)
                /\ \/ /\ NumInliers(q, q[i]) < KNumInliersThreshold
                      /\ Dispose(n, InitRansacFailed)
                      /\ UNCHANGED <<locState, baseframe>>
                   \/ /\ NumInliers(q, q[i]) >= KNumInliersThreshold
                      /\ Dispose(n, InitSucceeded)
                      /\ locState' = Localized
                      /\ baseframe' = <<q[i]>>

\* processAsUpdate, 6DoF mode: feed the result to OpenVINS, always accepted.
Update6Dof(n) ==
  /\ fed' = Append(fed, n)
  /\ Dispose(n, Updated6Dof)
  /\ UNCHANGED crashed

\* Faulty variant of UpdateInactiveCameras: the 6DoF fallback implemented
\* by feeding the result to OpenVINS.
UpdateInactiveCamerasFeeding(n) ==
  /\ IF Use6DofInactive THEN fed' = Append(fed, n) ELSE UNCHANGED fed
  /\ Dispose(n, IF Use6DofInactive THEN InactiveRejected ELSE NoActiveMatches)
  /\ UNCHANGED crashed

(***************************************************************************)
(* processAsUpdate, structure mode, no match on an active camera: the 6DoF *)
(* fallback for inactive cameras is a todo (measurement_accepted = false), *)
(* without it the result is rejected; nothing reaches OpenVINS.            *)
(***************************************************************************)
UpdateInactiveCameras(n) ==
  /\ Dispose(n, IF Use6DofInactive THEN InactiveRejected ELSE NoActiveMatches)
  /\ UNCHANGED <<fed, crashed>>

(***************************************************************************)
(* processAsUpdate, structure mode, matches on an active camera: take the  *)
(* newest filter T_G_M (CHECK it exists), run the reprojection gate (CHECK *)
(* it processed a match); its verdict is only logged, and the per-camera   *)
(* landmark updates are a todo (measurement_accepted &= false).            *)
(***************************************************************************)
UpdateStructure(n) ==
  LET cams == obs[n].res.cams IN
  \/ /\ ~hasFilterBaseframe
     /\ Crash(CheckFilterBuffer)
  \/ /\ hasFilterBaseframe
     /\ NumMatchesProcessed(cams) = 0
     /\ Crash(CheckMatchesProcessed)
  \/ /\ hasFilterBaseframe
     /\ NumMatchesProcessed(cams) > 0
     /\ Dispose(n, StructureRejected)
     /\ UNCHANGED <<fed, crashed>>

(***************************************************************************)
(* processAsUpdate(current): the pose lookup must succeed (two CHECKs),    *)
(* then the update depends on the mode and on the active-camera matches.   *)
(***************************************************************************)
ProcessAsUpdate(n) ==
  LET st == GetPoseAt(poses, obs[n].ts) IN
  \/ /\ st = NotYetAvailable
     /\ Crash(CheckNotYetAvailable)
  \/ /\ st = WillNeverSucceed
     /\ Crash(CheckWillNeverSucceed)
  \/ /\ st = Success
     /\ Use6Dof
     /\ Update6Dof(n)
  \/ /\ st = Success
     /\ ~Use6Dof
     /\ NumValidMatches(obs[n].res.cams) = 0
     /\ UpdateInactiveCameras(n)
  \/ /\ st = Success
     /\ ~Use6Dof
     /\ NumValidMatches(obs[n].res.cams) # 0
     /\ UpdateStructure(n)

\* processLocalizationResultInternal(current), then back to the loop.
ProcessLocalizationResultInternal ==
  /\ crashed = NoCrash
  /\ pc = Process
  /\ pc' = Loop
  /\ \/ /\ locState \in {Uninitialized, NotLocalized}
        /\ InitializeBaseframe(current)
        /\ UNCHANGED <<fed, crashed>>
     \/ /\ locState = Localized
        /\ ProcessAsUpdate(current)
        /\ UNCHANGED <<locState, tgmLocBuffer, baseframe>>
  /\ UNCHANGED <<poses, hasFilterBaseframe, ovLocalized, locBuffer, newestTs,
                 current, obs>>
-----------------------------------------------------------------------------
\* After a failed CHECK the process is gone.
Aborted ==
  /\ crashed # NoCrash
  /\ UNCHANGED vars

\* All results delivered (the last one may be timestamped MaxTime) and
\* handled, OpenVINS at the end of the run.
InputsExhausted ==
  /\ crashed = NoCrash
  /\ pc = Idle
  /\ Len(obs) = NumObs \/ \E i \in DOMAIN obs : obs[i].ts = MaxTime
  /\ MaxTime \in poses
  /\ UNCHANGED vars

Next ==
  \/ \E t \in Times : OpenvinsOutput(t)
  \/ OpenvinsLocalizes
  \/ \E r \in LocResults, t \in Times : ProcessLocalizationResult(r, t)
  \/ DealNoPose
  \/ DealBegin
  \/ DealReturn
  \/ DealPop
  \/ ProcessLocalizationResultInternal
  \/ Aborted
  \/ InputsExhausted

(***************************************************************************)
(* The localization thread runs dealWithBufferedLocalizations to its end   *)
(* once called, and OpenVINS keeps publishing states while data flows.     *)
(***************************************************************************)
Fairness ==
  /\ WF_vars(DealNoPose \/ DealBegin \/ DealReturn \/ DealPop
               \/ ProcessLocalizationResultInternal)
  /\ WF_vars(\E t \in Times : OpenvinsOutput(t))

Spec == Init /\ [][Next]_vars /\ Fairness

-----------------------------------------------------------------------------
(***************************************************************************)
(* Refinement mapping to LocalizationAbstract: a result is waiting while   *)
(* its disposition is Pending (queued or being processed) and resolved     *)
(* otherwise; the abstract core is localized in kLocalized and halted      *)
(* once a CHECK has failed.                                                *)
(***************************************************************************)
AbsStatus ==
  [i \in DOMAIN disp |-> IF disp[i] = Pending THEN "waiting" ELSE "resolved"]

Abs == INSTANCE LocalizationAbstract
         WITH status <- AbsStatus,
              localized <- (locState = Localized),
              halted <- (crashed # NoCrash)

-----------------------------------------------------------------------------
(***************************************************************************)
(* processAsUpdate never hits CHECK(result != kFailedNotYetAvailable): the *)
(* drain loop only pops a result not newer than the newest T_M_I it read   *)
(* before the loop, and that read may be stale only towards the past, as   *)
(* the OpenVINS thread appends ever newer poses.                           *)
(***************************************************************************)
NoNotYetAvailableCheckFailure == crashed # CheckNotYetAvailable

(***************************************************************************)
(* processAsUpdate never hits CHECK(result != kFailedWillNeverSucceed):    *)
(* spec.md 4.4/7 say a result whose pose was evicted is dropped and        *)
(* recorded, never fatal; the result may wait in localization_buffer_      *)
(* while the OpenVINS thread evicts the poses around its timestamp.        *)
(***************************************************************************)
NoWillNeverSucceedCheckFailure == crashed # CheckWillNeverSucceed

(***************************************************************************)
(* processAsUpdate never hits CHECK(!T_G_M_filter_buffer_.empty()): the    *)
(* code comment says a filter update must have arrived before, although    *)
(* the handler's own baseframe initialization does not involve OpenVINS.   *)
(***************************************************************************)
NoFilterBufferCheckFailure == crashed # CheckFilterBuffer

(***************************************************************************)
(* getLocalizationReprojectionErrors never hits CHECK_GT(num_matches_      *)
(* processed, 0): processAsUpdate only calls it when num_valid_matches,    *)
(* counted separately over the active cameras, is not zero.               *)
(***************************************************************************)
NoEmptyMatchesCheckFailure == crashed # CheckMatchesProcessed

(***************************************************************************)
(* A result the consistency gate passes is not rejected (spec.md 4.4: an   *)
(* update with the gate accepted is forwarded; 8: rejected-consistency is  *)
(* the disposition of a gate failure). processAsUpdate computes the        *)
(* verdict, only logs a failure ("Will reset the localization") and then   *)
(* sets measurement_accepted &= false for every active camera.             *)
(***************************************************************************)
GatePassedNotRejected ==
  \A i \in DOMAIN disp :
    disp[i] = StructureRejected => ~GatePasses(obs[i].res.cams)

(***************************************************************************)
(* No localization result is fed to OpenVINS twice (spec.md 3: never fused *)
(* twice): processLocalizationResult feeds it, and processAsUpdate may     *)
(* feed it again after the drain loop.                                     *)
(***************************************************************************)
FedAtMostOnce == \A i, j \in DOMAIN fed : i # j => fed[i] # fed[j]

\* The results whose T_G_M entered T_G_M_loc_buffer_.
Inserted == {i \in DOMAIN disp : disp[i] \in EstimateInserted}

\* w lists, oldest first, the newest Len(q) inserted results, and q holds
\* their T_G_M estimates: every other inserted result is older than all of w.
IsWindow(w, q) ==
  /\ \A i \in DOMAIN q : w[i] \in Inserted /\ q[i] = obs[w[i]].res.est
  /\ \A i, j \in DOMAIN q : i < j => w[i] < w[j]
  /\ \A j \in Inserted \ {w[i] : i \in DOMAIN q} : \A i \in DOMAIN q : j < w[i]

(***************************************************************************)
(* Structure mode reaches kLocalized only on a consensus: T_G_M_loc_buffer_ *)
(* holds exactly the estimates of the last MinNumBaseframe results whose   *)
(* pose lookup succeeded, in arrival order, and at least                   *)
(* kNumInliersThreshold of them agree with the baseframe chosen by the     *)
(* RANSAC.                                                                 *)
(***************************************************************************)
InitConsensus ==
  (locState = Localized /\ ~Use6Dof) =>
    /\ Len(tgmLocBuffer) = MinNumBaseframe
    /\ \E w \in [1 .. MinNumBaseframe -> DOMAIN obs] : IsWindow(w, tgmLocBuffer)
    /\ Len(baseframe) = 1
    /\ NumInliers(tgmLocBuffer, baseframe[1]) >= KNumInliersThreshold

(***************************************************************************)
(* A disposition, once given, is never replaced (spec.md 3: a result is    *)
(* consumed exactly once; 7: one terminal disposition): the drain loop     *)
(* pops the result it hands to processLocalizationResultInternal, so no    *)
(* later round processes it again.                                         *)
(***************************************************************************)
DispositionFinal ==
  [][\A i \in DOMAIN disp :
       disp[i] # Pending => i \in DOMAIN disp' /\ disp'[i] = disp[i]]_vars

(***************************************************************************)
(* The handler implements the abstract fusion core: dispositions are final *)
(* and given in arrival order (the pending queue is a FIFO drained from    *)
(* its front, spec.md 5), the localization state changes only while a     *)
(* result is processed, and nothing changes after a failed CHECK.          *)
(***************************************************************************)
ImplementsAbstract == Abs!ASpec

(***************************************************************************)
(* Once called, dealWithBufferedLocalizations returns (or the process has  *)
(* aborted): its while(1) pops one result per round and nothing is queued  *)
(* meanwhile, as the same thread queues.                                   *)
(***************************************************************************)
DealTerminates == (pc # Idle) ~> (pc = Idle \/ crashed # NoCrash)

(***************************************************************************)
(* Every queued localization result eventually gets a disposition (spec.md *)
(* 4.4: retry once newer local poses arrive), unless the process aborted.  *)
(***************************************************************************)
EveryResultDisposed ==
  \A n \in 1 .. NumObs :
    (n <= Len(obs) /\ disp[n] = Pending)
      ~> (crashed # NoCrash \/ (n <= Len(obs) /\ disp[n] # Pending))
=============================================================================
