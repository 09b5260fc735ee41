--------------------- MODULE LocalizationHandlerProofs ----------------------
(***************************************************************************)
(* Proofs about LocalizationHandler, for every value of the constants that *)
(* satisfies their assumptions.                                            *)
(***************************************************************************)
EXTENDS LocalizationHandler, SequenceTheorems, TLAPS

(***************************************************************************)
(* The pose buffer always has a newest sample when it is not empty.  This  *)
(* is kept as part of the invariant rather than derived for every finite   *)
(* set: the OpenVINS thread only appends samples newer than all others.    *)
(***************************************************************************)
PosesHaveNewest == poses # {} => \E t \in poses : \A s \in poses : s <= t

(***************************************************************************)
(* Inductive invariant: the type invariant, the newest sample, the queue   *)
(* and the popped result referring to delivered results, and, while the    *)
(* drain loop runs, the newest timestamp it read being a lower bound of    *)
(* the newest pose and an upper bound of the popped result's timestamp.    *)
(***************************************************************************)
IInv ==
  /\ TypeOK
  /\ PosesHaveNewest
  /\ locBuffer \in Seq(1 .. Len(obs))
  /\ pc = Process => current \in 1 .. Len(obs)
  /\ pc \in {Loop, Process} => poses # {} /\ newestTs <= Newest(poses)
  /\ pc = Process => obs[current].ts <= newestTs
  /\ NoNotYetAvailableCheckFailure

USE PoseBufferAssumption, AlignmentAssumption, GateAssumption,
    HandlerAssumption
-----------------------------------------------------------------------------
(***************************************************************************)
(* Lemmas about the operators of the pose buffer and the fixed-size queue. *)
(***************************************************************************)

\* A set with a greatest element has it as Newest.
LEMMA NewestIsGreatest ==
  ASSUME NEW P, \E t \in P : \A s \in P : s <= t
  PROVE  /\ Newest(P) \in P
         /\ \A s \in P : s <= Newest(P)
BY DEF Newest

\* A sample newer than all others is kept by bufferOdometryEstimate and is
\* the greatest one of the buffer.
LEMMA BufferPoseNewest ==
  ASSUME NEW P \in SUBSET Int, NEW t \in Int, \A s \in P : s < t
  PROVE  /\ t \in BufferPose(P, t)
         /\ \A s \in BufferPose(P, t) : s <= t
         /\ BufferPose(P, t) \subseteq P \cup {t}
BY DEF BufferPose

\* getPoseAt does not report kFailedNotYetAvailable for a time no newer
\* than the newest sample.
LEMMA GetPoseAvailable ==
  ASSUME NEW P, P # {}, NEW t \in Int, Newest(P) \in Int, t <= Newest(P)
  PROVE  GetPoseAt(P, t) # NotYetAvailable
BY DEF GetPoseAt, NotYetAvailable, WillNeverSucceed, Success

\* FixedSizeQueue::insert keeps at most MinNumBaseframe elements of S.
LEMMA FixedSizeInsertType ==
  ASSUME NEW S, NEW q \in Seq(S), Len(q) <= MinNumBaseframe, NEW e \in S
  PROVE  /\ FixedSizeInsert(q, e) \in Seq(S)
         /\ Len(FixedSizeInsert(q, e)) <= MinNumBaseframe
         /\ Len(FixedSizeInsert(q, e)) >= 1
<1>1. CASE Len(q) < MinNumBaseframe
  BY <1>1, AppendProperties DEF FixedSizeInsert
<1>2. CASE ~(Len(q) < MinNumBaseframe)
  <2>1. q # <<>>
    BY <1>2
  <2>2. Tail(q) \in Seq(S) /\ Len(Tail(q)) = Len(q) - 1
    BY <2>1, HeadTailProperties
  <2>. QED
    BY <1>2, <2>2, AppendProperties DEF FixedSizeInsert
<1>. QED
  BY <1>1, <1>2

\* Recording a disposition for a delivered result keeps disp typed.
LEMMA DisposeType ==
  ASSUME TypeOK, NEW n \in 1 .. Len(obs), NEW d \in Dispositions, Dispose(n, d)
  PROVE  disp' \in Seq(Dispositions) /\ Len(disp') = Len(obs)
BY ExceptSeq DEF Dispose, TypeOK

\* A delivered result carries a T_G_M estimate.
LEMMA ObservationEstimate ==
  ASSUME TypeOK, NEW n \in 1 .. Len(obs)
  PROVE  /\ obs[n].res.est \in Estimates
         /\ obs[n].ts \in Times
<1>1. obs[n] \in Observation
  BY DEF TypeOK
<1>2. obs[n].res \in LocResults /\ obs[n].ts \in Times
  BY <1>1 DEF Observation
<1>3. \A r \in LocResults : r.est \in Estimates
  BY HandlerAssumption
<1>. QED
  BY <1>2, <1>3
-----------------------------------------------------------------------------
\* The initial state satisfies the inductive invariant.
LEMMA InitIInv == Init => IInv
<1>. SUFFICES ASSUME Init PROVE IInv
  OBVIOUS
<1>a. poses \subseteq Times /\ hasFilterBaseframe \in BOOLEAN /\ ovLocalized \in BOOLEAN
  BY DEF Init
<1>b. fed \in Seq(1 .. NumObs) /\ locBuffer \in Seq(1 .. NumObs)
  BY DEF Init
<1>c. locState \in LocalizationStates
  BY DEF Init, LocalizationStates
<1>d. tgmLocBuffer \in Seq(Estimates) /\ Len(tgmLocBuffer) <= MinNumBaseframe
  BY DEF Init
<1>e. baseframe \in Seq(Estimates) /\ Len(baseframe) <= 1
  BY DEF Init
<1>f. pc \in ThreadStates /\ newestTs \in 0 .. MaxTime /\ current \in 0 .. NumObs
  BY DEF Init, ThreadStates
<1>g. obs \in Seq(Observation) /\ Len(obs) <= NumObs
  BY DEF Init
<1>h. disp \in Seq(Dispositions) /\ Len(disp) = Len(obs) /\ crashed \in CrashStates
  BY DEF Init, CrashStates
<1>1. TypeOK
  BY <1>a, <1>b, <1>c, <1>d, <1>e, <1>f, <1>g, <1>h DEF TypeOK
<1>2. PosesHaveNewest /\ locBuffer \in Seq(1 .. Len(obs))
  BY DEF Init, PosesHaveNewest
<1>3. pc = Idle /\ NoNotYetAvailableCheckFailure
  BY DEF Init, NoNotYetAvailableCheckFailure, NoCrash, CheckNotYetAvailable
<1>4. Idle \notin {Loop, Process} /\ Idle # Process
  BY DEF Idle, Loop, Process
<1>. QED
  BY <1>1, <1>2, <1>3, <1>4 DEF IInv
-----------------------------------------------------------------------------
\* The control and check names are distinct strings.
LEMMA NamesDistinct ==
  /\ Idle # Deal /\ Idle # Loop /\ Idle # Process
  /\ Deal # Loop /\ Deal # Process /\ Loop # Process
  /\ NoCrash # CheckNotYetAvailable
  /\ CheckWillNeverSucceed # CheckNotYetAvailable
  /\ CheckFilterBuffer # CheckNotYetAvailable
  /\ CheckMatchesProcessed # CheckNotYetAvailable
  /\ Localized \in LocalizationStates
  /\ {Pending, FedDirectly, InitNoPose, InitCollected, InitRansacFailed,
      InitSucceeded, Updated6Dof, NoActiveMatches, InactiveRejected,
      StructureRejected} \subseteq Dispositions
  /\ {CheckWillNeverSucceed, CheckFilterBuffer, CheckMatchesProcessed}
       \subseteq CrashStates
  /\ {Deal, Loop, Process, Idle} \subseteq ThreadStates
BY DEF Idle, Deal, Loop, Process, NoCrash, CheckNotYetAvailable,
       CheckWillNeverSucceed, CheckFilterBuffer, CheckMatchesProcessed,
       Localized, LocalizationStates, Dispositions, CrashStates, ThreadStates

\* A new OpenVINS state keeps the invariant: the new sample is the newest,
\* so the timestamp read by the drain loop stays a lower bound.
LEMMA OpenvinsOutputIInv ==
  ASSUME IInv, NEW t \in Times, OpenvinsOutput(t)
  PROVE  IInv'
<1>1. poses \subseteq Int /\ t \in Int /\ \A s \in poses : s < t
  BY DEF IInv, TypeOK, OpenvinsOutput, Times
<1>2. /\ t \in poses'
      /\ \A s \in poses' : s <= t
      /\ poses' \subseteq Times
  <2>1. /\ t \in BufferPose(poses, t)
        /\ \A s \in BufferPose(poses, t) : s <= t
        /\ BufferPose(poses, t) \subseteq poses \cup {t}
    BY <1>1, BufferPoseNewest
  <2>2. poses' = BufferPose(poses, t) /\ poses \subseteq Times
    BY DEF OpenvinsOutput, IInv, TypeOK
  <2>. QED
    BY <2>1, <2>2
<1>3. PosesHaveNewest'
  BY <1>2 DEF PosesHaveNewest
<1>4. t <= Newest(poses') /\ Newest(poses') \in Times
  BY <1>2, NewestIsGreatest
<1>5. pc \in {Loop, Process} => poses' # {} /\ newestTs <= Newest(poses')
  <2>. SUFFICES ASSUME pc \in {Loop, Process} PROVE newestTs <= Newest(poses')
    BY <1>2
  <2>1. poses # {} /\ newestTs <= Newest(poses)
    BY DEF IInv
  <2>2. Newest(poses) \in poses
    BY <2>1, NewestIsGreatest DEF IInv, PosesHaveNewest
  <2>3. Newest(poses) < t /\ Newest(poses) \in Int
    BY <1>1, <2>2
  <2>4. newestTs \in Int
    BY DEF IInv, TypeOK
  <2>. QED
    BY <1>4, <2>1, <2>3, <2>4 DEF Times
<1>6. hasFilterBaseframe' \in BOOLEAN
  BY DEF OpenvinsOutput, IInv, TypeOK
<1>. QED
  BY <1>2, <1>3, <1>5, <1>6 DEF OpenvinsOutput, IInv, TypeOK,
                                NoNotYetAvailableCheckFailure

\* OpenVINS becoming localized touches nothing the invariant constrains.
LEMMA OpenvinsLocalizesIInv ==
  ASSUME IInv, OpenvinsLocalizes
  PROVE  IInv'
BY DEF OpenvinsLocalizes, IInv, TypeOK, PosesHaveNewest,
       NoNotYetAvailableCheckFailure

\* Delivering a result appends it to obs, and its id to fed and the queue.
LEMMA ProcessLocalizationResultIInv ==
  ASSUME IInv, NEW r \in LocResults, NEW t \in Times,
         ProcessLocalizationResult(r, t)
  PROVE  IInv'
<1>. DEFINE n == Len(obs) + 1
<1>1. /\ obs \in Seq(Observation) /\ Len(obs) < NumObs
      /\ fed \in Seq(1 .. NumObs) /\ locBuffer \in Seq(1 .. Len(obs))
      /\ disp \in Seq(Dispositions) /\ Len(disp) = Len(obs)
      /\ pc = Idle
  BY DEF IInv, TypeOK, ProcessLocalizationResult
<1>2. /\ obs' \in Seq(Observation) /\ Len(obs') = n /\ Len(obs') <= NumObs
      /\ n \in 1 .. NumObs
  <2>1. [ts |-> t, res |-> r] \in Observation
    BY DEF Observation
  <2>. QED
    BY <1>1, <2>1, AppendProperties DEF ProcessLocalizationResult
<1>3. fed' \in Seq(1 .. NumObs)
  BY <1>1, <1>2, AppendProperties DEF ProcessLocalizationResult
<1>4. locBuffer \in Seq(1 .. n)
  BY <1>1
<1>5. /\ locBuffer' \in Seq(1 .. Len(obs'))
      /\ locBuffer' \in Seq(1 .. NumObs)
      /\ disp' \in Seq(Dispositions) /\ Len(disp') = Len(obs')
      /\ pc' \in {Deal, Idle}
  <2>1. CASE BufferLocalizations
    <3>1. locBuffer' = Append(locBuffer, n) /\ pc' = Deal
          /\ disp' = Append(disp, Pending)
      BY <2>1 DEF ProcessLocalizationResult
    <3>2. locBuffer' \in Seq(1 .. n)
      BY <1>4, <3>1, AppendProperties
    <3>3. Seq(1 .. n) \subseteq Seq(1 .. NumObs)
      BY <1>2, SeqMonotonic
    <3>. QED
      BY <1>1, <1>2, <3>1, <3>2, <3>3, NamesDistinct, AppendProperties
  <2>2. CASE ~BufferLocalizations
    <3>1. locBuffer' = locBuffer /\ pc' = Idle
          /\ disp' = Append(disp, FedDirectly)
      BY <1>1, <2>2 DEF ProcessLocalizationResult
    <3>2. Seq(1 .. n) \subseteq Seq(1 .. NumObs)
      BY <1>2, SeqMonotonic
    <3>. QED
      BY <1>1, <1>2, <1>4, <3>1, <3>2, NamesDistinct, AppendProperties
  <2>. QED
    BY <2>1, <2>2
<1>. QED
  BY <1>2, <1>3, <1>5, NamesDistinct
  DEF ProcessLocalizationResult, IInv, TypeOK, PosesHaveNewest,
      NoNotYetAvailableCheckFailure

\* Returning from dealWithBufferedLocalizations before or inside the loop.
LEMMA DealNoPoseIInv ==
  ASSUME IInv, DealNoPose
  PROVE  IInv'
BY NamesDistinct DEF DealNoPose, IInv, TypeOK, PosesHaveNewest,
                     NoNotYetAvailableCheckFailure

LEMMA DealReturnIInv ==
  ASSUME IInv, DealReturn
  PROVE  IInv'
BY NamesDistinct DEF DealReturn, IInv, TypeOK, PosesHaveNewest,
                     NoNotYetAvailableCheckFailure

\* Reading the newest T_M_I timestamp: it is the newest sample.
LEMMA DealBeginIInv ==
  ASSUME IInv, DealBegin
  PROVE  IInv'
<1>1. poses # {} /\ Newest(poses) \in poses /\ poses \subseteq Times
  <2>1. poses # {} /\ poses \subseteq Times
    BY DEF DealBegin, IInv, TypeOK
  <2>2. \E t \in poses : \A s \in poses : s <= t
    BY <2>1 DEF IInv, PosesHaveNewest
  <2>. QED
    BY <2>1, <2>2, NewestIsGreatest
<1>2. newestTs' \in 0 .. MaxTime /\ newestTs' <= Newest(poses)
  <2>1. newestTs' = Newest(poses)
    BY DEF DealBegin
  <2>2. Newest(poses) \in 1 .. MaxTime
    BY <1>1 DEF Times
  <2>. QED
    BY <2>1, <2>2
<1>3. pc' = Loop /\ pc' # Process
  BY NamesDistinct DEF DealBegin
<1>. QED
  BY <1>1, <1>2, <1>3, NamesDistinct
  DEF DealBegin, IInv, TypeOK, PosesHaveNewest, NoNotYetAvailableCheckFailure

\* Popping the front: it is a delivered result not newer than newestTs.
LEMMA DealPopIInv ==
  ASSUME IInv, DealPop
  PROVE  IInv'
<1>1. locBuffer \in Seq(1 .. Len(obs)) /\ locBuffer # <<>>
      /\ Len(obs) <= NumObs
  BY DEF DealPop, IInv, TypeOK
<1>2. /\ Head(locBuffer) \in 1 .. Len(obs)
      /\ Tail(locBuffer) \in Seq(1 .. Len(obs))
  BY <1>1, HeadTailProperties
<1>3. /\ current' \in 1 .. Len(obs) /\ current' \in 0 .. NumObs
      /\ locBuffer' \in Seq(1 .. Len(obs))
      /\ locBuffer' \in Seq(1 .. NumObs)
  BY <1>1, <1>2 DEF DealPop
<1>4. obs[current'].ts <= newestTs /\ pc' = Process
  BY DEF DealPop
<1>5. pc \in {Loop, Process}
  BY DEF DealPop
<1>. QED
  BY <1>3, <1>4, <1>5, NamesDistinct
  DEF DealPop, IInv, TypeOK, PosesHaveNewest, NoNotYetAvailableCheckFailure

\* initializeBaseframe keeps the queue, the baseframe and disp typed.
LEMMA InitializeBaseframeType ==
  ASSUME TypeOK, NEW n \in 1 .. Len(obs), InitializeBaseframe(n)
  PROVE  /\ locState' \in LocalizationStates
         /\ tgmLocBuffer' \in Seq(Estimates)
         /\ Len(tgmLocBuffer') <= MinNumBaseframe
         /\ baseframe' \in Seq(Estimates) /\ Len(baseframe') <= 1
         /\ disp' \in Seq(Dispositions) /\ Len(disp') = Len(obs)
<1>. DEFINE q == FixedSizeInsert(tgmLocBuffer, obs[n].res.est)
<1>1. q \in Seq(Estimates) /\ Len(q) <= MinNumBaseframe
  <2>1. obs[n].res.est \in Estimates
    BY ObservationEstimate
  <2>. QED
    BY <2>1, FixedSizeInsertType DEF TypeOK
<1>2. CASE GetPoseAt(poses, obs[n].ts) # Success /\ Dispose(n, InitNoPose)
           /\ UNCHANGED <<tgmLocBuffer, locState, baseframe>>
  BY <1>2, NamesDistinct, DisposeType DEF TypeOK
<1>3. CASE tgmLocBuffer' = q /\ Dispose(n, InitCollected)
           /\ UNCHANGED <<locState, baseframe>>
  BY <1>1, <1>3, NamesDistinct, DisposeType DEF TypeOK
<1>4. CASE tgmLocBuffer' = q /\ Dispose(n, InitRansacFailed)
           /\ UNCHANGED <<locState, baseframe>>
  BY <1>1, <1>4, NamesDistinct, DisposeType DEF TypeOK
<1>5. CASE /\ tgmLocBuffer' = q
           /\ \E i \in DOMAIN q : /\ Dispose(n, InitSucceeded)
                                 /\ locState' = Localized
                                 /\ baseframe' = <<q[i]>>
  <2>1. PICK i \in DOMAIN q : /\ Dispose(n, InitSucceeded)
                             /\ locState' = Localized
                             /\ baseframe' = <<q[i]>>
    BY <1>5
  <2>2. q[i] \in Estimates
    BY <1>1
  <2>. QED
    BY <1>1, <1>5, <2>1, <2>2, NamesDistinct, DisposeType
<1>. QED
  BY <1>2, <1>3, <1>4, <1>5 DEF InitializeBaseframe

\* processAsUpdate, once the pose lookup is known to be available, keeps fed,
\* disp and crashed typed and never fails the kFailedNotYetAvailable CHECK.
LEMMA ProcessAsUpdateType ==
  ASSUME TypeOK, crashed = NoCrash, Len(obs) <= NumObs,
         NEW n \in 1 .. Len(obs),
         GetPoseAt(poses, obs[n].ts) # NotYetAvailable,
         ProcessAsUpdate(n)
  PROVE  /\ fed' \in Seq(1 .. NumObs)
         /\ disp' \in Seq(Dispositions) /\ Len(disp') = Len(obs)
         /\ crashed' \in CrashStates /\ crashed' # CheckNotYetAvailable
<1>1. n \in 1 .. NumObs
  OBVIOUS
<1>2. CASE Crash(CheckWillNeverSucceed) \/ Crash(CheckFilterBuffer)
           \/ Crash(CheckMatchesProcessed)
  BY <1>2, NamesDistinct DEF Crash, TypeOK
<1>3. CASE Update6Dof(n)
  BY <1>1, <1>3, NamesDistinct, DisposeType, AppendProperties
  DEF Update6Dof, TypeOK
<1>4. CASE UpdateInactiveCameras(n)
  <2>1. (IF Use6DofInactive THEN InactiveRejected ELSE NoActiveMatches)
          \in Dispositions
    BY NamesDistinct
  <2>. QED
    BY <1>4, <2>1, NamesDistinct, DisposeType DEF UpdateInactiveCameras, TypeOK
<1>5. CASE Dispose(n, StructureRejected) /\ UNCHANGED <<fed, crashed>>
  BY <1>5, NamesDistinct, DisposeType DEF TypeOK
<1>. QED
  BY <1>2, <1>3, <1>4, <1>5 DEF ProcessAsUpdate, UpdateStructure

\* processLocalizationResultInternal(current): the popped result is not newer
\* than the newest pose, so getPoseAt does not report it unavailable.
LEMMA ProcessLocalizationResultInternalIInv ==
  ASSUME IInv, ProcessLocalizationResultInternal
  PROVE  IInv'
<1>1. /\ TypeOK /\ crashed = NoCrash /\ pc = Process
      /\ current \in 1 .. Len(obs) /\ Len(obs) <= NumObs
  BY DEF IInv, TypeOK, ProcessLocalizationResultInternal
<1>2. GetPoseAt(poses, obs[current].ts) # NotYetAvailable
  <2>1. poses # {} /\ newestTs <= Newest(poses)
        /\ obs[current].ts <= newestTs
    BY <1>1, NamesDistinct DEF IInv
  <2>2. \E t \in poses : \A s \in poses : s <= t
    BY <2>1 DEF IInv, PosesHaveNewest
  <2>3. Newest(poses) \in Times
    BY <2>1, <2>2, NewestIsGreatest DEF IInv, TypeOK
  <2>4. obs[current].ts \in Times
    BY <1>1, ObservationEstimate
  <2>5. obs[current].ts <= Newest(poses) /\ Newest(poses) \in Int
    BY <2>1, <2>3, <2>4 DEF Times, IInv, TypeOK
  <2>. QED
    BY <2>1, <2>4, <2>5, GetPoseAvailable DEF Times
<1>3. /\ fed' \in Seq(1 .. NumObs)
      /\ locState' \in LocalizationStates
      /\ tgmLocBuffer' \in Seq(Estimates)
      /\ Len(tgmLocBuffer') <= MinNumBaseframe
      /\ baseframe' \in Seq(Estimates) /\ Len(baseframe') <= 1
      /\ disp' \in Seq(Dispositions) /\ Len(disp') = Len(obs)
      /\ crashed' \in CrashStates /\ crashed' # CheckNotYetAvailable
  <2>1. CASE InitializeBaseframe(current) /\ UNCHANGED <<fed, crashed>>
    BY <1>1, <2>1, InitializeBaseframeType, NamesDistinct DEF TypeOK, CrashStates
  <2>2. CASE ProcessAsUpdate(current)
             /\ UNCHANGED <<locState, tgmLocBuffer, baseframe>>
    BY <1>1, <1>2, <2>2, ProcessAsUpdateType DEF TypeOK
  <2>. QED
    BY <2>1, <2>2 DEF ProcessLocalizationResultInternal
<1>4. pc' = Loop /\ pc' # Process
  BY NamesDistinct DEF ProcessLocalizationResultInternal
<1>5. UNCHANGED <<poses, hasFilterBaseframe, ovLocalized, locBuffer, newestTs,
                  current, obs>>
  BY DEF ProcessLocalizationResultInternal
<1>. QED
  BY <1>1, <1>3, <1>4, <1>5, NamesDistinct
  DEF IInv, TypeOK, PosesHaveNewest, NoNotYetAvailableCheckFailure

\* The steps that change nothing.
LEMMA StutterIInv ==
  ASSUME IInv, Aborted \/ InputsExhausted \/ UNCHANGED vars
  PROVE  IInv'
BY DEF Aborted, InputsExhausted, vars, IInv, TypeOK, PosesHaveNewest,
       NoNotYetAvailableCheckFailure

\* Every step of the handler keeps the inductive invariant.
LEMMA NextIInv == IInv /\ [Next]_vars => IInv'
<1>. SUFFICES ASSUME IInv, [Next]_vars PROVE IInv'
  OBVIOUS
<1>1. CASE \E t \in Times : OpenvinsOutput(t)
  BY <1>1, OpenvinsOutputIInv
<1>2. CASE \E r \in LocResults, t \in Times : ProcessLocalizationResult(r, t)
  BY <1>2, ProcessLocalizationResultIInv
<1>. QED
  BY <1>1, <1>2, OpenvinsLocalizesIInv, DealNoPoseIInv, DealBeginIInv,
     DealReturnIInv, DealPopIInv, ProcessLocalizationResultInternalIInv,
     StutterIInv DEF Next
-----------------------------------------------------------------------------
(***************************************************************************)
(* Type correctness: every variable of the handler keeps its type in every *)
(* reachable state (localization_buffer_ and fed only hold ids of          *)
(* delivered results, T_G_M_loc_buffer_ never exceeds its capacity).       *)
(***************************************************************************)
THEOREM TypeCorrect == Spec => []TypeOK
<1>1. IInv => TypeOK
  BY DEF IInv
<1>. QED
  BY <1>1, InitIInv, NextIInv, PTL DEF Spec

(***************************************************************************)
(* processAsUpdate never fails CHECK(result != kFailedNotYetAvailable), for *)
(* every history length, propagation limit and number of results: the      *)
(* drain loop only pops a result not newer than the newest T_M_I it read,  *)
(* and the OpenVINS thread only appends newer poses after that read.       *)
(***************************************************************************)
THEOREM NotYetAvailableNeverFails == Spec => []NoNotYetAvailableCheckFailure
<1>1. IInv => NoNotYetAvailableCheckFailure
  BY DEF IInv
<1>. QED
  BY <1>1, InitIInv, NextIInv, PTL DEF Spec
-----------------------------------------------------------------------------
(***************************************************************************)
(* The two camera counts of the gate agree for every result: processAsUpdate *)
(* counts num_valid_matches over the active cameras, and                   *)
(* getLocalizationReprojectionErrors skips the inactive and the empty ones, *)
(* so both sum the same per-camera count.                                  *)
(***************************************************************************)
LEMMA GateCountsAgree ==
  ASSUME NEW cams
  PROVE  NumMatchesProcessed(cams) = NumValidMatches(cams)
<1>1. [c \in Cams |-> Len(ProcessedMatches(cams, c))]
        = [c \in Cams |-> IF c \in ActiveCams THEN Len(cams[c]) ELSE 0]
  BY DEF ProcessedMatches
<1>. QED
  BY <1>1 DEF NumMatchesProcessed, NumValidMatches

\* Only processAsUpdate can abort the process, and never on the
\* processed-match CHECK: its structure branch needs num_valid_matches # 0.
LEMMA NoEmptyMatchesStep ==
  ASSUME NoEmptyMatchesCheckFailure, [Next]_vars
  PROVE  NoEmptyMatchesCheckFailure'
<1>0. CheckMatchesProcessed \notin
        {NoCrash, CheckNotYetAvailable, CheckWillNeverSucceed, CheckFilterBuffer}
  BY DEF CheckMatchesProcessed, NoCrash, CheckNotYetAvailable,
         CheckWillNeverSucceed, CheckFilterBuffer
<1>1. CASE ProcessLocalizationResultInternal
  <2>1. CASE InitializeBaseframe(current) /\ UNCHANGED <<fed, crashed>>
    BY <1>1, <2>1, <1>0 DEF ProcessLocalizationResultInternal,
       NoEmptyMatchesCheckFailure
  <2>2. CASE ProcessAsUpdate(current)
    <3>1. CASE NumValidMatches(obs[current].res.cams) # 0
               /\ UpdateStructure(current)
      <4>1. NumMatchesProcessed(obs[current].res.cams) # 0
        BY <3>1, GateCountsAgree
      <4>. QED
        BY <3>1, <4>1, <1>0 DEF UpdateStructure, Crash, NoEmptyMatchesCheckFailure
    <3>. QED
      BY <2>2, <3>1, <1>0 DEF ProcessAsUpdate, Crash, Update6Dof,
         UpdateInactiveCameras, NoEmptyMatchesCheckFailure
  <2>. QED
    BY <1>1, <2>1, <2>2 DEF ProcessLocalizationResultInternal
<1>2. CASE ~ProcessLocalizationResultInternal
  <2>1. crashed' = crashed
    BY <1>2 DEF Next, vars, OpenvinsOutput, OpenvinsLocalizes,
       ProcessLocalizationResult, DealNoPose, DealBegin, DealReturn, DealPop,
       Aborted, InputsExhausted
  <2>. QED
    BY <2>1 DEF NoEmptyMatchesCheckFailure
<1>. QED
  BY <1>1, <1>2

(***************************************************************************)
(* getLocalizationReprojectionErrors never fails CHECK_GT(num_matches_      *)
(* processed, 0) (NoEmptyMatchesCheckFailure), for every number of cameras, *)
(* set of active cameras and result: the separate active-camera count of   *)
(* processAsUpdate guards the call.                                        *)
(***************************************************************************)
THEOREM EmptyMatchesNeverFail == Spec => []NoEmptyMatchesCheckFailure
<1>1. Init => NoEmptyMatchesCheckFailure
  BY DEF Init, NoEmptyMatchesCheckFailure, NoCrash, CheckMatchesProcessed
<1>. QED
  BY <1>1, NoEmptyMatchesStep, PTL DEF Spec
=============================================================================
