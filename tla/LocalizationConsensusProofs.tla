-------------------- MODULE LocalizationConsensusProofs ---------------------
(***************************************************************************)
(* Proof that structure mode reaches kLocalized only on a consensus of the *)
(* last MinNumBaseframe estimates (InitConsensus), for every value of the  *)
(* constants.                                                              *)
(***************************************************************************)
EXTENDS LocalizationRefinementProofs

(***************************************************************************)
(* Results are resolved oldest first: a resolved result has no pending     *)
(* result before it.  This is what makes the result initializeBaseframe   *)
(* inserts newer than every estimate already in T_G_M_loc_buffer_.        *)
(***************************************************************************)
PrefixResolved ==
  \A i, j \in 1 .. Len(disp) : i < j /\ disp[j] # Pending => disp[i] # Pending

(***************************************************************************)
(* T_G_M_loc_buffer_ always holds the estimates of the newest inserted     *)
(* results, and all of them while it is not full.                          *)
(***************************************************************************)
WindowInv ==
  \E w \in [DOMAIN tgmLocBuffer -> DOMAIN obs] :
    /\ IsWindow(w, tgmLocBuffer)
    /\ Len(tgmLocBuffer) < MinNumBaseframe =>
         Inserted \subseteq {w[i] : i \in DOMAIN tgmLocBuffer}

\* kLocalized in structure mode was reached by a successful RANSAC.
LocalizedOnInliers ==
  (locState = Localized /\ ~Use6Dof) =>
    /\ Len(tgmLocBuffer) = MinNumBaseframe
    /\ Len(baseframe) = 1
    /\ NumInliers(tgmLocBuffer, baseframe[1]) >= KNumInliersThreshold

CInv == RInv /\ PrefixResolved /\ WindowInv /\ LocalizedOnInliers
-----------------------------------------------------------------------------
\* Pending and the dispositions processAsUpdate gives are not insertions.
LEMMA InsertionNames ==
  /\ EstimateInserted \subseteq Dispositions \ {Pending}
  /\ FedDirectly \notin EstimateInserted
  /\ {Updated6Dof, NoActiveMatches, InactiveRejected, StructureRejected,
      InitNoPose} \cap EstimateInserted = {}
  /\ {InitCollected, InitRansacFailed, InitSucceeded} = EstimateInserted
BY DEF EstimateInserted, Dispositions, Pending, FedDirectly, InitNoPose,
       InitCollected, InitRansacFailed, InitSucceeded, Updated6Dof,
       NoActiveMatches, InactiveRejected, StructureRejected

\* Giving the pending result n disposition d adds n to the inserted results
\* exactly when d is an insertion.
LEMMA InsertedDispose ==
  ASSUME NEW n \in 1 .. Len(disp), disp \in Seq(Dispositions),
         disp[n] = Pending, NEW d \in Dispositions, Dispose(n, d)
  PROVE  Inserted' = IF d \in EstimateInserted THEN Inserted \cup {n}
                                               ELSE Inserted
BY InsertionNames DEF Dispose, Inserted

\* Appending a disposition that is not an insertion keeps the inserted set.
LEMMA InsertedAppend ==
  ASSUME disp \in Seq(Dispositions), NEW d \in Dispositions \ EstimateInserted,
         disp' = Append(disp, d)
  PROVE  Inserted' = Inserted
BY DEF Inserted

\* The window survives any step that keeps the queue and the inserted set and
\* only appends to the delivered results.
LEMMA WindowFrame ==
  ASSUME WindowInv, obs \in Seq(Observation),
         tgmLocBuffer' = tgmLocBuffer, Inserted' = Inserted,
         obs' = obs \/ \E o : obs' = Append(obs, o)
  PROVE  WindowInv'
<1>1. PICK w \in [DOMAIN tgmLocBuffer -> DOMAIN obs] :
        /\ IsWindow(w, tgmLocBuffer)
        /\ Len(tgmLocBuffer) < MinNumBaseframe =>
             Inserted \subseteq {w[i] : i \in DOMAIN tgmLocBuffer}
  BY DEF WindowInv
<1>2. /\ DOMAIN obs \subseteq DOMAIN obs'
      /\ \A i \in DOMAIN obs : obs'[i] = obs[i]
  BY AppendProperties
<1>3. w \in [DOMAIN tgmLocBuffer' -> DOMAIN obs']
  BY <1>1, <1>2
<1>4. IsWindow(w, tgmLocBuffer)'
  BY <1>1, <1>2 DEF IsWindow
<1>. QED
  BY <1>1, <1>3, <1>4 DEF WindowInv

(***************************************************************************)
(* FixedSizeQueue::insert of the estimate of a result newer than every     *)
(* inserted one keeps the window: the new result becomes its newest entry, *)
(* and the oldest one leaves once the queue is full.                       *)
(***************************************************************************)
LEMMA WindowInsert ==
  ASSUME WindowInv, tgmLocBuffer \in Seq(Estimates),
         Len(tgmLocBuffer) <= MinNumBaseframe,
         NEW n \in DOMAIN obs, \A j \in Inserted : j < n,
         Inserted' = Inserted \cup {n}, obs' = obs,
         tgmLocBuffer' = FixedSizeInsert(tgmLocBuffer, obs[n].res.est)
  PROVE  WindowInv'
<1>. DEFINE L == Len(tgmLocBuffer)
            e == obs[n].res.est
<1>1. PICK w \in [DOMAIN tgmLocBuffer -> DOMAIN obs] :
        /\ IsWindow(w, tgmLocBuffer)
        /\ L < MinNumBaseframe =>
             Inserted \subseteq {w[i] : i \in DOMAIN tgmLocBuffer}
  BY DEF WindowInv
<1>2. /\ \A i \in 1 .. L : w[i] \in Inserted /\ w[i] < n
      /\ \A i \in 1 .. L : tgmLocBuffer[i] = obs[w[i]].res.est
      /\ \A i, j \in 1 .. L : i < j => w[i] < w[j]
      /\ \A j \in Inserted \ {w[i] : i \in 1 .. L} : \A i \in 1 .. L : j < w[i]
  BY <1>1 DEF IsWindow
<1>3. CASE L < MinNumBaseframe
  <2>. DEFINE v == [i \in 1 .. L + 1 |-> IF i <= L THEN w[i] ELSE n]
  <2>1. tgmLocBuffer' = Append(tgmLocBuffer, e)
    BY <1>3 DEF FixedSizeInsert
  <2>2. /\ DOMAIN tgmLocBuffer' = 1 .. L + 1
        /\ \A i \in 1 .. L : tgmLocBuffer'[i] = tgmLocBuffer[i]
        /\ tgmLocBuffer'[L + 1] = e
    BY <2>1, AppendProperties
  <2>3. Inserted \subseteq {w[i] : i \in 1 .. L}
    BY <1>1, <1>3
  <2>4. v \in [DOMAIN tgmLocBuffer' -> DOMAIN obs']
    BY <1>1, <2>2
  <2>5. \A i \in 1 .. L + 1 : v[i] \in Inserted' /\ tgmLocBuffer'[i] = obs'[v[i]].res.est
    <3>1. \A i \in 1 .. L : v[i] = w[i] /\ v[i] \in Inserted'
                            /\ tgmLocBuffer'[i] = obs'[v[i]].res.est
      BY <1>2, <2>2
    <3>2. v[L + 1] = n /\ n \in Inserted' /\ tgmLocBuffer'[L + 1] = obs'[n].res.est
      <4>1. L \in Nat
        OBVIOUS
      <4>2. v[L + 1] = n
        BY <4>1
      <4>3. n \in Inserted'
        OBVIOUS
      <4>4. tgmLocBuffer'[L + 1] = obs'[n].res.est
        BY <2>2
      <4>. QED
        BY <4>2, <4>3, <4>4
    <3>3. ASSUME NEW i \in 1 .. L + 1 PROVE i \in 1 .. L \/ i = L + 1
      OBVIOUS
    <3>. QED
      BY <3>1, <3>2, <3>3, Zenon
  <2>6. \A i, j \in 1 .. L + 1 : i < j => v[i] < v[j]
    BY <1>2
  <2>7. Inserted' \subseteq {v[i] : i \in 1 .. L + 1}
    BY <2>3
  <2>. QED
    BY <2>2, <2>4, <2>5, <2>6, <2>7 DEF WindowInv, IsWindow
<1>4. CASE ~(L < MinNumBaseframe)
  <2>. DEFINE v == [i \in 1 .. L |-> IF i < L THEN w[i + 1] ELSE n]
  <2>0. L = MinNumBaseframe /\ L >= 1 /\ tgmLocBuffer # <<>>
    BY <1>4, AlignmentAssumption
  <2>1. tgmLocBuffer' = Append(Tail(tgmLocBuffer), e)
    BY <1>4 DEF FixedSizeInsert
  <2>2. /\ DOMAIN tgmLocBuffer' = 1 .. L /\ Len(tgmLocBuffer') = L
        /\ \A i \in 1 .. L - 1 : tgmLocBuffer'[i] = tgmLocBuffer[i + 1]
        /\ tgmLocBuffer'[L] = e
    <3>1. /\ Tail(tgmLocBuffer) \in Seq(Estimates) /\ Len(Tail(tgmLocBuffer)) = L - 1
          /\ \A i \in 1 .. L - 1 : Tail(tgmLocBuffer)[i] = tgmLocBuffer[i + 1]
      BY <2>0, HeadTailProperties
    <3>. QED
      BY <2>1, <3>1, AppendProperties
  <2>3. v \in [DOMAIN tgmLocBuffer' -> DOMAIN obs']
    BY <1>1, <2>0, <2>2
  <2>4. \A i \in 1 .. L : v[i] \in Inserted' /\ tgmLocBuffer'[i] = obs'[v[i]].res.est
    <3>1. \A i \in 1 .. L - 1 : v[i] = w[i + 1] /\ i + 1 \in 1 .. L
      BY <2>0
    <3>2. \A i \in 1 .. L - 1 : v[i] \in Inserted'
                                /\ tgmLocBuffer'[i] = obs'[v[i]].res.est
      BY <1>2, <2>2, <3>1
    <3>3. v[L] = n /\ n \in Inserted' /\ tgmLocBuffer'[L] = obs'[n].res.est
      BY <2>0, <2>2
    <3>4. ASSUME NEW i \in 1 .. L PROVE i \in 1 .. L - 1 \/ i = L
      BY <2>0
    <3>. QED
      BY <3>2, <3>3, <3>4, Zenon
  <2>5. \A i, j \in 1 .. L : i < j => v[i] < v[j]
    BY <1>2, <2>0
  <2>6. \A j \in Inserted' \ {v[i] : i \in 1 .. L} : \A i \in 1 .. L : j < v[i]
    <3>. SUFFICES ASSUME NEW j \in Inserted' \ {v[i] : i \in 1 .. L},
                        NEW i \in 1 .. L
                 PROVE  j < v[i]
      OBVIOUS
    <3>0. /\ v[L] = n
          /\ \A k \in 2 .. L : k - 1 \in 1 .. L /\ v[k - 1] = w[k]
      BY <2>0
    <3>1. j \in Inserted /\ j < n /\ \A k \in 2 .. L : j # w[k]
      <4>1. j \in Inserted' /\ \A k \in 1 .. L : j # v[k]
        OBVIOUS
      <4>2. j # n
        BY <4>1, <3>0, <2>0
      <4>. QED
        BY <4>1, <4>2, <3>0
    <3>2. j < w[1] \/ j = w[1]
      BY <1>2, <2>0, <3>1
    <3>3. \A k \in 2 .. L : w[1] < w[k]
      BY <1>2, <2>0
    <3>. QED
      BY <1>2, <2>0, <3>1, <3>2, <3>3
  <2>7. ~(Len(tgmLocBuffer') < MinNumBaseframe)
    BY <2>0, <2>2
  <2>. QED
    BY <2>2, <2>3, <2>4, <2>5, <2>6, <2>7 DEF WindowInv, IsWindow
<1>. QED
  BY <1>3, <1>4
-----------------------------------------------------------------------------
\* processAsUpdate leaves the dispositions alone or gives the result one that
\* is not an insertion.
LEMMA UpdateDispositions ==
  ASSUME NEW n, ProcessAsUpdate(n)
  PROVE  \/ disp' = disp
         \/ \E d \in {Updated6Dof, NoActiveMatches, InactiveRejected,
                      StructureRejected} : Dispose(n, d)
BY DEF ProcessAsUpdate, Crash, Update6Dof, UpdateInactiveCameras, UpdateStructure

\* While a result is processed, every inserted result is older.
LEMMA InsertedBeforeCurrent ==
  ASSUME CInv, pc = Process
  PROVE  \A j \in Inserted : j < current
<1>1. /\ disp \in Seq(Dispositions) /\ Len(disp) = Len(obs)
      /\ current \in 1 .. Len(obs) /\ disp[current] = Pending
  BY DEF CInv, RInv, IInv, TypeOK, FifoInv
<1>. SUFFICES ASSUME NEW j \in Inserted PROVE j < current
  OBVIOUS
<1>2. j \in 1 .. Len(disp) /\ disp[j] # Pending
  BY InsertionNames DEF Inserted
<1>3. ~(current < j)
  BY <1>1, <1>2 DEF CInv, PrefixResolved
<1>. QED
  BY <1>1, <1>2, <1>3

\* Results are still resolved oldest first after processing one: it was the
\* oldest pending result.
LEMMA PrefixProcess ==
  ASSUME CInv, ProcessLocalizationResultInternal
  PROVE  PrefixResolved'
<1>1. /\ disp \in Seq(Dispositions) /\ Len(disp) = Len(obs)
      /\ pc = Process /\ crashed = NoCrash /\ current \in 1 .. Len(obs)
      /\ locBuffer \in Seq(1 .. Len(obs))
  BY DEF CInv, RInv, IInv, TypeOK, ProcessLocalizationResultInternal
<1>2. \A i \in 1 .. Len(disp) : i < current => disp[i] # Pending
  <2>. SUFFICES ASSUME NEW i \in 1 .. Len(disp), i < current, disp[i] = Pending
               PROVE  FALSE
    OBVIOUS
  <2>1. \/ \E k \in 1 .. Len(locBuffer) : locBuffer[k] = i
        \/ pc = Process /\ i = current
    BY <1>1 DEF CInv, RInv, FifoInv
  <2>2. \A k \in 1 .. Len(locBuffer) : current < locBuffer[k]
    BY <1>1 DEF CInv, RInv, FifoInv
  <2>. QED
    BY <1>1, <2>1, <2>2
<1>3. CASE disp' = disp
  BY <1>3 DEF CInv, PrefixResolved
<1>4. CASE \E d \in Dispositions \ {Pending} : Dispose(current, d)
  <2>1. PICK d \in Dispositions \ {Pending} : Dispose(current, d)
    BY <1>4
  <2>2. /\ Len(disp') = Len(disp)
        /\ disp'[current] = d
        /\ \A i \in 1 .. Len(disp) \ {current} : disp'[i] = disp[i]
    BY <1>1, <2>1 DEF Dispose
  <2>. QED
    BY <1>1, <1>2, <2>2 DEF CInv, PrefixResolved
<1>. QED
  BY <1>3, <1>4, InternalEffect

(***************************************************************************)
(* initializeBaseframe keeps the window, and reaches kLocalized only with a *)
(* full queue and a RANSAC hypothesis with enough inliers.                 *)
(***************************************************************************)
LEMMA InitializeConsensus ==
  ASSUME CInv, ProcessLocalizationResultInternal,
         locState \in {Uninitialized, NotLocalized},
         InitializeBaseframe(current)
  PROVE  WindowInv' /\ LocalizedOnInliers'
<1>. DEFINE q == FixedSizeInsert(tgmLocBuffer, obs[current].res.est)
<1>1. /\ TypeOK /\ pc = Process /\ current \in 1 .. Len(obs)
      /\ disp[current] = Pending /\ obs' = obs
  BY DEF CInv, RInv, IInv, FifoInv, ProcessLocalizationResultInternal
<1>2. /\ obs[current].res.est \in Estimates
      /\ q \in Seq(Estimates) /\ Len(q) <= MinNumBaseframe
  <2>1. obs[current].res.est \in Estimates
    BY <1>1, ObservationEstimate
  <2>. QED
    BY <1>1, <2>1, FixedSizeInsertType DEF TypeOK
<1>3. locState # Localized
  BY DEF Uninitialized, NotLocalized, Localized
<1>4. \A j \in Inserted : j < current
  BY <1>1, InsertedBeforeCurrent
<1>5. ASSUME NEW d \in EstimateInserted, Dispose(current, d), tgmLocBuffer' = q
      PROVE  WindowInv'
  <2>1. Inserted' = Inserted \cup {current}
    BY <1>1, <1>5, InsertedDispose, InsertionNames DEF TypeOK
  <2>. QED
    BY <1>1, <1>4, <1>5, <2>1, WindowInsert DEF CInv, TypeOK
<1>6. CASE GetPoseAt(poses, obs[current].ts) # Success
           /\ Dispose(current, InitNoPose)
           /\ UNCHANGED <<tgmLocBuffer, locState, baseframe>>
  <2>1. Inserted' = Inserted
    BY <1>1, <1>6, InsertedDispose, InsertionNames, NamesDistinct DEF TypeOK
  <2>2. WindowInv'
    BY <1>1, <1>6, <2>1, WindowFrame DEF CInv, TypeOK
  <2>. QED
    BY <1>3, <1>6, <2>2 DEF LocalizedOnInliers
<1>7. CASE tgmLocBuffer' = q
           /\ \/ Dispose(current, InitCollected)
              \/ Dispose(current, InitRansacFailed)
           /\ UNCHANGED <<locState, baseframe>>
  <2>1. WindowInv'
    BY <1>7, <1>5, InsertionNames
  <2>. QED
    BY <1>3, <1>7, <2>1 DEF LocalizedOnInliers
<1>8. CASE /\ tgmLocBuffer' = q
           /\ Len(q) >= MinNumBaseframe
           /\ \E i \in DOMAIN q :
                /\ NumInliers(q, q[i]) >= KNumInliersThreshold
                /\ Dispose(current, InitSucceeded)
                /\ locState' = Localized
                /\ baseframe' = <<q[i]>>
  <2>1. PICK i \in DOMAIN q :
          /\ NumInliers(q, q[i]) >= KNumInliersThreshold
          /\ Dispose(current, InitSucceeded)
          /\ locState' = Localized
          /\ baseframe' = <<q[i]>>
    BY <1>8
  <2>2. WindowInv'
    BY <1>8, <2>1, <1>5, InsertionNames
  <2>3. /\ Len(tgmLocBuffer') = MinNumBaseframe
        /\ Len(baseframe') = 1
        /\ NumInliers(tgmLocBuffer', baseframe'[1]) >= KNumInliersThreshold
    <3>1. Len(tgmLocBuffer') = MinNumBaseframe
      BY <1>2, <1>8, AlignmentAssumption
    <3>2. Len(baseframe') = 1 /\ baseframe'[1] = q[i]
      BY <2>1
    <3>3. NumInliers(tgmLocBuffer', baseframe'[1]) = NumInliers(q, q[i])
      BY <1>8, <3>2
    <3>. QED
      BY <2>1, <3>1, <3>2, <3>3
  <2>. QED
    BY <2>2, <2>3 DEF LocalizedOnInliers
<1>. QED
  BY <1>6, <1>7, <1>8 DEF InitializeBaseframe

\* processAsUpdate inserts nothing and leaves the queue and baseframe alone.
LEMMA UpdateConsensus ==
  ASSUME CInv, ProcessLocalizationResultInternal,
         ProcessAsUpdate(current),
         UNCHANGED <<locState, tgmLocBuffer, baseframe>>
  PROVE  WindowInv' /\ LocalizedOnInliers'
<1>1. /\ TypeOK /\ pc = Process /\ current \in 1 .. Len(obs)
      /\ disp[current] = Pending /\ obs' = obs
  BY DEF CInv, RInv, IInv, FifoInv, ProcessLocalizationResultInternal
<1>2. Inserted' = Inserted
  <2>1. CASE disp' = disp
    BY <2>1 DEF Inserted
  <2>2. CASE \E d \in {Updated6Dof, NoActiveMatches, InactiveRejected,
                       StructureRejected} : Dispose(current, d)
    BY <1>1, <2>2, InsertedDispose, InsertionNames, ResolvedNames DEF TypeOK
  <2>. QED
    BY <2>1, <2>2, UpdateDispositions
<1>. QED
  BY <1>1, <1>2, WindowFrame DEF CInv, TypeOK, LocalizedOnInliers

\* Delivering a result appends a pending one, or, without buffering, one fed
\* directly while nothing is pending.
LEMMA DeliverConsensus ==
  ASSUME CInv, NEW r \in LocResults, NEW t \in Times,
         ProcessLocalizationResult(r, t)
  PROVE  (PrefixResolved /\ WindowInv /\ LocalizedOnInliers)'
<1>1. /\ TypeOK
      /\ obs' = Append(obs, [ts |-> t, res |-> r])
      /\ UNCHANGED <<locState, tgmLocBuffer, baseframe>>
      /\ disp' = Append(disp, IF BufferLocalizations THEN Pending ELSE FedDirectly)
  BY DEF CInv, RInv, IInv, ProcessLocalizationResult
<1>2. /\ Len(disp') = Len(disp) + 1
      /\ \A i \in 1 .. Len(disp) : disp'[i] = disp[i]
  BY <1>1 DEF TypeOK
<1>3. PrefixResolved'
  <2>1. CASE BufferLocalizations
    BY <1>1, <1>2, <2>1 DEF CInv, PrefixResolved
  <2>2. CASE ~BufferLocalizations
    <3>1. \A i \in 1 .. Len(disp) : disp[i] # Pending
      BY <2>2 DEF CInv, RInv, FifoInv
    <3>. QED
      BY <1>2, <3>1 DEF PrefixResolved
  <2>. QED
    BY <2>1, <2>2
<1>4. Inserted' = Inserted
  <2>1. (IF BufferLocalizations THEN Pending ELSE FedDirectly)
          \in Dispositions \ EstimateInserted
    BY InsertionNames, NamesDistinct
  <2>. QED
    BY <1>1, <2>1, InsertedAppend DEF TypeOK
<1>. QED
  BY <1>1, <1>3, <1>4, WindowFrame DEF CInv, TypeOK, LocalizedOnInliers

\* The steps that give no disposition and touch neither the queue nor the state.
LEMMA FrameConsensus ==
  ASSUME CInv, UNCHANGED <<disp, obs, tgmLocBuffer, locState, baseframe>>
  PROVE  (PrefixResolved /\ WindowInv /\ LocalizedOnInliers)'
<1>1. Inserted' = Inserted
  BY DEF Inserted
<1>. QED
  BY <1>1, WindowFrame DEF CInv, RInv, IInv, TypeOK, PrefixResolved,
     LocalizedOnInliers

\* Every step keeps the strengthened invariant.
LEMMA CInvNext == CInv /\ [Next]_vars => CInv'
<1>. SUFFICES ASSUME CInv, [Next]_vars PROVE CInv'
  OBVIOUS
<1>1. RInv'
  BY NextIInv, FifoNext DEF CInv, RInv
<1>2. CASE \E r \in LocResults, t \in Times : ProcessLocalizationResult(r, t)
  BY <1>1, <1>2, DeliverConsensus DEF CInv
<1>3. CASE ProcessLocalizationResultInternal
  <2>1. PrefixResolved'
    BY <1>3, PrefixProcess
  <2>2. WindowInv' /\ LocalizedOnInliers'
    <3>1. CASE locState \in {Uninitialized, NotLocalized}
               /\ InitializeBaseframe(current)
      BY <1>3, <3>1, InitializeConsensus
    <3>2. CASE locState = Localized /\ ProcessAsUpdate(current)
               /\ UNCHANGED <<locState, tgmLocBuffer, baseframe>>
      BY <1>3, <3>2, UpdateConsensus
    <3>. QED
      BY <1>3, <3>1, <3>2 DEF ProcessLocalizationResultInternal
  <2>. QED
    BY <1>1, <2>1, <2>2 DEF CInv
<1>4. CASE \/ \E t \in Times : OpenvinsOutput(t)
           \/ OpenvinsLocalizes \/ DealNoPose \/ DealBegin \/ DealReturn
           \/ DealPop \/ Aborted \/ InputsExhausted \/ UNCHANGED vars
  <2>1. UNCHANGED <<disp, obs, tgmLocBuffer, locState, baseframe>>
    BY <1>4 DEF OpenvinsOutput, OpenvinsLocalizes, DealNoPose, DealBegin,
                DealReturn, DealPop, Aborted, InputsExhausted, vars
  <2>. QED
    BY <1>1, <2>1, FrameConsensus DEF CInv
<1>. QED
  BY <1>2, <1>3, <1>4 DEF Next

\* The initial state satisfies the strengthened invariant.
LEMMA CInvInit == Init => CInv
<1>. SUFFICES ASSUME Init PROVE CInv
  OBVIOUS
<1>1. RInv
  BY InitIInv, FifoInit DEF RInv
<1>2. disp = <<>> /\ tgmLocBuffer = <<>> /\ obs = <<>>
  BY DEF Init
<1>3. Inserted = {}
  BY <1>2 DEF Inserted
<1>4. WindowInv
  <2>1. [i \in {} |-> 0] \in [DOMAIN tgmLocBuffer -> DOMAIN obs]
    BY <1>2
  <2>. QED
    BY <1>2, <1>3, <2>1 DEF WindowInv, IsWindow
<1>5. LocalizedOnInliers
  BY DEF Init, LocalizedOnInliers, Uninitialized, Localized
<1>. QED
  BY <1>1, <1>2, <1>4, <1>5 DEF CInv, PrefixResolved

(***************************************************************************)
(* In structure-constraint mode the handler reaches kLocalized only on a   *)
(* consensus (InitConsensus), for every queue capacity, inlier ratio,      *)
(* number of RANSAC iterations and number of results: T_G_M_loc_buffer_    *)
(* then holds the estimates of the last MinNumBaseframe results whose pose *)
(* lookup succeeded, in arrival order, and the chosen baseframe has at     *)
(* least kNumInliersThreshold inliers among them.                          *)
(***************************************************************************)
THEOREM ConsensusBeforeLocalized == Spec => []InitConsensus
<1>1. CInv => InitConsensus
  <2>. SUFFICES ASSUME CInv, locState = Localized, ~Use6Dof
                PROVE  InitConsensus
    BY DEF InitConsensus
  <2>1. /\ Len(tgmLocBuffer) = MinNumBaseframe
        /\ Len(baseframe) = 1
        /\ NumInliers(tgmLocBuffer, baseframe[1]) >= KNumInliersThreshold
    BY DEF CInv, LocalizedOnInliers
  <2>2. DOMAIN tgmLocBuffer = 1 .. MinNumBaseframe
    BY <2>1 DEF CInv, RInv, IInv, TypeOK
  <2>3. \E w \in [1 .. MinNumBaseframe -> DOMAIN obs] : IsWindow(w, tgmLocBuffer)
    BY <2>2 DEF CInv, WindowInv
  <2>. QED
    BY <2>1, <2>3 DEF InitConsensus
<1>. QED
  BY <1>1, CInvInit, CInvNext, PTL DEF Spec
=============================================================================
