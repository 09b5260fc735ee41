------------------- MODULE LocalizationRefinementProofs ---------------------
(***************************************************************************)
(* Proof that LocalizationHandler implements LocalizationAbstract under    *)
(* the refinement mapping Abs, for every value of the constants.           *)
(***************************************************************************)
EXTENDS LocalizationHandlerProofs

(***************************************************************************)
(* The pending queue is the FIFO of the pending results: its ids are       *)
(* pending and increasing, the result being processed is pending and      *)
(* older than all queued ones, and, until a CHECK fails, every pending     *)
(* result is queued or being processed.  Without the buffering block       *)
(* nothing is ever pending.                                                *)
(***************************************************************************)
FifoInv ==
  /\ \A k \in 1 .. Len(locBuffer) : disp[locBuffer[k]] = Pending
  /\ \A k1, k2 \in 1 .. Len(locBuffer) : k1 < k2 => locBuffer[k1] < locBuffer[k2]
  /\ pc = Process =>
       /\ disp[current] = Pending
       /\ \A k \in 1 .. Len(locBuffer) : current < locBuffer[k]
  /\ crashed = NoCrash =>
       \A i \in 1 .. Len(disp) :
         disp[i] = Pending =>
           \/ \E k \in 1 .. Len(locBuffer) : locBuffer[k] = i
           \/ pc = Process /\ i = current
  /\ ~BufferLocalizations => \A i \in 1 .. Len(disp) : disp[i] # Pending

RInv == IInv /\ FifoInv
-----------------------------------------------------------------------------
\* The dispositions other than Pending, and the failed CHECKs, are distinct
\* from Pending and NoCrash.
LEMMA ResolvedNames ==
  /\ {FedDirectly, InitNoPose, InitCollected, InitRansacFailed, InitSucceeded,
      Updated6Dof, NoActiveMatches, InactiveRejected, StructureRejected}
       \subseteq Dispositions \ {Pending}
  /\ \A c \in {CheckNotYetAvailable, CheckWillNeverSucceed, CheckFilterBuffer,
               CheckMatchesProcessed} : c # NoCrash
BY DEF Dispositions, Pending, FedDirectly, InitNoPose, InitCollected,
       InitRansacFailed, InitSucceeded, Updated6Dof, NoActiveMatches,
       InactiveRejected, StructureRejected, NoCrash, CheckNotYetAvailable,
       CheckWillNeverSucceed, CheckFilterBuffer, CheckMatchesProcessed

(***************************************************************************)
(* What processLocalizationResultInternal does to the fusion state: it     *)
(* either fails a CHECK, leaving the dispositions and the state alone, or  *)
(* gives the popped result a final disposition and may enter kLocalized.   *)
(***************************************************************************)
LEMMA InternalEffect ==
  ASSUME ProcessLocalizationResultInternal
  PROVE  /\ pc' = Loop
         /\ UNCHANGED <<poses, hasFilterBaseframe, ovLocalized, locBuffer,
                        newestTs, current, obs>>
         /\ locState' \in {locState, Localized}
         /\ \/ /\ crashed' # NoCrash /\ disp' = disp /\ locState' = locState
            \/ /\ crashed' = NoCrash
               /\ \E d \in Dispositions \ {Pending} : Dispose(current, d)
<1>0. /\ pc' = Loop
      /\ UNCHANGED <<poses, hasFilterBaseframe, ovLocalized, locBuffer,
                     newestTs, current, obs>>
  BY DEF ProcessLocalizationResultInternal
<1>1. crashed = NoCrash
  BY DEF ProcessLocalizationResultInternal
<1>. SUFFICES /\ locState' \in {locState, Localized}
              /\ \/ /\ crashed' # NoCrash /\ disp' = disp /\ locState' = locState
                 \/ /\ crashed' = NoCrash
                    /\ \E d \in Dispositions \ {Pending} : Dispose(current, d)
  BY <1>0
<1>2. ASSUME NEW c \in {CheckNotYetAvailable, CheckWillNeverSucceed,
                        CheckFilterBuffer, CheckMatchesProcessed},
             Crash(c)
      PROVE  crashed' # NoCrash /\ disp' = disp
  BY <1>2, ResolvedNames DEF Crash
<1>3. CASE InitializeBaseframe(current) /\ UNCHANGED <<fed, crashed>>
  <2>. SUFFICES \E d \in Dispositions \ {Pending} : Dispose(current, d)
    BY <1>1, <1>3 DEF InitializeBaseframe
  <2>. QED
    BY <1>3, ResolvedNames DEF InitializeBaseframe
<1>4. CASE ProcessAsUpdate(current)
           /\ UNCHANGED <<locState, tgmLocBuffer, baseframe>>
  <2>1. CASE Crash(CheckNotYetAvailable) \/ Crash(CheckWillNeverSucceed)
             \/ Crash(CheckFilterBuffer) \/ Crash(CheckMatchesProcessed)
    BY <1>2, <1>4, <2>1
  <2>2. CASE Update6Dof(current) \/ UpdateInactiveCameras(current)
             \/ (Dispose(current, StructureRejected) /\ UNCHANGED <<fed, crashed>>)
    <3>1. (IF Use6DofInactive THEN InactiveRejected ELSE NoActiveMatches)
            \in Dispositions \ {Pending}
      BY ResolvedNames
    <3>. QED
      BY <1>1, <1>4, <2>2, <3>1, ResolvedNames
      DEF Update6Dof, UpdateInactiveCameras
  <2>. QED
    BY <1>4, <2>1, <2>2 DEF ProcessAsUpdate, UpdateStructure
<1>. QED
  BY <1>3, <1>4 DEF ProcessLocalizationResultInternal
-----------------------------------------------------------------------------
\* Steps that leave the dispositions, the queue and the thread alone.
LEMMA FifoFrame ==
  ASSUME FifoInv, UNCHANGED <<disp, locBuffer, current, crashed, pc>>
  PROVE  FifoInv'
BY DEF FifoInv

\* Steps of the drain loop that neither pop nor process a result.
LEMMA FifoFrameNoProcess ==
  ASSUME FifoInv, UNCHANGED <<disp, locBuffer, current, crashed>>,
         pc # Process, pc' # Process
  PROVE  FifoInv'
BY DEF FifoInv

LEMMA FifoInit == Init => FifoInv
<1>. SUFFICES ASSUME Init PROVE FifoInv
  OBVIOUS
<1>1. disp = <<>> /\ locBuffer = <<>> /\ pc = Idle
  BY DEF Init
<1>. QED
  BY <1>1, NamesDistinct DEF FifoInv

\* A delivered result is appended to the queue with the largest id so far,
\* or gets its disposition at once when nothing is buffered.
LEMMA FifoDeliver ==
  ASSUME RInv, NEW r \in LocResults, NEW t \in Times,
         ProcessLocalizationResult(r, t)
  PROVE  FifoInv'
<1>. DEFINE n == Len(obs) + 1
<1>1. /\ disp \in Seq(Dispositions) /\ Len(disp) = Len(obs)
      /\ locBuffer \in Seq(1 .. Len(obs))
      /\ pc = Idle /\ crashed = NoCrash
      /\ UNCHANGED <<current, crashed>>
  BY DEF RInv, IInv, TypeOK, ProcessLocalizationResult
<1>2. CASE BufferLocalizations
  <2>1. /\ disp' = Append(disp, Pending) /\ locBuffer' = Append(locBuffer, n)
        /\ pc' = Deal
    BY <1>2 DEF ProcessLocalizationResult
  <2>2. /\ Len(locBuffer') = Len(locBuffer) + 1
        /\ locBuffer'[Len(locBuffer')] = n
        /\ \A k \in 1 .. Len(locBuffer) : locBuffer'[k] = locBuffer[k]
        /\ \A k \in 1 .. Len(locBuffer) : locBuffer[k] \in 1 .. Len(obs)
    BY <1>1, <2>1
  <2>3. /\ Len(disp') = n /\ disp'[n] = Pending
        /\ \A i \in 1 .. Len(disp) : disp'[i] = disp[i]
    BY <1>1, <2>1
  <2>4. pc' # Process /\ pc # Process
    BY <1>1, <2>1, NamesDistinct
  <2>5. \A k \in 1 .. Len(locBuffer') : disp'[locBuffer'[k]] = Pending
    <3>1. \A k \in 1 .. Len(locBuffer) : disp[locBuffer[k]] = Pending
      BY DEF RInv, FifoInv
    <3>. SUFFICES ASSUME NEW k \in 1 .. Len(locBuffer')
                  PROVE  disp'[locBuffer'[k]] = Pending
      OBVIOUS
    <3>2. CASE k \in 1 .. Len(locBuffer)
      <4>1. locBuffer'[k] = locBuffer[k] /\ locBuffer[k] \in 1 .. Len(disp)
        BY <1>1, <2>2, <3>2
      <4>. QED
        BY <2>3, <3>1, <3>2, <4>1
    <3>3. CASE k = Len(locBuffer) + 1
      BY <2>2, <2>3, <3>3
    <3>. QED
      BY <1>1, <2>2, <3>2, <3>3
  <2>6. \A k1, k2 \in 1 .. Len(locBuffer') :
          k1 < k2 => locBuffer'[k1] < locBuffer'[k2]
    <3>1. \A k1, k2 \in 1 .. Len(locBuffer) :
            k1 < k2 => locBuffer[k1] < locBuffer[k2]
      BY DEF RInv, FifoInv
    <3>. QED
      BY <1>1, <2>2, <3>1
  <2>7. \A i \in 1 .. Len(disp') :
          disp'[i] = Pending => \E k \in 1 .. Len(locBuffer') : locBuffer'[k] = i
    <3>1. \A i \in 1 .. Len(disp) :
            disp[i] = Pending => \E k \in 1 .. Len(locBuffer) : locBuffer[k] = i
      BY <1>1, <2>4 DEF RInv, FifoInv
    <3>. SUFFICES ASSUME NEW i \in 1 .. Len(disp'), disp'[i] = Pending
                  PROVE  \E k \in 1 .. Len(locBuffer') : locBuffer'[k] = i
      OBVIOUS
    <3>2. CASE i = n
      <4>1. /\ Len(locBuffer) + 1 \in 1 .. Len(locBuffer')
            /\ locBuffer'[Len(locBuffer) + 1] = i
        BY <2>2, <3>2
      <4>. QED
        BY <4>1
    <3>3. CASE i \in 1 .. Len(disp)
      <4>1. disp[i] = Pending
        BY <2>3, <3>3
      <4>2. PICK k \in 1 .. Len(locBuffer) : locBuffer[k] = i
        BY <3>1, <3>3, <4>1
      <4>3. k \in 1 .. Len(locBuffer') /\ locBuffer'[k] = i
        BY <2>2, <4>2
      <4>. QED
        BY <4>3
    <3>. QED
      BY <1>1, <2>3, <3>2, <3>3
  <2>. QED
    BY <1>2, <2>4, <2>5, <2>6, <2>7 DEF FifoInv
<1>3. CASE ~BufferLocalizations
  <2>1. /\ disp' = Append(disp, FedDirectly) /\ locBuffer' = locBuffer
        /\ pc' = pc
    BY <1>3 DEF ProcessLocalizationResult
  <2>2. /\ Len(disp') = n /\ disp'[n] = FedDirectly
        /\ \A i \in 1 .. Len(disp) : disp'[i] = disp[i]
    BY <1>1, <2>1
  <2>3. FedDirectly # Pending /\ pc # Process
    BY <1>1, ResolvedNames, NamesDistinct
  <2>4. \A i \in 1 .. Len(disp') : disp'[i] # Pending
    <3>1. \A i \in 1 .. Len(disp) : disp[i] # Pending
      BY <1>3 DEF RInv, FifoInv
    <3>. QED
      BY <1>1, <2>2, <2>3, <3>1
  <2>5. \A k \in 1 .. Len(locBuffer) : disp'[locBuffer[k]] = Pending
    <3>1. \A k \in 1 .. Len(locBuffer) : disp[locBuffer[k]] = Pending
      BY DEF RInv, FifoInv
    <3>2. \A k \in 1 .. Len(locBuffer) : locBuffer[k] \in 1 .. Len(disp)
      BY <1>1
    <3>. QED
      BY <2>2, <3>1, <3>2
  <2>6. \A k1, k2 \in 1 .. Len(locBuffer) : k1 < k2 => locBuffer[k1] < locBuffer[k2]
    BY DEF RInv, FifoInv
  <2>. QED
    BY <1>3, <2>1, <2>3, <2>4, <2>5, <2>6 DEF FifoInv
<1>. QED
  BY <1>2, <1>3

\* Popping the front turns it into the result being processed.
LEMMA FifoPop ==
  ASSUME RInv, DealPop
  PROVE  FifoInv'
<1>1. /\ locBuffer \in Seq(1 .. Len(obs)) /\ locBuffer # <<>>
      /\ pc = Loop /\ pc' = Process
      /\ current' = locBuffer[1] /\ locBuffer' = Tail(locBuffer)
      /\ UNCHANGED <<disp, crashed>>
  BY DEF RInv, IInv, DealPop
<1>2. /\ Len(locBuffer') = Len(locBuffer) - 1
      /\ \A k \in 1 .. Len(locBuffer') : locBuffer'[k] = locBuffer[k + 1]
  BY <1>1
<1>3. pc # Process
  BY <1>1, NamesDistinct
<1>4. /\ \A k \in 1 .. Len(locBuffer) : disp[locBuffer[k]] = Pending
      /\ \A k1, k2 \in 1 .. Len(locBuffer) :
           k1 < k2 => locBuffer[k1] < locBuffer[k2]
      /\ crashed = NoCrash =>
           \A i \in 1 .. Len(disp) :
             disp[i] = Pending => \E k \in 1 .. Len(locBuffer) : locBuffer[k] = i
      /\ ~BufferLocalizations => \A i \in 1 .. Len(disp) : disp[i] # Pending
  BY <1>3 DEF RInv, FifoInv
<1>5. Len(locBuffer) >= 1
  BY <1>1
<1>6. \A k \in 1 .. Len(locBuffer') : disp'[locBuffer'[k]] = Pending
  BY <1>1, <1>2, <1>4
<1>7. \A k1, k2 \in 1 .. Len(locBuffer') :
        k1 < k2 => locBuffer'[k1] < locBuffer'[k2]
  BY <1>2, <1>4
<1>8. disp'[current'] = Pending
      /\ \A k \in 1 .. Len(locBuffer') : current' < locBuffer'[k]
  BY <1>1, <1>2, <1>4, <1>5
<1>9. crashed' = NoCrash =>
        \A i \in 1 .. Len(disp') :
          disp'[i] = Pending =>
            \/ \E k \in 1 .. Len(locBuffer') : locBuffer'[k] = i
            \/ pc' = Process /\ i = current'
  <2>. SUFFICES ASSUME crashed' = NoCrash, NEW i \in 1 .. Len(disp'),
                      disp'[i] = Pending, i # current'
               PROVE  \E k \in 1 .. Len(locBuffer') : locBuffer'[k] = i
    BY <1>1
  <2>1. PICK k \in 1 .. Len(locBuffer) : locBuffer[k] = i
    BY <1>1, <1>4
  <2>2. k # 1
    BY <1>1, <2>1
  <2>3. k - 1 \in 1 .. Len(locBuffer') /\ locBuffer'[k - 1] = i
    BY <1>2, <2>1, <2>2
  <2>. QED
    BY <2>3
<1>. QED
  BY <1>1, <1>4, <1>6, <1>7, <1>8, <1>9 DEF FifoInv

\* Processing the popped result resolves it, or fails a CHECK.
LEMMA FifoProcess ==
  ASSUME RInv, ProcessLocalizationResultInternal
  PROVE  FifoInv'
<1>1. /\ TypeOK /\ pc = Process /\ current \in 1 .. Len(obs)
      /\ locBuffer \in Seq(1 .. Len(obs))
      /\ disp[current] = Pending
      /\ \A k \in 1 .. Len(locBuffer) : current < locBuffer[k]
      /\ \A k \in 1 .. Len(locBuffer) : disp[locBuffer[k]] = Pending
      /\ \A k1, k2 \in 1 .. Len(locBuffer) :
           k1 < k2 => locBuffer[k1] < locBuffer[k2]
      /\ \A i \in 1 .. Len(disp) :
           disp[i] = Pending =>
             \/ \E k \in 1 .. Len(locBuffer) : locBuffer[k] = i
             \/ pc = Process /\ i = current
      /\ ~BufferLocalizations => \A i \in 1 .. Len(disp) : disp[i] # Pending
  BY DEF RInv, IInv, FifoInv, TypeOK, ProcessLocalizationResultInternal
<1>2. /\ pc' = Loop /\ pc' # Process
      /\ UNCHANGED <<locBuffer, current, obs>>
  BY InternalEffect, NamesDistinct
<1>3. CASE crashed' # NoCrash /\ disp' = disp
  BY <1>1, <1>2, <1>3 DEF FifoInv
<1>4. CASE crashed' = NoCrash /\ \E d \in Dispositions \ {Pending} : Dispose(current, d)
  <2>1. PICK d \in Dispositions \ {Pending} : Dispose(current, d)
    BY <1>4
  <2>2. /\ Len(disp') = Len(disp) /\ disp'[current] = d
        /\ \A i \in 1 .. Len(disp) : i # current => disp'[i] = disp[i]
    BY <1>1, <2>1, DisposeType, ExceptSeq DEF Dispose, TypeOK
  <2>3. \A k \in 1 .. Len(locBuffer) : disp'[locBuffer[k]] = Pending
    <3>. SUFFICES ASSUME NEW k \in 1 .. Len(locBuffer)
                  PROVE  disp'[locBuffer[k]] = Pending
      OBVIOUS
    <3>1. locBuffer[k] \in 1 .. Len(disp) /\ locBuffer[k] # current
      BY <1>1 DEF TypeOK
    <3>. QED
      BY <1>1, <2>2, <3>1
  <2>4. \A i \in 1 .. Len(disp') :
          disp'[i] = Pending => \E k \in 1 .. Len(locBuffer) : locBuffer[k] = i
    BY <1>1, <2>1, <2>2
  <2>5. ~BufferLocalizations => \A i \in 1 .. Len(disp') : disp'[i] # Pending
    BY <1>1, <2>1, <2>2
  <2>. QED
    BY <1>1, <1>2, <2>3, <2>4, <2>5 DEF FifoInv
<1>. QED
  BY <1>3, <1>4, InternalEffect

\* Every step of the handler keeps the FIFO invariant.
LEMMA FifoNext == RInv /\ [Next]_vars => FifoInv'
<1>. SUFFICES ASSUME RInv, [Next]_vars PROVE FifoInv'
  OBVIOUS
<1>0. FifoInv
  BY DEF RInv
<1>1. CASE \E t \in Times : OpenvinsOutput(t)
  BY <1>0, <1>1, FifoFrame DEF OpenvinsOutput
<1>2. CASE OpenvinsLocalizes
  BY <1>0, <1>2, FifoFrame DEF OpenvinsLocalizes
<1>3. CASE \E r \in LocResults, t \in Times : ProcessLocalizationResult(r, t)
  BY <1>3, FifoDeliver
<1>4. CASE DealNoPose \/ DealBegin \/ DealReturn
  BY <1>0, <1>4, FifoFrameNoProcess, NamesDistinct
  DEF DealNoPose, DealBegin, DealReturn
<1>5. CASE DealPop
  BY <1>5, FifoPop
<1>6. CASE ProcessLocalizationResultInternal
  BY <1>6, FifoProcess
<1>7. CASE Aborted \/ InputsExhausted \/ UNCHANGED vars
  BY <1>0, <1>7, FifoFrame DEF Aborted, InputsExhausted, vars
<1>. QED
  BY <1>1, <1>2, <1>3, <1>4, <1>5, <1>6, <1>7 DEF Next
-----------------------------------------------------------------------------
\* The refinement mapping of the status, over any disposition sequence.
StatusOf(d) == [i \in DOMAIN d |-> IF d[i] = Pending THEN "waiting" ELSE "resolved"]

LEMMA AbsStatusDef == AbsStatus = StatusOf(disp) /\ AbsStatus' = StatusOf(disp')
BY DEF AbsStatus, StatusOf

\* Appending a disposition appends its status.
LEMMA StatusOfAppend ==
  ASSUME NEW d \in Seq(Dispositions), NEW x \in Dispositions
  PROVE  StatusOf(Append(d, x))
           = Append(StatusOf(d), IF x = Pending THEN "waiting" ELSE "resolved")
<1>1. StatusOf(d) \in Seq({"waiting", "resolved"}) /\ Len(StatusOf(d)) = Len(d)
  BY DEF StatusOf
<1>. QED
  BY <1>1, AppendProperties DEF StatusOf

\* Giving a result a final disposition resolves its status.
LEMMA StatusOfResolve ==
  ASSUME NEW d \in Seq(Dispositions), NEW n \in 1 .. Len(d),
         NEW x \in Dispositions \ {Pending}
  PROVE  StatusOf([d EXCEPT ![n] = x]) = [StatusOf(d) EXCEPT ![n] = "resolved"]
BY DEF StatusOf
-----------------------------------------------------------------------------
\* Steps that leave the dispositions, the state and the CHECKs alone stutter.
LEMMA AbsStutter ==
  ASSUME UNCHANGED <<disp, locState, crashed>>
  PROVE  UNCHANGED Abs!avars
BY AbsStatusDef DEF Abs!avars

\* Delivering a result is an abstract Deliver.
LEMMA RefineDeliver ==
  ASSUME RInv, NEW r \in LocResults, NEW t \in Times,
         ProcessLocalizationResult(r, t)
  PROVE  Abs!Deliver
<1>1. /\ disp \in Seq(Dispositions) /\ crashed = NoCrash
      /\ UNCHANGED <<locState, crashed>>
  BY DEF RInv, IInv, TypeOK, ProcessLocalizationResult
<1>2. CASE BufferLocalizations
  <2>1. disp' = Append(disp, Pending)
    BY <1>2 DEF ProcessLocalizationResult
  <2>2. AbsStatus' = Append(AbsStatus, "waiting")
    BY <1>1, <2>1, NamesDistinct, StatusOfAppend, AbsStatusDef
  <2>. QED
    BY <1>1, <2>2 DEF Abs!Deliver, Abs!Waiting
<1>3. CASE ~BufferLocalizations
  <2>1. disp' = Append(disp, FedDirectly)
    BY <1>3 DEF ProcessLocalizationResult
  <2>2. AbsStatus' = Append(AbsStatus, "resolved")
    BY <1>1, <2>1, ResolvedNames, StatusOfAppend, AbsStatusDef
  <2>3. \A j \in DOMAIN AbsStatus : AbsStatus[j] = "resolved"
    <3>1. \A i \in 1 .. Len(disp) : disp[i] # Pending
      BY <1>3 DEF RInv, FifoInv
    <3>. QED
      BY <1>1, <3>1 DEF AbsStatus
  <2>. QED
    BY <1>1, <2>2, <2>3 DEF Abs!Deliver, Abs!Resolved
<1>. QED
  BY <1>2, <1>3

\* Processing the popped result resolves the oldest waiting result, or halts.
LEMMA RefineProcess ==
  ASSUME RInv, ProcessLocalizationResultInternal
  PROVE  Abs!Resolve \/ Abs!Halt
<1>1. /\ disp \in Seq(Dispositions) /\ Len(disp) = Len(obs)
      /\ crashed = NoCrash /\ pc = Process /\ current \in 1 .. Len(obs)
      /\ disp[current] = Pending
      /\ \A k \in 1 .. Len(locBuffer) : current < locBuffer[k]
      /\ \A i \in 1 .. Len(disp) :
           disp[i] = Pending =>
             \/ \E k \in 1 .. Len(locBuffer) : locBuffer[k] = i
             \/ pc = Process /\ i = current
  BY DEF RInv, IInv, FifoInv, TypeOK, ProcessLocalizationResultInternal
<1>2. CASE crashed' # NoCrash /\ disp' = disp /\ locState' = locState
  BY <1>1, <1>2, AbsStatusDef DEF Abs!Halt
<1>3. CASE crashed' = NoCrash /\ \E d \in Dispositions \ {Pending} : Dispose(current, d)
  <2>1. PICK d \in Dispositions \ {Pending} : Dispose(current, d)
    BY <1>3
  <2>2. AbsStatus' = [AbsStatus EXCEPT ![current] = "resolved"]
    BY <1>1, <2>1, StatusOfResolve, AbsStatusDef DEF Dispose
  <2>3. /\ current \in DOMAIN AbsStatus
        /\ AbsStatus[current] = "waiting"
        /\ \A j \in 1 .. current - 1 : AbsStatus[j] = "resolved"
    <3>1. \A j \in 1 .. current - 1 : disp[j] # Pending
      BY <1>1
    <3>. QED
      BY <1>1, <3>1 DEF AbsStatus
  <2>4. (locState' = Localized) \in BOOLEAN
    OBVIOUS
  <2>. QED
    BY <1>1, <1>3, <2>2, <2>3, <2>4
    DEF Abs!Resolve, Abs!OldestWaiting, Abs!Waiting, Abs!Resolved
<1>. QED
  BY <1>2, <1>3, InternalEffect

\* Every handler step is an abstract step or a stutter under the mapping.
LEMMA RefineNext == RInv /\ [Next]_vars => [Abs!ANext]_Abs!avars
<1>. SUFFICES ASSUME RInv, [Next]_vars PROVE [Abs!ANext]_Abs!avars
  OBVIOUS
<1>1. CASE \E r \in LocResults, t \in Times : ProcessLocalizationResult(r, t)
  BY <1>1, RefineDeliver DEF Abs!ANext
<1>2. CASE ProcessLocalizationResultInternal
  BY <1>2, RefineProcess DEF Abs!ANext
<1>3. CASE \/ \E t \in Times : OpenvinsOutput(t)
           \/ OpenvinsLocalizes \/ DealNoPose \/ DealBegin \/ DealReturn
           \/ DealPop \/ Aborted \/ InputsExhausted \/ UNCHANGED vars
  <2>1. UNCHANGED <<disp, locState, crashed>>
    BY <1>3 DEF OpenvinsOutput, OpenvinsLocalizes, DealNoPose, DealBegin,
                DealReturn, DealPop, Aborted, InputsExhausted, vars
  <2>. QED
    BY <2>1, AbsStutter
<1>. QED
  BY <1>1, <1>2, <1>3 DEF Next

\* The initial state maps to an initial abstract state.
LEMMA RefineInit == Init => Abs!AInit
BY AbsStatusDef DEF Init, Abs!AInit, StatusOf

\* The queue invariant holds in every reachable state.
LEMMA RInvInvariant == Spec => []RInv
<1>1. Init => RInv
  BY InitIInv, FifoInit DEF RInv
<1>2. RInv /\ [Next]_vars => RInv'
  BY NextIInv, FifoNext DEF RInv
<1>. QED
  BY <1>1, <1>2, PTL DEF Spec

(***************************************************************************)
(* The handler implements the abstract fusion core (ImplementsAbstract),   *)
(* for every value of the constants: dispositions are final and given in   *)
(* arrival order, as the pending queue is drained from its front, the     *)
(* localization state changes only while a result is processed, and a      *)
(* failed CHECK ends all activity.                                         *)
(***************************************************************************)
THEOREM Refinement == Spec => ImplementsAbstract
<1>. QED
  BY RInvInvariant, RefineInit, RefineNext, PTL DEF Spec, ImplementsAbstract, Abs!ASpec
-----------------------------------------------------------------------------
\* The step of DispositionFinal: every given disposition is kept.
DispositionKept ==
  \A i \in DOMAIN disp :
    disp[i] # Pending => i \in DOMAIN disp' /\ disp'[i] = disp[i]

\* Only the pending result being processed gets a disposition, and a
\* delivered result is appended behind the others.
LEMMA DispositionKeptStep == RInv /\ [Next]_vars => DispositionKept
<1>. SUFFICES ASSUME RInv, [Next]_vars PROVE DispositionKept
  OBVIOUS
<1>0. disp \in Seq(Dispositions)
  BY DEF RInv, IInv, TypeOK
<1>1. CASE \E r \in LocResults, t \in Times : ProcessLocalizationResult(r, t)
  <2>1. \E x : disp' = Append(disp, x)
    BY <1>1 DEF ProcessLocalizationResult
  <2>. QED
    BY <1>0, <2>1 DEF DispositionKept
<1>2. CASE ProcessLocalizationResultInternal
  <2>1. pc = Process /\ disp[current] = Pending /\ current \in 1 .. Len(disp)
    BY <1>2 DEF ProcessLocalizationResultInternal, RInv, FifoInv, IInv, TypeOK
  <2>2. CASE disp' = disp
    BY <2>2 DEF DispositionKept
  <2>3. CASE \E d \in Dispositions \ {Pending} : Dispose(current, d)
    BY <1>0, <2>1, <2>3 DEF Dispose, DispositionKept
  <2>. QED
    BY <1>2, <2>2, <2>3, InternalEffect
<1>3. CASE \/ \E t \in Times : OpenvinsOutput(t)
           \/ OpenvinsLocalizes \/ DealNoPose \/ DealBegin \/ DealReturn
           \/ DealPop \/ Aborted \/ InputsExhausted \/ UNCHANGED vars
  <2>1. disp' = disp
    BY <1>3 DEF OpenvinsOutput, OpenvinsLocalizes, DealNoPose, DealBegin,
                DealReturn, DealPop, Aborted, InputsExhausted, vars
  <2>. QED
    BY <2>1 DEF DispositionKept
<1>. QED
  BY <1>1, <1>2, <1>3 DEF Next

(***************************************************************************)
(* No disposition is ever replaced (DispositionFinal), for every value of  *)
(* the constants: processLocalizationResultInternal only runs on the       *)
(* result the drain loop popped, which is still pending.                   *)
(***************************************************************************)
THEOREM DispositionsFinal == Spec => DispositionFinal
<1>1. RInv /\ [Next]_vars => [DispositionKept]_vars
  BY DispositionKeptStep
<1>. QED
  BY <1>1, RInvInvariant, PTL DEF Spec, DispositionFinal, DispositionKept
-----------------------------------------------------------------------------
(***************************************************************************)
(* feed_measurement_localization has been called exactly once per          *)
(* delivered result, in arrival order.                                     *)
(***************************************************************************)
FedInOrder == fed = [i \in 1 .. Len(obs) |-> i]

\* Unless buffering is compiled in together with 6DoF mode, only
\* processLocalizationResult feeds OpenVINS.
LEMMA FedInOrderStep ==
  ASSUME ~(Use6Dof /\ BufferLocalizations), RInv, FedInOrder, [Next]_vars
  PROVE  FedInOrder'
<1>1. CASE \E r \in LocResults, t \in Times : ProcessLocalizationResult(r, t)
  <2>1. PICK r \in LocResults, t \in Times : ProcessLocalizationResult(r, t)
    BY <1>1
  <2>2. /\ obs \in Seq(Observation)
        /\ obs' = Append(obs, [ts |-> t, res |-> r])
        /\ fed' = Append(fed, Len(obs) + 1)
    BY <2>1 DEF ProcessLocalizationResult, RInv, IInv, TypeOK
  <2>. QED
    BY <2>2 DEF FedInOrder
<1>2. CASE ProcessLocalizationResultInternal
  <2>1. /\ pc = Process /\ disp[current] = Pending
        /\ current \in 1 .. Len(disp) /\ obs' = obs
    BY <1>2 DEF ProcessLocalizationResultInternal, RInv, FifoInv, IInv, TypeOK
  <2>2. ~Use6Dof
    BY <2>1 DEF RInv, FifoInv
  <2>3. CASE InitializeBaseframe(current) /\ UNCHANGED <<fed, crashed>>
    BY <2>1, <2>3 DEF FedInOrder
  <2>4. CASE ProcessAsUpdate(current)
    <3>1. fed' = fed
      BY <2>2, <2>4 DEF ProcessAsUpdate, Crash, UpdateInactiveCameras,
         UpdateStructure
    <3>. QED
      BY <2>1, <3>1 DEF FedInOrder
  <2>. QED
    BY <1>2, <2>3, <2>4 DEF ProcessLocalizationResultInternal
<1>3. CASE \/ \E t \in Times : OpenvinsOutput(t)
           \/ OpenvinsLocalizes \/ DealNoPose \/ DealBegin \/ DealReturn
           \/ DealPop \/ Aborted \/ InputsExhausted \/ UNCHANGED vars
  BY <1>3 DEF FedInOrder, OpenvinsOutput, OpenvinsLocalizes, DealNoPose,
     DealBegin, DealReturn, DealPop, Aborted, InputsExhausted, vars
<1>. QED
  BY <1>1, <1>2, <1>3 DEF Next

(***************************************************************************)
(* No localization result is fed to OpenVINS twice (FedAtMostOnce) unless  *)
(* the buffering block is compiled in together with 6DoF mode, for every   *)
(* number of results: the shipped code (no buffering) feeds each result    *)
(* once in processLocalizationResult, and structure mode never feeds from  *)
(* processAsUpdate.                                                        *)
(***************************************************************************)
THEOREM FedOnceUnlessBuffered6Dof ==
  ~(Use6Dof /\ BufferLocalizations) => (Spec => []FedAtMostOnce)
<1>. SUFFICES ASSUME ~(Use6Dof /\ BufferLocalizations)
              PROVE  Spec => []FedAtMostOnce
  OBVIOUS
<1>1. Init => FedInOrder
  BY DEF Init, FedInOrder
<1>2. RInv /\ FedInOrder /\ [Next]_vars => FedInOrder'
  BY FedInOrderStep
<1>3. FedInOrder => FedAtMostOnce
  BY DEF FedInOrder, FedAtMostOnce
<1>. QED
  BY <1>1, <1>2, <1>3, RInvInvariant, PTL DEF Spec
=============================================================================
