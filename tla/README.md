# Formal model of the OpenVINS localization handler

This directory holds TLA+ models of the global-localization fusion in
`src/applications/openvinsli`: the modules, the TLC configurations that
model-check them, and TLAPS proofs of their main invariants.

## The system

The only implementation in `src/` is
`src/applications/openvinsli/src/openvins-localization-handler.cc`
(class `OpenvinsLocalizationHandler`). The other files under
`src/applications/openvinsli/` are declarations only:

- `mini-nav2d-flow.h`, `datasource-rostopic.h`, `localizer.h` and
  `map-builder-flow.h` declare classes and nothing more;
- `datasource.cc` defines one gflag.

The handler is shared by three actors.

- **The localization thread** delivers map-based localization results through
  `processLocalizationResult` (lines 176-188). That function feeds each
  result to OpenVINS (`feed_measurement_localization`).
  - Its buffering block (lines 183-187) is commented out in the source. When
    compiled in, it pushes the result on `localization_buffer_` and calls
    `dealWithBufferedLocalizations` (152-173).
  - `dealWithBufferedLocalizations` reads the newest `T_M_I` timestamp once.
    It then loops: under `m_localization_buffer_` it pops every front result
    not newer than that timestamp, releases the lock, and runs
    `processLocalizationResultInternal` (190-219) on the result.
  - That is the fusion state machine on `localization_state_`:
    - kUninitialized or kNotLocalized: `initializeBaseframe` (221-288) runs a
      RANSAC over `T_G_M_loc_buffer_`;
    - kLocalized: `processAsUpdate` (319-493) runs either the 6DoF update or
      the structure-constraint path. The structure path uses the reprojection
      gate `getLocalizationReprojectionErrors` (495-566).
- **The OpenVINS output thread.** `extractLocalizationFromOpenvinsState`
  (568-579) yields a `T_G_M` exactly when OpenVINS reports itself localized
  (`status.localized`, line 571). The appends of the state's `T_M_I` to
  `T_M_I_buffer_`, and of that `T_G_M` to `T_G_M_filter_buffer_`, are made by
  a caller that is not under `src/`. The model takes them from spec.md 2: the
  odometry estimator appends samples continuously, each newer than the last.
- **OpenVINS itself** may become localized at any time after it has been fed
  a localization.

The actors interact through two buffers:

- the pose buffer. The localization thread reads it, without the pose
  buffer's lock held between the read of the newest timestamp and the
  lookups;
- the filter `T_G_M` buffer. The structure update needs it to be non-empty.

`vio_common::PoseLookupBuffer`, the RANSAC (`aslam::transformationRansac`) and
OpenVINS are not in this repository. They are modelled from their contracts in
spec.md, and their map entries are marked `spec_modelled`.

## Modules

| module | models | state / operators |
|---|---|---|
| `PoseLookupBuffer` | `T_M_I_buffer_` (spec.md 4.1) | A buffer is the set of retained sample timestamps. `GetPoseAt` returns the three-way `ResultStatus`. `BufferPose` adds a sample and evicts everything older than `History`. |
| `BaseframeAlignment` | `FixedSizeQueue::insert` for `T_G_M_loc_buffer_`, the inlier threshold (lines 260-262), the RANSAC draws | `T_G_M` is an integer. An inlier is within `Tol`. RANSAC is any set of at most `RansacIterations` draws, keeping the best. |
| `ConsistencyGate` | the counting in `processAsUpdate` (num_valid_matches over active cameras) and in `getLocalizationReprojectionErrors` | A match is a pair of projections (status, error). The counts are folds over the cameras, written as recursive functions. |
| `LocalizationHandler` | the handler (all operations above) | The 14 variables listed in its header. There is one action per handler step, split where the code releases a lock. A failed CHECK sets `crashed`. |
| `MC_LocalizationHandler` | the TLC instance | It supplies the three localization results used by the runs. |
| `LocalizationAbstract` | what spec.md 3, 4.4 and 5 promise of result dispositions | `status[i]` is waiting or resolved. `localized` and `halted` are flags. The actions are `Deliver`, `Resolve` (only the oldest waiting result) and `Halt`. |
| `LocalizationHandlerProofs` | TLAPS proofs | The inductive invariant `IInv`, the lemmas, `TypeCorrect`, `NotYetAvailableNeverFails` and `EmptyMatchesNeverFail`. |
| `LocalizationRefinementProofs` | TLAPS proofs resting on the queue order | The FIFO invariant `FifoInv`, the mapping lemmas, `Refinement`, `DispositionsFinal` and `FedOnceUnlessBuffered6Dof`. |
| `LocalizationConsensusProofs` | TLAPS proof of the baseframe consensus | `PrefixResolved`, the window invariant `WindowInv`, `LocalizedOnInliers` and `ConsensusBeforeLocalized`. |

### How `LocalizationHandler` maps to the code

The variables:

- `poses` is `T_M_I_buffer_`.
- `hasFilterBaseframe` says whether `T_G_M_filter_buffer_` is non-empty.
- `ovLocalized` is OpenVINS's `status.localized`.
- `fed` is the sequence of result ids passed to `feed_measurement_localization`.
- `locState` is `localization_state_`.
- `locBuffer` is `localization_buffer_`.
- `tgmLocBuffer` is `T_G_M_loc_buffer_`.
- `baseframe` is the `T_G_M` the successful RANSAC chose.
- `pc`, `newestTs` and `current` are the localization thread's position in
  `dealWithBufferedLocalizations`, the timestamp it read, and the result it
  popped.
- `obs` and `disp` are the delivered results and what became of each.

The actions:

- `OpenvinsOutput(t)` is the output thread. It buffers a `T_M_I` sample
  strictly newer than the others and, once OpenVINS is localized, a `T_G_M`.
  Only the `status.localized` test is code of this repository; the appends
  are an assumption about the caller.
- `ProcessLocalizationResult(r, t)` is `processLocalizationResult`. The constant
  `BufferLocalizations` stands for whether the commented-out block is compiled
  in. The shipped code corresponds to `FALSE`.
- The drain loop is `DealNoPose`, `DealBegin`, `DealReturn` and `DealPop`:
  - `DealNoPose` is the early return when there is no pose;
  - `DealBegin` is the read of the newest timestamp;
  - `DealReturn` is the return, inside the loop, when the queue is empty or
    its front is too new;
  - `DealPop` is the pop under the lock.
- `ProcessLocalizationResultInternal` is the whole call on the popped result:
  - `InitializeBaseframe`: lookup, insert, size check, RANSAC, threshold;
  - or `ProcessAsUpdate`: the two lookup CHECKs, then the 6DoF update, the
    inactive-camera fallback (a todo in the code, so the result is rejected),
    or the structure path. The structure path has the filter-buffer CHECK,
    the gate's `num_matches_processed > 0` CHECK and a rejection: the
    landmark updates are a todo and the gate's verdict is only logged.

### The abstract specification and the refinement

`LocalizationAbstract` states what the fusion core promises, with the content
of the results left out:

- each delivered result is waiting or resolved, and a resolution is final;
- results are resolved in arrival order;
- the localized flag changes only while a result is resolved. Resolving
  may localize the core, or reset it: spec.md 4.4 names kNotLocalized as the
  state after the baseframe is lost or reset, so staying localized is not a
  promise. That the handler never leaves kLocalized is its own behaviour
  (finding 5);
- a fatal CHECK ends all activity.

`LocalizationHandler` instantiates it as `Abs` with this mapping:

- `status` is `AbsStatus`: a `Pending` disposition maps to waiting, every
  other one to resolved;
- `localized` is `locState = Localized`;
- `halted` is `crashed # NoCrash`.

The property `ImplementsAbstract == Abs!ASpec` says that every behaviour of
the handler is one of the abstract specification.

- `ProcessLocalizationResult` maps to `Deliver`. Without buffering the result
  is resolved at once, which is allowed only if nothing older is waiting.
- `ProcessLocalizationResultInternal` maps to `Resolve`, or to `Halt` when a
  CHECK fails.
- Every other step is a stutter.

## Runs

All runs use `MC_LocalizationHandler` with these bounds:

- timestamps 1..5;
- `History = 2`, so that eviction happens within five steps;
- `MaxPropagation = 2` in every run but sixdof. There, retained samples are
  never more than 2 apart, so the gap branch of `GetPoseAt` cannot fire. The
  sixdof run takes `MaxPropagation = 1`, where samples 1 and 3 are both
  retained and a lookup at 2 fails on the gap;
- three results: estimates 0 and 1 agree within `Tol = 2` and estimate 4
  is an outlier. With `MinNumBaseframe = 2` and ratio 1, initialization
  can succeed, collect, or fail the RANSAC;
- two cameras, camera 0 active. A result has a match either on the active
  camera or only on the inactive one, so both branches of `processAsUpdate`
  happen.

Three results give two fills of the fixed-size queue, with one eviction.

| run | cfg | expect | what it shows |
|---|---|---|---|
| structure | MC_structure.cfg | pass | Structure mode with buffering (424k states). The drain loop never makes `processAsUpdate` see kFailedNotYetAvailable. The gate always has a processed match. kLocalized is reached only on a consensus of the last `MinNumBaseframe` estimates (`InitConsensus`). No result is fed twice. No disposition is ever replaced (`DispositionFinal`). The handler implements `LocalizationAbstract` (`ImplementsAbstract`). The drain loop returns. |
| sixdof | MC_6dof.cfg | pass | 6DoF mode with buffering and an interpolation gap (485k states): still no kFailedNotYetAvailable, and `ImplementsAbstract`, also when a gap or an eviction makes the lookup CHECK abort. |
| evicted | MC_evicted.cfg | violation | CHECK kFailedWillNeverSucceed fires (line 334). |
| filter_empty | MC_filterempty.cfg | violation | CHECK on `T_G_M_filter_buffer_` fires (line 418). |
| double_feed | MC_doublefeed.cfg | violation | Buffering in 6DoF mode feeds each result twice (lines 180, 355). |
| pending_forever | MC_pending.cfg | violation | A queued result can stay pending for ever (line 166). |
| gate_ignored | MC_gate.cfg | violation | A result the consistency gate passes is rejected all the same (line 484). |

No run is given to the shipped configuration (`BufferLocalizations = FALSE`).
There `processLocalizationResult` only feeds the result and records it, and
no property about that one step says more than its assignments.
`FedOnceUnlessBuffered6Dof` covers it for every value of the constants.

Every property of a passing run has a mutant in PROJECT.json: a plausible bug
in the mapped code that TLC finds. The mutants are:

- a queue that does not evict;
- a queue that evicts the newest estimate;
- match counting over all cameras instead of the active ones;
- a pop that ignores the timestamp;
- an inactive-camera fallback that feeds OpenVINS;
- a drain loop that pops the back of the queue instead of its front (this
  breaks `ImplementsAbstract`);
- a missing `pop_front`. This breaks `DealTerminates`, and also
  `DispositionFinal`, because the front result is processed again.

### Fairness

`DealTerminates` is checked under two fairness conditions:

- weak fairness on the drain-loop steps. `dealWithBufferedLocalizations` is a
  plain loop on the localization thread with no wait in it;
- weak fairness on the OpenVINS output. The filter keeps publishing while the
  run lasts.

Nothing is assumed of the arrival of results: the localizer may stop at any
time. That is exactly why `EveryResultDisposed` fails.

## Findings

1. **The kFailedWillNeverSucceed CHECK is reachable** (line 334,
   spec_code_divergence). `dealWithBufferedLocalizations` compares a queued
   result only with the *newest* pose. A result older than the oldest retained
   pose therefore reaches the CHECK in `processAsUpdate` and aborts the
   process. This happens when the result arrives before the first pose, or
   when its poses were evicted while it waited. spec.md 4.4 and 7 say such a
   result is dropped, never fatal.
2. **The filter-buffer CHECK is reachable** (line 418, code_bug). The comment
   claims a filter update must have been received. But kLocalized is reached
   through the handler's own RANSAC, independently of OpenVINS being
   localized.
3. **Double fusion with buffering in 6DoF mode** (line 355,
   spec_code_divergence). `processLocalizationResult` already feeds the result
   (line 180), so re-enabling the buffering block feeds it again.
4. **Results pending for ever** (line 166, spec_code_divergence). The queue is
   drained only when a new result arrives. The last results of a session are
   never retried, although their poses arrive later.
5. **The gate's verdict has no effect** (line 484, spec_code_divergence).
   `processAsUpdate` computes the reprojection gate's verdict. It only logs a
   failure as "Will reset the localization" (line 459), and nothing is reset.
   It then sets `measurement_accepted &= false` for every active camera,
   because the landmark update is a todo. A result the gate passes is
   therefore rejected like one it fails. spec.md 4.4 and 8 say a gate pass
   forwards the update.

## Proofs

Every safety property of the passing runs is proved for every value of the
constants allowed by the modules' ASSUMEs. TLC checks them only on the small
instances.

| theorem | module | statement |
|---|---|---|
| `TypeCorrect` | `LocalizationHandlerProofs` | `Spec => []TypeOK` |
| `NotYetAvailableNeverFails` | `LocalizationHandlerProofs` | `Spec => []NoNotYetAvailableCheckFailure` |
| `EmptyMatchesNeverFail` | `LocalizationHandlerProofs` | `Spec => []NoEmptyMatchesCheckFailure` |
| `Refinement` | `LocalizationRefinementProofs` | `Spec => ImplementsAbstract` |
| `DispositionsFinal` | `LocalizationRefinementProofs` | `Spec => DispositionFinal` (an action property) |
| `FedOnceUnlessBuffered6Dof` | `LocalizationRefinementProofs` | `~(Use6Dof /\ BufferLocalizations) => (Spec => []FedAtMostOnce)` |
| `ConsensusBeforeLocalized` | `LocalizationConsensusProofs` | `Spec => []InitConsensus` |

### The pose-lookup invariant `IInv`

`TypeOK` and `NoNotYetAvailableCheckFailure` are not inductive by themselves.
Both follow from `IInv`, which adds these conjuncts:

- `PosesHaveNewest`: a non-empty pose buffer has a greatest sample.
  - This is kept as an invariant instead of being derived for every finite
    set. The library's induction theorems take an operator parameter, which
    the installed provers cannot instantiate.
  - It holds because the output thread only appends a sample newer than all
    others (`BufferPoseNewest`).
- `locBuffer` holds only ids of delivered results, and so does `current`
  while a result is being processed.
- While the drain loop runs, `newestTs <= Newest(poses)`. The stale read is
  a lower bound, because poses only get newer.
- While a result is being processed, `obs[current].ts <= newestTs`. This is
  the pop guard.

Together these make the lookup in `processAsUpdate` never
kFailedNotYetAvailable (`GetPoseAvailable`). The proof has these parts:

- `InitIInv`;
- one lemma per action (`OpenvinsOutputIInv`, `DealBeginIInv`, ...),
  combined in `NextIInv`;
- the operator lemmas (`NewestIsGreatest`, `FixedSizeInsertType`,
  `DisposeType`, `InitializeBaseframeType`);
- a closing `PTL` step.

### The gate's CHECK

`EmptyMatchesNeverFail` needs no induction. `GateCountsAgree` shows that
`NumMatchesProcessed` and `NumValidMatches` apply `CamSum` to the same
function: a camera that is inactive or has no match counts 0 in both.
`processAsUpdate` enters the structure branch only when `NumValidMatches`
is not 0, so the CHECK's guard `NumMatchesProcessed = 0` never holds there.
The mutant that counts inactive cameras breaks exactly this equality.

### The queue order `FifoInv`

`RInv` is `IInv` together with `FifoInv`, which says:

- the queue holds only pending results, in increasing arrival order;
- the result being processed is pending and older than everything queued;
- while the process runs, every pending result is queued or being processed;
- without buffering, nothing is pending.

`RInvInvariant` proves `Spec => []RInv`. Three theorems rest on it.

- `Refinement`:
  - `Init => Abs!AInit` (`RefineInit`);
  - `RInv /\ [Next]_vars => [Abs!ANext]_Abs!avars` (`RefineNext`). The result
    the drain loop takes is the oldest pending one, which is what `Resolve`
    requires.
- `DispositionsFinal`: only the result being processed gets a disposition,
  and it is still pending (`DispositionKeptStep`).
- `FedOnceUnlessBuffered6Dof` rests on
  `FedInOrder == fed = [i \in 1 .. Len(obs) |-> i]`.
  - `processLocalizationResult` appends the new id.
  - A result is processed only when something is pending, so only with
    buffering. In that case the hypothesis excludes 6DoF mode, and no other
    branch of `processAsUpdate` feeds.
  - The hypothesis is exactly the complement of the double_feed run.

### The baseframe consensus

`InitConsensus` is stated over `Inserted`, the set of results whose estimate
entered `T_G_M_loc_buffer_`, and a window `w` of result ids (`IsWindow`). The
window holds the newest `Len(q)` inserted results, oldest first. This is the
"last `MinNumBaseframe` entries of the inserted ids" of the code, without
`SelectSeq`, whose recursive definition the provers cannot unfold.
`ConsensusBeforeLocalized` proves it from `CInv`, the conjunction of:

- `RInv`;
- `PrefixResolved`: the resolved results are a prefix of the delivered ones;
- `WindowInv`: there is a window for the current queue, and while the queue
  is not full it holds every inserted result;
- `LocalizedOnInliers`: in structure mode kLocalized implies a full queue, a
  baseframe, and at least kNumInliersThreshold inliers.

The lemmas that carry it:

- `InsertedBeforeCurrent`: the result being processed is newer than every
  inserted one. This follows from `PrefixResolved` and `FifoInv`.
- `WindowInsert`: `FixedSizeInsert` of such a result's estimate moves the
  window, dropping its oldest entry once the queue is full.
- `InitializeConsensus` and `UpdateConsensus`, one per branch of
  `processLocalizationResultInternal`.

TLC checked `RInv` and `CInv` as invariants on the structure and 6DoF
instances before they were proved.

**Only model-checked:**

- `DealTerminates` and the liveness property of the pending_forever run.
  Liveness and ENABLED are beyond TLAPS.
- What the recursive folds of `ConsistencyGate` (`CamSum`, `ErrorSum`)
  compute for every input. That is induction over data, which the provers
  cannot instantiate. `EmptyMatchesNeverFail` avoids it, because it only
  needs the two folds to receive equal functions.

## Not modelled

- `makeOpenvinsLocalizationData`: a stateless conversion that no property
  depends on.
- The gravity disparity check: pure geometry, and its only call is commented
  out.
- The declared-only classes (Nav2dFlow, DataSourceRostopic, Localizer,
  MapBuilderFlow): there is no implementation to model.
- The numeric content of poses and transforms: abstracted to timestamps and
  integer `T_G_M`s.
- The state-name formatting (`stateStr`) and the logging: no property
  depends on their text.
- A cap on `localization_buffer_` (line 185): the code has none, and spec.md 5
  makes it advisable, not required. Any bound TLC could check would be set by
  the run's number of results, not by the code.
- `min_num_baseframe_estimates_before_init = 0` (line 252): what
  `aslam::transformationRansac`, which is not in this repository, does on an
  empty candidate set is unknown. `AlignmentAssumption` excludes it.
- The RANSAC seed from `std::random_device` (line 257): the model allows every
  set of draws, which is what a random seed allows.

## Plan for the next steps

1. A refinement of the pose buffer: `PoseLookupBuffer` against an abstract
   history that keeps every sample. It would show that eviction only loses
   samples older than `History`.
2. Prove `InitConsensus` and `FedAtMostOnce` once at the level of
   `LocalizationAbstract`, and carry them to the handler through
   `Refinement`.
