---------------------------- MODULE SupportProofs ----------------------------
(***************************************************************************)
(* Proofs about MCSupport: a behaviour of the instance is, part by part, a *)
(* behaviour of every part, so that what is proved of a part holds in the  *)
(* instance and what the instance's runs check is said of the parts.       *)
(***************************************************************************)
EXTENDS MCSupport, TrackerProofs, ConfigurationProofs, CacheProofs, ConversationProofs,
        HandoffProofs

\* The parts start in their own initial states.
LEMMA PartsStart ==
  Init => /\ TrackerInit /\ LockInit /\ ConversationInit /\ LimitsInit
          /\ UsageInit /\ PersistenceInit /\ CatalogInit /\ HandoffInit
BY DEF Init

\* A step of the instance is a step of each part or leaves it alone.
LEMMA PartsStep ==
  [Next]_vars => /\ [TrackerNext]_trackerVars
                 /\ [LockNext]_lockVars
                 /\ [ConversationNext]_convVars
                 /\ [LimitsNext]_limitVars
                 /\ [UsageNext]_usageVars
                 /\ [PersistenceNext]_persistVars
                 /\ [CatalogNext]_catalogVars
                 /\ [HandoffNext]_handoffVars
<1>1. CASE Next
  BY <1>1 DEF Next
<1>2. CASE UNCHANGED vars
  BY <1>2 DEF vars
<1> QED
  BY <1>1, <1>2

\* The instance implements every part.
THEOREM SupportImplementsItsParts ==
  Spec => /\ TrackerSpec
          /\ LockSpec
          /\ ConversationSpec
          /\ LimitsSpec
          /\ UsageSpec
          /\ PersistenceSpec
          /\ CatalogSpec
          /\ HandoffSpec
BY PartsStart, PartsStep, PTL
   DEF Spec, TrackerSpec, LockSpec, ConversationSpec, LimitsSpec, UsageSpec,
       PersistenceSpec, CatalogSpec, HandoffSpec

\* Every part keeps its types, for any values of the constants.
THEOREM SupportTypeCorrect == Spec => []SupportTypeOK
<1>1. /\ TrackerTypeOK /\ LockTypeOK /\ ConversationTypeOK /\ LimitsTypeOK
      /\ UsageTypeOK /\ PersistenceTypeOK /\ CatalogTypeOK /\ HandoffTypeOK
      => SupportTypeOK
  BY DEF SupportTypeOK
<1> QED
  BY <1>1, SupportImplementsItsParts, TrackerTypeCorrect, LockTypeCorrect,
     ConversationTypeCorrect, LimitsTypeCorrect, UsageTypeCorrect, PersistenceTypeCorrect,
     CatalogTypeCorrect, HandoffTypeCorrect, PTL

\* What is proved of the parts by themselves holds in the instance: every safety
\* invariant its run checks.
THEOREM SupportKeepsItsInvariants ==
  Spec => /\ []OneVoice /\ []TimeoutIsAnswered
          /\ []WriterIsAlone /\ []StuckOnlyByRecursion
          /\ []ListWellFormed /\ []SessionsAreNotShared
          /\ []EffectiveRespectsReport /\ []GateKeepsTheHardCap
          /\ []ServedItsOwn
          /\ []TornOnlyByOverlap /\ []ConfigPostsSaveInOrder
          /\ []NeverOlderThanCached
          /\ []ImagesAreReplaced /\ []CacheIsSound
<1>1. Spec => /\ []OneVoice /\ []TimeoutIsAnswered
  BY SupportImplementsItsParts, ResponseHasOneVoice, TimeoutsAreAnswered
<1>2. Spec => /\ []WriterIsAlone /\ []StuckOnlyByRecursion
  BY SupportImplementsItsParts, WritersAreAlone, BlockedOnlyThroughRecursion
<1>3. Spec => /\ []ListWellFormed /\ []SessionsAreNotShared
  BY SupportImplementsItsParts, ListAndMapAgree, SessionsHaveOneConversation
<1>4. Spec => /\ []EffectiveRespectsReport /\ []GateKeepsTheHardCap
  BY SupportImplementsItsParts, EffectiveIsOfItsReport, GateStaysUnderTheCap
<1>5. Spec => /\ []ServedItsOwn /\ []NeverOlderThanCached
  BY SupportImplementsItsParts, ReadersGetTheirOwn, CallersGetNoOlder
<1>6. Spec => /\ []TornOnlyByOverlap /\ []ConfigPostsSaveInOrder
  BY SupportImplementsItsParts, TornTakesTwoSaves, ConfigPostsKeepOrder
<1>7. Spec => /\ []ImagesAreReplaced /\ []CacheIsSound
  BY SupportImplementsItsParts, ImagesAreReplacedRight, CacheStaysSound
<1> QED
  BY <1>1, <1>2, <1>3, <1>4, <1>5, <1>6, <1>7

\* And so does what is proved of their steps: a claimed response is its claimant's,
\* throttled requests are not forgotten, and neither the configuration on the disk
\* nor the model map goes back, but for the overlaps that the properties name.
THEOREM SupportKeepsItsSteps ==
  Spec => /\ ClaimIsFinal
          /\ ForgottenOnlyByTwoFetches
          /\ DiskNeverGoesBack
          /\ ModelsGoBackOnlyByOverlap
BY SupportImplementsItsParts, ClaimsAreFinal, ForgettingTakesTwo, DiskGoesBackOnlyByRaces,
   MapGoesBackOnlyByOverlap
==============================================================================
