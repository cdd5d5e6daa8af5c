SPECIFICATION FairSpec
CONSTANTS
  Repeats = 2
  MaxFaults = 2
  Objects = {o1, o2, o3}
  None = None
  Faults = {"modem", "net", "thread"}
INVARIANT TypeOK
INVARIANT NoUseAfterFree
INVARIANT HeapBounded
INVARIANT SessionOutlivesCollector
PROPERTY RenewsOnlyAlone
PROPERTY TraceInOrder
PROPERTY ImplementsCampaign
PROPERTY UploadsFollowProtocol
PROPERTY CompletesUndisturbed
PROPERTY SetupFailuresEnd
PROPERTY SessionTakenDown
