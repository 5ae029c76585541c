\* One driver of either kind, one device; each may change twice over.
SPECIFICATION FairSpec
CONSTANTS
  NoObject = NoObject  NoEntry = NoEntry  NoSub = NoSub
  d1 = d1  n1 = n1  n2 = n2  s1 = s1  s2 = s2  s3 = s3  g1 = g1  g2 = g2  g3 = g3
  Devices <- OneDevice
  Specs <- FourSpecs
  DriverConfigs <- ThreeDriverConfigs
  Unparsable <- OneUnparsable
  Subs <- ThreeSubs
  MaxEdits = 3
  MaxFaults = 1
INVARIANTS TypeOK OneSubscription
PROPERTIES EquipmentConverges DevicesAreHeard
\* Without objects the agent has nothing to do.
CHECK_DEADLOCK FALSE
