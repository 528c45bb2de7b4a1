\* Three deliveries of overlapping batches, retention at any time.
CONSTANTS
    d1 = d1  d2 = d2  d3 = d3  agent = agent  client = client  page = page
    Absent = Absent  Garbled = Garbled  NotText = NotText  TooLong = TooLong
    Deliveries <- ThreeDeliveries
    Envelopes <- AllEnvelopes
    Batches <- SmallBatches
    Cutoffs <- Days
SYMMETRY AnyDelivery
SPECIFICATION Spec
INVARIANTS
    TypeOK
    CountsMatchRows
    PassedIsStored
    NothingBehindPoison
CHECK_DEADLOCK FALSE
