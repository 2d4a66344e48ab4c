SPECIFICATION FairSpec
CONSTANTS
  Listeners = {epoch, other}
  Epoch = epoch
  Nobody = Nobody
  MaxTrips = 2
INVARIANTS ExactlyOnce RevokedBeforeOpen
PROPERTY EpochCatchesUp
