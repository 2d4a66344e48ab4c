SPECIFICATION Spec
CONSTANTS
  Listeners = {epoch, other}
  Epoch = epoch
  Nobody = Nobody
  MaxTrips = 2
INVARIANT TripEndsAuthority
