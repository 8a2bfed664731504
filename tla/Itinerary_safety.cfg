SPECIFICATION Spec
CONSTANTS
    Hour = 2
    Regions = {"VTE", "LPQ"}
    Offset <- MCOffset
    Places = {"old_town", "river"}
    NoPlace = "unknown"
    Walk <- MCWalk
    Venues = {"temple", "gallery", "bar", "falls"}
    Catalog <- MCCatalog
    NoVenue = "private"
    NoHours = NoHours
    City <- MCCity
    Corridor = TRUE
    Home = "VTE"
    Created <- MCCreated
    Bookings <- MCBookings
    Edits <- MCEdits
    Dwells = {3}
    Nows = {24}
    MaxNodes = 4
    MaxEvents = 3
    MaxTries = 3
INVARIANTS TypeOK
PROPERTIES BookingsStand OnlyPushedLater CancelledKeepsItsPlace AcceptedIsFeasible ActivitiesWait
CHECK_DEADLOCK FALSE
