SPECIFICATION Spec
CONSTANTS
    Hour = 2
    Regions = {"LPQ", "VTE"}
    Offset <- MCOffset
    Places = {"old_town", "river", "hills"}
    NoPlace = NoPlace
    Walk <- MCWalk
    Venues = {"temple", "temple_closed", "market", "falls", "cafe", "noodle", "bar", "bar_closed", "clinic", "stupa", "grill"}
    Catalog <- MCCatalog
    NoVenue = NoVenue
    NoHours = NoHours
    Week = 2
    HoursOn <- MCHoursOn
    Unseedable = {"clinic"}
    WholeDay = {"falls"}
    VenueId <- MCVenueId
    Name <- MCName
    Bucket <- MCBucket
    Tags <- MCTags
    Spot <- MCSpot
    Profiles <- MCProfiles
    Catalogs <- MCCatalogs
    Preferred <- MCPreferred
    Corridors <- MCCorridors
    PerDay = 2
    MinStops = 2
    TargetStops = 3
    MaxStarters = 3
    Ceiling = 3
    MaxSpan = 7
    CacheSize = 2
    Ranges <- MCRanges
    Itineraries <- MCItineraries
    Moments <- MCMoments
    NotLoaded = NotLoaded
    MaxTrips = 2
    MaxChanges = 1
    MaxSkips = 1
INVARIANTS TypeOK PlanHolds AdvertisedIsKept
PROPERTY HomeNeverBlank
CHECK_DEADLOCK FALSE
