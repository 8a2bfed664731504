SPECIFICATION Spec
CONSTANTS
    create = create
    again = again
    reroute = reroute
    reroute2 = reroute2
    ask = ask
    id1 = id1
    NoTrip = NoTrip
    NoIntent = NoIntent
    Trips = {t1, t2}
    Intents = {create, again, reroute, reroute2, ask}
    Creates = {create}
    Reroutes = {reroute, reroute2}
    Asks = {ask}
    Keyed = {again, reroute}
    Ids = {id1}
    IdOf <- OneId
    Workers = {w1, w2}
    Limit = 1
    MaxRequests = 4
    MaxDay = 1
INVARIANTS
    NoLostUpdate
    OneEffectPerId
    SameAnswer
    QuotaExact
    DailyCapPerWorker
PROPERTIES
    ImplementsLedger
SYMMETRY Alike
CHECK_DEADLOCK FALSE
