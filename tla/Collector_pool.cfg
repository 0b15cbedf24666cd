\* Exports, events and requests of the dashboard share a pool through an outage of the
\* database, a restart of the collector and a refused statement.
SPECIFICATION FairSpec
CONSTANTS
    Exporter = exporter
    Writer = {writer}
    Reader = {reader}
    Probe = {probe}
    PoolSize = 6
    MaxRows = 2
    MaxOutages = 1
    MaxCrashes = 1
    MaxRefusals = 1
INVARIANTS
    TypeOK
    LeaksBounded
PROPERTIES
    ImplementsSink
    StoresAgain
    CallsEnd
