SPECIFICATION Spec
CONSTANTS
    Adapters <- OneAdapter
    Dated <- NoneDated
    AdapterIds <- MCAdapterIds
    Names <- PaddedNames
    EventIds <- MCAdapterIds
    Readings <- MCReadings
    Finished <- MCFinished
    Absent = Absent
    EventTTL = 2
    StaleAfter = 1
    MaxTime = 4
PROPERTIES
    EventsLeaveAdapterItems
