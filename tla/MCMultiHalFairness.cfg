CONSTANTS
    QueueCapacity = 2
    NumHals = 3
    EventKinds <- MCEventKinds
    MaxReads = {1, 2}
    MaxEvents <- MCMaxEvents
    FullToGlobal <- MCFullToGlobal
SPECIFICATION FairnessSpec
INVARIANTS TypeOK NoLostWakeup BoundedOvertaking WriterRegionSafe
PROPERTIES ImplementsChannels EveryEventTaken BlockedWriterResumes
