SPECIFICATION Spec
CHECK_DEADLOCK FALSE
INVARIANTS
    
    
    NetworkTestIsComplete
    
    
    
    WindowsCoverTheTest
    
    
    RunsWhatWasValidated
PROPERTIES
    EveryCommandIsReported
    
    
    JobsVerdictIsExact
    EachOOMCountsOnce
    
    PreloadIsExact
    
    
