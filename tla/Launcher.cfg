SPECIFICATION FairSpec
CONSTANTS
    Launchers = {l1, l2}
    Daemons = {d1, d2, d3, d4}
    None = None
    Foreign = Foreign
    Wrapper = Wrapper
    MaxFaults = 2

    
PROPERTIES
    LiveKept
    Established
    StopsWhenTold
