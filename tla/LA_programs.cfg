SPECIFICATION Spec
CONSTANTS
    Fuel = 12
    Steps = 9
    MaxInt = 127
    Families = {"moves", "results", "objects", "shapes", "operators", "loops", "sources"}
    Length = 3
    Pool <- MCPool
CHECK_DEADLOCK FALSE
 
 
 
 
INVARIANT MovesHonoured
 
