SPECIFICATION Spec
CONSTANTS
    Cadence = 2
    MaxFails = 2
    Threads = {1, 2}
PROPERTIES
    ChangesAreDeliberated
