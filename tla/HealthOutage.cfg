SPECIFICATION FairSpec
CONSTANTS
    Requests = {r1}
PROPERTIES
    OutageIsAnswered
