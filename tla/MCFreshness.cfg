SPECIFICATION Spec
CONSTANTS
    Clients = {c1, c2}
    Requests <- MCRequests
    Answers <- MCAnswers
    Second = 2
    MaxTime = 3
    Olds = {0, 6}
    Slack = 1
    Skews = {4}
    LastModDivisor = 10
    None = None
    Invalid = Invalid
SYMMETRY Symmetry
INVARIANTS TypeOK AgeCovers ReuseFresh SharedIsShareable WithdrawnStaysOut
