CONSTANTS
    s1 = s1
    s2 = s2
    s3 = s3
    c1 = c1
    c2 = c2
    i1 = i1
    i2 = i2
    NoKey = NoKey
    NoId = NoId
    Keys = {k1}
    BrokerIds = {i1, i2}
    Submits = {s1, s2, s3}
    Cancels = {c1, c2}
SPECIFICATION Spec
SYMMETRY MCSymmetry
INVARIANT CancelledAtBroker
