SPECIFICATION Spec
CONSTANTS
    Keys = {k1, k2}
    Sizes = {1}
    Shards = 2
    Sub <- OneSub
    Homes <- TwoHomes
    Limit = 3
    Readers = {r1}
    Writers = {w1}
INVARIANTS IndexExact ReadsGenuine
PROPERTIES DiskFollowed
