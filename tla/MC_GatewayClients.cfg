CONSTANTS
    s1 = s1
    s2 = s2
    c1 = c1
    r1 = r1
    Signers <- MCSigners
    Channels <- MCChannels
    Requests <- MCRequests
    MaxEnroll = 2

SPECIFICATION Spec

INVARIANTS
    CacheFresh
    NetworksOnGateway

PROPERTY
    InvokeReturns
    SignerCacheSpec
