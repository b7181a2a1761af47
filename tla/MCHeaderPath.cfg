SPECIFICATION Spec
CONSTANTS
    MaxLen = 140
    Base = 4
    HashWords = 2
    Versions <- MCVersions
    Times <- MCTimes
    Nonces <- MCNonces
    CompactBits <- MCCompactBits
    PrevHashes <- MCPrevHashes
    Roots <- MCRoots
    Digests <- MCDigests
    MaxLeaves = 9
    NtimeCaps <- MCNtimeCaps
INVARIANTS
    DigestIsReference
    FastPathsAgree
    MerkleIsTree
    HostHeaderIsWire
    VerdictIsNumeric
    DeviceHashesPoolFields
