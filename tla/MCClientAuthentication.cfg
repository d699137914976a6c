\* A URL and a plain id that are registered, one of each that is not.
SPECIFICATION Spec
CONSTANTS
    Requests = {r1, r2}
    Nobody = Nobody
    cimd = cimd
    registeredUrl = registeredUrl
    secret = secret
    unknown = unknown
    CimdClients = {cimd, registeredUrl}
    OtherIds = {secret, unknown}
    Registered <- MCRegistered
    CacheTTL = 1
    MaxVersions = 1
INVARIANTS TypeOK ProofFitsClient
PROPERTIES PkceClientIsCached OldDocumentsDieOut
