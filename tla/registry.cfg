CONSTANTS
    Workers = {refresher}
    Operators = {clerk}
    Lifetimes = {3}
    Lead = 1
    HttpTimeout = 1
    ClientFaults <- AllClientFaults
    MaxClientFaults = 1
    None = None
    Refresher = refresher
    Schemes = {iban, bic}
    Strict = {iban}
    PageSize = 1
    MaxChanges = 1
SPECIFICATION FairSpec
INVARIANTS CachedIsAlive RefusalIsGrounded
PROPERTIES CredentialsNeverTerminal CopyCatchesUp CallsEnd
