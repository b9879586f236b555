CONSTANTS
    Logins = {l1}
    Tabs = {t1, t2}
    Events <- AllEvents
    MaxEvents = 1
    None = None
    Applier = t1
    Configured <- LinkedItems
    Owned = TRUE
    Routings = {iban}
    Foreign = {bban}
    Limit = 1
SPECIFICATION FairSpec
INVARIANTS TypeOK 
PROPERTIES DoneIsOk Converges
CHECK_DEADLOCK FALSE
