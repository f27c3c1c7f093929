SPECIFICATION FairSpec
CONSTANTS
    Site <- PageCases
    Retries = 1
    Slot = {s1, s2}
    MaxCommits = 2
    Tolerated = {"productNames", "categoryNames", "vehicleBrandNames", "locationNames", "chosenLocation",
                 "registerNames", "receiptStatus", "refundable", "sessionStatus", "historySessions", "returnCount"}
INVARIANTS CacheTypeOK ConfirmedChangesShow OfferedIsPermitted
PROPERTIES ShownChangesArrive
