SPECIFICATION Spec
CONSTANTS
    Site <- PageSite
    Retries = 2
    Slot = {s1}
    MaxCommits = 1
    Tolerated = {"receiptStatus", "refundable", "sessionStatus", "historySessions", "returnCount"}
INVARIANT NamesFollowEdits
