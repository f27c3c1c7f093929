SPECIFICATION Spec
CONSTANTS
    Site <- PageSite
    Retries = 2
    Slot = {s1}
    MaxCommits = 1
    Tolerated = {"productNames", "categoryNames", "vehicleBrandNames", "locationNames", "chosenLocation",
                 "registerNames", "historySessions", "returnCount"}
INVARIANT DocumentsFollowCommands
