SPECIFICATION ValuesSpec
CONSTANTS
    Lines = {a, b}
    LineTotals = {0, 1, 5}
    LineQuantities = {1, 3, 4}
INVARIANTS SharesFollowUnits WorthWithinTotal LinesAgree ListsAgreeWithSummaries
CHECK_DEADLOCK FALSE
