SPECIFICATION MethodSpec
CONSTANTS
    Kinds = {CASH, CARD}
    Editors = {e1}
    MaxPayments = 2
PROPERTY KindFixedAfterUse
