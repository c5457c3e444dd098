SPECIFICATION Spec
CONSTANTS
    Run = {"threshold_test"}
    AllOrders = {}
PROPERTY Returns
CHECK_DEADLOCK FALSE
