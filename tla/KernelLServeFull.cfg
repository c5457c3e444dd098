SPECIFICATION Spec
CONSTANTS
    Run = {"long_full"}
    AllOrders = {}
INVARIANT Aligned
