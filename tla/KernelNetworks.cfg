SPECIFICATION Spec
CONSTANTS
    Run = {"moe_batch", "moe_batch_2ch", "moe_batch_idle", "moe_slot", "slot_of_one",
           "moe_kernel", "dec_spec", "int8_decode", "lserve", "long_bram", "long_uram", "long_offchip", "threshold",
           "budget", "dsa_vanilla", "dsa_lut", "bm25", "engram"}
    AllOrders = {"slot_of_one"}
INVARIANTS
    Aligned
    Drained
PROPERTY Returns
