------------------------------- MODULE Assignment -------------------------------
(***************************************************************************)
(* The search for the best devices of the kernels of a pipeline            *)
(* (backend/modeling/optimal_assignment.py): find_optimal_assignment goes  *)
(* through all assignments, evaluate_configuration through the kernels of  *)
(* one, with a register of the devices that hold a copy of each data; at   *)
(* the end the runs of kernels on one device are candidates for fusion.    *)
(*                                                                         *)
(* Sizes are in units of 256 bytes, bandwidths in KB/s, latencies in       *)
(* tenths of a microsecond.                                                *)
(***************************************************************************)
EXTENDS Integers, Sequences, FiniteSets, FiniteSetsExt, SequencesExt, Functions

CONSTANTS
    Kernels,         \* KERNELS, in order
    Inputs, Outputs, \* KERNEL_DEPENDENCIES: sequences of data of each kernel
    Pcie,            \* the segments of each direction: upperbound, slope, intercept
    Profiles         \* records gpu, fpga: latencies of kernels; size: of a kernel's data

KernelDevices == {"GPU", "FPGA"}
Position == DOMAIN Kernels
Assignments == [Position -> KernelDevices]

VARIABLES
    profile,
    tried,       \* how many assignments were evaluated
    k,           \* the kernel that the evaluation is at
    locations,   \* data_locations: devices with a copy of each data registered so far
    latency,     \* total_latency of the evaluation
    best,        \* best_config, <<>> for none, with its latency
    groups       \* of the best assignment

assignment_vars == <<profile, tried, k, locations, latency, best, groups>>

--------------------------------------------------------------------------------
(* get_pcie_bandwidth: the first segment whose bound is not exceeded.  -1  *)
(* is no bound.                                                            *)
Segment(size, segments) ==
    segments[Min({i \in DOMAIN segments : segments[i][1] = -1 \/ size <= segments[i][1]})]
Bandwidth(size, direction) ==
    LET s == Segment(size, Pcie[direction]) IN s[2] * size + s[3]

(* calculate_pcie_latency *)
PcieLatency(size, direction) == (size * 2500) \div (Bandwidth(size, direction) \div 1000)

(* A kernel's data has a size in every profile, and moves at 1 MB/s at     *)
(* least: the code divides by the bandwidth.                               *)
Directions == {"gpu_to_fpga", "fpga_to_gpu"}
AssignmentAssumption ==
    /\ Kernels \in Seq(STRING) /\ DOMAIN Pcie = Directions
    /\ Inputs \in [Range(Kernels) -> Seq(STRING)] /\ Outputs \in [Range(Kernels) -> Seq(STRING)]
    /\ \A p \in Profiles, kernel \in Range(Kernels) :
          /\ p.gpu[kernel] \in Nat /\ p.fpga[kernel] \in Nat
          /\ \A data \in Range(Inputs[kernel]), direction \in Directions :
                /\ p.size[kernel][data] \in Nat
                /\ Bandwidth(p.size[kernel][data], direction) \in Nat
                /\ Bandwidth(p.size[kernel][data], direction) >= 1000

(* Positions of itertools.product: the device of the last kernel changes   *)
(* with every assignment, GPU first.                                       *)
Pow2[n \in Nat] == IF n = 0 THEN 1 ELSE 2 * Pow2[n - 1]
Assigned(n) ==
    [i \in Position |-> IF (n \div Pow2[Len(Kernels) - i]) % 2 = 0 THEN "GPU" ELSE "FPGA"]
Assignment == Assigned(tried)

KernelLatency(i, device) == IF device = "GPU" THEN profile.gpu[Kernels[i]] ELSE profile.fpga[Kernels[i]]
SizeFor(i, data) == profile.size[Kernels[i]][data]

Direction(device) == IF device = "GPU" THEN "fpga_to_gpu" ELSE "gpu_to_fpga"
Transferable(data, device) == device = "GPU" \/ data # "memory"

(* The data are on this device only. *)
Register(locs, names, device) ==
    [data \in DOMAIN locs \cup names |-> IF data \in names THEN {device} ELSE locs[data]]

(* One input of kernel i: it is instantiated, there, transferred with the  *)
(* copy registered, or left where it is.  state is <<locations, latency>>. *)
TakeInput(state, i, device, data) ==
    IF data \notin DOMAIN state[1] THEN <<Register(state[1], {data}, device), state[2]>>
    ELSE IF device \in state[1][data] \/ ~Transferable(data, device) THEN state
    ELSE <<[state[1] EXCEPT ![data] = @ \cup {device}],
           state[2] + PcieLatency(SizeFor(i, data), Direction(device))>>

(* All inputs of kernel i, in order *)
TakeInputs(state, i, device) ==
    LET inputs == Inputs[Kernels[i]]
        after[n \in 0 .. Len(inputs)] ==
            IF n = 0 THEN state ELSE TakeInput(after[n - 1], i, device, inputs[n])
    IN  after[Len(inputs)]

AssignmentInit ==
    /\ profile \in Profiles /\ tried = 0 /\ k = 1 /\ locations = <<>> /\ latency = 0
    /\ best = <<>> /\ groups = <<>>

(* An iteration of the loop of evaluate_configuration: the kernel runs,    *)
(* its inputs come, its outputs are on its device only.                    *)
Evaluate ==
    LET device == Assignment[k]
        taken == TakeInputs(<<locations, latency + KernelLatency(k, device)>>, k, device)
    IN  /\ k <= Len(Kernels) /\ tried < Pow2[Len(Kernels)]
        /\ locations' = Register(taken[1], Range(Outputs[Kernels[k]]), device)
        /\ latency' = taken[2]
        /\ k' = k + 1
        /\ UNCHANGED <<profile, tried, best, groups>>

(* What the evaluation of the next assignment starts from: no copy is      *)
(* registered.                                                             *)
KeptRegister == locations
FreshRegister == <<>>

(* An iteration of the loop of find_optimal_assignment *)
Cheaper == best = <<>> \/ latency < best.latency
CompareLatency ==
    /\ k > Len(Kernels) /\ tried < Pow2[Len(Kernels)]
    /\ best' = IF Cheaper THEN [devices |-> Assignment, latency |-> latency] ELSE best
    /\ tried' = tried + 1 /\ k' = 1 /\ locations' = FreshRegister /\ latency' = 0
    /\ UNCHANGED <<profile, groups>>

(* An iteration of find_consecutive_kernel_groups *)
Join(gs, i, devices) ==
    IF gs # <<>> /\ Last(gs).device = devices[i]
    THEN [gs EXCEPT ![Len(gs)].kernels = Append(@, Kernels[i])]
    ELSE Append(gs, [device |-> devices[i], kernels |-> <<Kernels[i]>>])
Groups(devices) == FoldLeftDomain(LAMBDA gs, i : Join(gs, i, devices), <<>>, devices)

(* analyze_fusion_opportunities, for the best *)
Analyze ==
    /\ tried = Pow2[Len(Kernels)] /\ groups = <<>>
    /\ groups' = Groups(best.devices)
    /\ UNCHANGED <<profile, tried, k, locations, latency, best>>

AssignmentNext == Evaluate \/ CompareLatency \/ Analyze

AssignmentSpec == AssignmentInit /\ [][AssignmentNext]_assignment_vars

--------------------------------------------------------------------------------
(* The cost of an assignment without a register of copies: a kernel pays   *)
(* for an input when, since it was last produced (or first used), neither  *)
(* its producer nor any user was on the kernel's device.                   *)
Uses(i, data) == data \in Range(Inputs[Kernels[i]])
Makes(i, data) == data \in Range(Outputs[Kernels[i]])

Origin(i, data) == Max({0} \cup {j \in 1 .. i - 1 : Makes(j, data)})
SeenOn(devices, i, data) ==
    LET origin == Origin(i, data)
    IN  {devices[j] : j \in {j \in 1 .. i - 1 : (Makes(j, data) /\ j = origin) \/ (Uses(j, data) /\ j > origin)}}
Pays(devices, i, data) ==
    /\ SeenOn(devices, i, data) # {} /\ devices[i] \notin SeenOn(devices, i, data)
    /\ ~(data = "memory" /\ devices[i] = "FPGA")

Payment(devices, i) ==
    [data \in Range(Inputs[Kernels[i]]) |->
        IF Pays(devices, i, data) THEN PcieLatency(SizeFor(i, data), Direction(devices[i])) ELSE 0]
CostOf(devices) ==
    [i \in Position |-> KernelLatency(i, devices[i]) + SumFunction(Payment(devices, i))]
Cost(devices) == SumFunction(CostOf(devices))

(* The register of copies charges each transfer once and none that is      *)
(* needed is forgotten, and the loop keeps the least: when all assignments *)
(* were tried, the best one is the cheapest by the reference.              *)
BestIsCheapest ==
    tried = Pow2[Len(Kernels)] =>
        /\ best.latency = Cost(best.devices)
        /\ \A devices \in Assignments : best.latency <= Cost(devices)
================================================================================
