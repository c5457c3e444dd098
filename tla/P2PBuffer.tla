------------------------------- MODULE P2PBuffer --------------------------------
(***************************************************************************)
(* P2PBuffer and the calls on it of FPGADevice, GPUDevice and P2PManager   *)
(* (p2p_comm/python_api/src/p2p_manager.cpp).  A buffer lies in the FPGA's *)
(* memory, and the host and the GPU reach it through a mapping: straight   *)
(* through PCIe, or, where P2P is not to be had, through a shadow in host  *)
(* memory that whole-buffer syncs copy to and fro.  The class tells the    *)
(* two apart by is_p2p_, from which BO it got and how HIP took its pages,  *)
(* and leaves out a sync when it is set.                                   *)
(*                                                                         *)
(* XRT and HIP are outside the repository.  What the mapping is, is a fact *)
(* of the platform (direct), and each of their calls may fail.  Memory is  *)
(* counted in 4-byte words; a word holds the stamp of its last write.      *)
(***************************************************************************)
EXTENDS Integers

CONSTANTS
    Count,     \* count_, elements of the buffer
    DType,     \* dtype_
    MaxStamp   \* bound: writes of a behaviour

ASSUME BufferAssumption ==
    /\ Count \in Nat \ {0} /\ MaxStamp \in Nat
    /\ DType \in {"UINT32", "INT32", "FLOAT32", "FLOAT64"}

(* element_size, in words, and size_bytes_. *)
WordsPer == IF DType = "FLOAT64" THEN 2 ELSE 1
Size  == Count * WordsPer
Words == 1 .. Size

VARIABLES
    bo,             \* kind of buffer_: "none" before allocation, "p2p", "normal"
    direct,         \* does the mapping reach the FPGA's memory itself?
    is_p2p,         \* is_p2p_
    gpu_registered, \* gpu_registered_
    pages,          \* how HIP holds the host pages: "none", "io", "mapped"
    xclbin_loaded,  \* FPGADevice's xclbin_loaded_
    hbm, shadow,    \* the two memories
    stamp,          \* writes so far
    inflight,       \* words GPU kernels are still to write
    unsynced,       \* history: words written that no call promised to the FPGA
    done            \* history: the last call and the elements it was for

flags    == <<bo, direct, is_p2p, gpu_registered, pages>>
memories == <<hbm, shadow, stamp>>
p2p_vars == <<flags, xclbin_loaded, memories, inflight, unsynced, done>>

P2PInit ==
    /\ bo = "none" /\ direct = FALSE /\ is_p2p = FALSE
    /\ gpu_registered = FALSE /\ pages = "none" /\ xclbin_loaded = FALSE
    /\ hbm = [w \in Words |-> 0] /\ shadow = [w \in Words |-> 0]
    /\ stamp = 0 /\ inflight = {} /\ unsynced = {}
    /\ done = [call |-> "none", n |-> 0]

Did(c, n) == done' = [call |-> c, n |-> n]
Written(f, ws) == [w \in Words |-> IF w \in ws THEN stamp + 1 ELSE f[w]]

(* What the host and, when registered, the GPU see. *)
View == IF direct THEN hbm ELSE shadow

(* A write of ws through the mapping. *)
WriteMapped(ws) ==
    /\ stamp < MaxStamp /\ stamp' = stamp + 1
    /\ IF direct THEN hbm' = Written(hbm, ws) /\ UNCHANGED shadow
                 ELSE shadow' = Written(shadow, ws) /\ UNCHANGED hbm

--------------------------------------------------------------------------------
(* Allocation: a P2P BO, else a normal one, else the constructor throws.   *)
(* A P2P BO may still turn out to be staged: is_p2p is "only reliable      *)
(* after register_with_gpu()".                                             *)
Construct ==
    /\ bo = "none"
    /\ \/ /\ bo' = "p2p" /\ is_p2p' = TRUE /\ direct' \in BOOLEAN
       \/ /\ bo' = "normal" /\ is_p2p' = FALSE /\ direct' = FALSE
    /\ Did("construct", 0)
    /\ UNCHANGED <<gpu_registered, pages, xclbin_loaded, memories, inflight, unsynced>>

(* The destructor gives up the registration first. *)
DestroyBuffer ==
    /\ bo # "none" /\ inflight = {}
    /\ bo' = "none" /\ direct' = FALSE /\ is_p2p' = FALSE
    /\ gpu_registered' = FALSE
    /\ pages' = IF gpu_registered THEN "none" ELSE pages
    /\ hbm' = [w \in Words |-> 0] /\ shadow' = [w \in Words |-> 0]
    /\ stamp' = 0 /\ unsynced' = {}
    /\ Did("destroy", 0)
    /\ UNCHANGED <<xclbin_loaded, inflight>>

(* hipHostRegister as IoMemory: only pages that are the FPGA's own, or     *)
(* those of a normal BO, are taken that way.                               *)
TakenAsIo == direct \/ bo = "normal"

P2PAfterFallbackKept == is_p2p

(* is_p2p_ once the pages were registered without IoMemory. *)
P2PAfterFallback == FALSE

HeldAfterFailureLeaked(how) == how

(* The pages when hipHostGetDevicePointer failed: unregistered again. *)
HeldAfterFailure(how) == "none"

(* register_with_gpu: IoMemory, else Mapped only; then the device pointer. *)
RegisterWithGpu ==
    /\ bo # "none" /\ ~gpu_registered
    /\ \/ /\ UNCHANGED <<is_p2p, gpu_registered, pages>>    \* both refused: throws
       \/ \E how \in {"io", "mapped"} :
             /\ how = "io" => TakenAsIo
             /\ is_p2p' = IF how = "mapped" THEN P2PAfterFallback ELSE is_p2p
             /\ \/ gpu_registered' = TRUE /\ pages' = how
                \/ gpu_registered' = FALSE /\ pages' = HeldAfterFailure(how)
    /\ Did("register", 0)
    /\ UNCHANGED <<bo, direct, xclbin_loaded, memories, inflight, unsynced>>

(* A caller does not take the pages from a GPU kernel that writes them. *)
Unregister ==
    /\ gpu_registered /\ inflight = {}
    /\ pages' = "none" /\ gpu_registered' = FALSE
    /\ Did("unregister", 0)
    /\ UNCHANGED <<bo, direct, is_p2p, xclbin_loaded, memories, inflight, unsynced>>

--------------------------------------------------------------------------------
(* Host and GPU accesses, to the first n words; a larger size throws. *)

Prefix(n) == 1 .. n

(* P2PBuffer::write *)
Write(n) ==
    /\ bo # "none"
    /\ WriteMapped(Prefix(n))
    /\ unsynced' = unsynced \cup Prefix(n)
    /\ Did("write", n)
    /\ UNCHANGED <<flags, xclbin_loaded, inflight>>

(* GPUDevice::write_buffer *)
WriteBuffer(n) ==
    /\ gpu_registered
    /\ WriteMapped(Prefix(n))
    /\ unsynced' = unsynced \cup Prefix(n)
    /\ Did("write_buffer", n)
    /\ UNCHANGED <<flags, xclbin_loaded, inflight>>

(* A GPU kernel launched on device_ptr(), and its writes landing. *)
LaunchGpuKernel(n) ==
    /\ gpu_registered /\ inflight = {}
    /\ inflight' = Prefix(n)
    /\ unsynced' = unsynced \cup Prefix(n)
    /\ Did("launch", n)
    /\ UNCHANGED <<flags, xclbin_loaded, memories>>

GpuKernelWrites ==
    /\ inflight # {}
    /\ WriteMapped(inflight)
    /\ inflight' = {} /\ Did("gpu_kernel_writes", 0)
    /\ UNCHANGED <<flags, xclbin_loaded, unsynced>>

--------------------------------------------------------------------------------
(* Syncs copy the whole buffer; a direct mapping has nothing to copy. *)

PushNow(f) == hbm' = IF direct THEN hbm ELSE f
Pull(f)    == shadow' = IF direct THEN shadow ELSE f

SyncToDevice ==
    /\ bo # "none"
    /\ PushNow(shadow) /\ unsynced' = inflight
    /\ Did("sync_to_device", Count)
    /\ UNCHANGED <<flags, xclbin_loaded, shadow, stamp, inflight>>

(* sync_to_host, and transfer_fpga_to_gpu, which is nothing else. *)
SyncToHost ==
    /\ bo # "none"
    /\ Pull(hbm)
    /\ unsynced' = inflight
    /\ Did("sync_to_host", Count)
    /\ UNCHANGED <<flags, xclbin_loaded, hbm, stamp, inflight>>

StillInFlight == inflight

(* The GPU work left when gpu_.synchronize() returns: none. *)
AfterSynchronize == {}

(* transfer_gpu_to_fpga: wait for the GPU, then push. *)
TransferGpuToFpga ==
    /\ bo # "none"
    /\ IF inflight # {} /\ AfterSynchronize = {}
       THEN /\ stamp < MaxStamp /\ stamp' = stamp + 1
            /\ LET landed == Written(View, inflight)
               IN  IF direct THEN hbm' = landed /\ UNCHANGED shadow
                             ELSE hbm' = landed /\ shadow' = landed
       ELSE PushNow(shadow) /\ UNCHANGED <<shadow, stamp>>
    /\ inflight' = AfterSynchronize
    /\ unsynced' = {}
    /\ Did("transfer_gpu_to_fpga", Count)
    /\ UNCHANGED <<flags, xclbin_loaded>>

SkipAlways == TRUE

(* memcpy_write_to_fpga leaves the push out. *)
SkipsSync == is_p2p

(* memcpy_write_to_fpga, memcpy_transfer_gpu_to_fpga and the iterations of *)
(* benchmark_gpu_write.  Both instances move 4-byte elements, whatever the *)
(* buffer's dtype.                                                         *)
MemcpyWriteToFpga(n) ==
    /\ gpu_registered /\ n <= Count
    /\ stamp < MaxStamp /\ stamp' = stamp + 1
    /\ LET copied == Written(View, Prefix(n))
       IN  IF direct THEN hbm' = copied /\ UNCHANGED shadow
           ELSE /\ shadow' = copied
                /\ hbm' = IF SkipsSync THEN hbm ELSE copied
    /\ unsynced' = (unsynced \ Prefix(n * WordsPer)) \cup inflight
    /\ Did("memcpy", n)
    /\ UNCHANGED <<flags, xclbin_loaded, inflight>>

--------------------------------------------------------------------------------
(* FPGADevice. *)

LoadXclbin ==
    /\ ~xclbin_loaded /\ xclbin_loaded' = TRUE
    /\ Did("load_xclbin", 0)
    /\ UNCHANGED <<flags, memories, inflight, unsynced>>

HostAfterRunStale == shadow

(* The host's copy when generate_indices returns: synced. *)
HostAfterRun == hbm'

(* generate_indices.  The state run.wait() returns is not looked at: a     *)
(* kernel that stopped early has written only the first k words.           *)
GenerateIndices(n) ==
    /\ xclbin_loaded /\ bo # "none" /\ n <= Count /\ DType = "UINT32"
    /\ stamp < MaxStamp /\ stamp' = stamp + 1
    /\ \E k \in 0 .. n :
          /\ hbm' = Written(hbm, Prefix(k))
          /\ done' = [call |-> IF k = n THEN "generate" ELSE "aborted", n |-> n]
    /\ Pull(HostAfterRun)
    /\ unsynced' = inflight
    /\ UNCHANGED <<flags, xclbin_loaded, inflight>>

P2PNext ==
    \/ Construct \/ DestroyBuffer \/ RegisterWithGpu \/ Unregister
    \/ \E n \in Words : Write(n) \/ WriteBuffer(n) \/ LaunchGpuKernel(n)
    \/ GpuKernelWrites
    \/ SyncToDevice \/ SyncToHost \/ TransferGpuToFpga
    \/ \E n \in 1 .. Count : MemcpyWriteToFpga(n) \/ GenerateIndices(n)
    \/ LoadXclbin

P2PSpec == P2PInit /\ [][P2PNext]_p2p_vars

--------------------------------------------------------------------------------
(* Types of every variable. *)
P2PTypeOK ==
    /\ bo \in {"none", "p2p", "normal"}
    /\ direct \in BOOLEAN /\ is_p2p \in BOOLEAN /\ gpu_registered \in BOOLEAN
    /\ xclbin_loaded \in BOOLEAN
    /\ pages \in {"none", "io", "mapped"}
    /\ hbm \in [Words -> Nat] /\ shadow \in [Words -> Nat] /\ stamp \in Nat
    /\ inflight \subseteq Words /\ unsynced \subseteq Words

(* memcpy_write_to_fpga may leave the sync out: a registered buffer that   *)
(* calls itself P2P is one, whatever failed and was tried again before.    *)
SkipsOnlyDirect == gpu_registered /\ is_p2p => direct

(* HIP holds the pages exactly as long as the buffer says it does: no way  *)
(* out of register_with_gpu or the destructor leaves them behind.          *)
RegistrationHeld == gpu_registered <=> pages # "none"

(* Whatever the calls, the FPGA and the host side see the same word unless *)
(* somebody wrote it and has not asked for a sync since: memcpy transfers, *)
(* GPU transfers and generate_indices need no sync of the caller, on P2P   *)
(* and on fallback buffers alike.                                          *)
Coherent == \A w \in Words \ unsynced : View[w] = hbm[w]

(* No call makes the FPGA's memory fall back to an older value: a sync     *)
(* never pushes a shadow the FPGA has overtaken.                           *)
NoResurrection == [][bo' = "none" \/ \A w \in Words : hbm'[w] >= hbm[w]]_p2p_vars

(* bindings.cpp: memcpy_transfer_gpu_to_fpga will "Transfer data GPU→FPGA":*)
(* after it every word of the n elements is new, in the FPGA's memory.     *)
TransferWhole ==
    done.call = "memcpy" =>
        \A w \in Prefix(done.n * WordsPer) : hbm[w] = stamp
================================================================================
