----------------------------- MODULE MemoryProofs ----------------------------
(***************************************************************************)
(* P2PBuffer for a buffer of any size and dtype and any sequence of calls, *)
(* IndexMemory for any entries, segments and sequence of calls, and        *)
(* FrontendSteps for any keys, page sizes and sequence of calls.           *)
(***************************************************************************)
EXTENDS P2PBuffer, IndexMemory, FrontendSteps, FoldTheorems

(* The bound on stamps is of no matter to the proofs. *)
Typed ==
    /\ P2PTypeOK
    /\ \A w \in Words : hbm[w] <= stamp /\ shadow[w] <= stamp
    /\ inflight \subseteq unsynced

(* What makes the flag sound: only a P2P BO is direct, a buffer that calls *)
(* itself P2P was allocated as one, and pages HIP took as IoMemory of a    *)
(* P2P BO are the FPGA's own.                                              *)
Flags ==
    /\ is_p2p => bo = "p2p"
    /\ direct => bo = "p2p"
    /\ RegistrationHeld
    /\ bo = "none" => ~gpu_registered
    /\ pages = "mapped" => ~is_p2p
    /\ pages = "io" /\ bo = "p2p" => direct

(* The FPGA never has a word the shadow lacks, except where the host side  *)
(* wrote one that is newer.                                                *)
ShadowAhead == ~direct => \A w \in Words : shadow[w] >= hbm[w]

PInv == Typed /\ Flags /\ ShadowAhead /\ Coherent

LEMMA SizeNat == Size \in Nat /\ WordsPer \in {1, 2} /\ Count \in Nat \ {0} /\ Count <= Size
<1>1. Count \in Nat \ {0} /\ WordsPer \in {1, 2}
  BY BufferAssumption DEF WordsPer
<1>2. CASE WordsPer = 1
  BY <1>1, <1>2 DEF Size
<1>3. CASE WordsPer = 2
  BY <1>1, <1>3 DEF Size
<1>4. QED
  BY <1>1, <1>2, <1>3

LEMMA PrefixInWords == \A n \in Words : Prefix(n) \subseteq Words
  BY SizeNat DEF Prefix, Words

LEMMA CountInWords == 1 .. Count \subseteq Words
  BY SizeNat DEF Words

(* What writing ws through the mapping does. *)
LEMMA WrittenIs ==
    ASSUME stamp \in Nat, NEW f \in [Words -> Nat], NEW ws
    PROVE  /\ Written(f, ws) \in [Words -> Nat]
           /\ \A w \in Words : Written(f, ws)[w] = IF w \in ws THEN stamp + 1 ELSE f[w]
  BY DEF Written

LEMMA InitP == P2PInit => PInv
<1> SUFFICES ASSUME P2PInit PROVE PInv
  OBVIOUS
<1>1. \A w \in Words : hbm[w] = 0 /\ shadow[w] = 0
  BY DEF P2PInit
<1>2. hbm = shadow
  BY DEF P2PInit
<1>3. Typed
  <2>1. hbm \in [Words -> Nat] /\ shadow \in [Words -> Nat] /\ stamp = 0
    BY DEF P2PInit
  <2>2. direct = FALSE /\ is_p2p = FALSE /\ gpu_registered = FALSE /\ xclbin_loaded = FALSE
    BY DEF P2PInit
  <2>3. direct \in BOOLEAN /\ is_p2p \in BOOLEAN /\ gpu_registered \in BOOLEAN
        /\ xclbin_loaded \in BOOLEAN
    BY <2>2
  <2>4. bo = "none" /\ pages = "none" /\ inflight = {} /\ unsynced = {}
    BY DEF P2PInit
  <2>5. \A w \in Words : hbm[w] <= stamp /\ shadow[w] <= stamp
    BY <1>1, <2>1
  <2>6. QED
    BY <2>1, <2>3, <2>4, <2>5 DEF Typed, P2PTypeOK
<1>4. Flags
  BY DEF P2PInit, Flags, RegistrationHeld
<1>5. ShadowAhead /\ Coherent
  BY <1>1, <1>2 DEF ShadowAhead, Coherent, View
<1>6. QED
  BY <1>3, <1>4, <1>5 DEF PInv

(* The flag is sound wherever it is used. *)
LEMMA FlagSound == P2PTypeOK /\ Flags => SkipsOnlyDirect
  BY DEF Flags, SkipsOnlyDirect, RegistrationHeld, P2PTypeOK

--------------------------------------------------------------------------------
(* The two memories: what every step but the destructor makes of them.     *)

Memories == ShadowAhead /\ Coherent
         /\ hbm \in [Words -> Nat] /\ shadow \in [Words -> Nat] /\ stamp \in Nat
         /\ \A w \in Words : hbm[w] <= stamp /\ shadow[w] <= stamp

LEMMA MemoriesIs == PInv => Memories /\ inflight \subseteq unsynced
                            /\ unsynced \subseteq Words /\ direct \in BOOLEAN
  BY DEF PInv, Typed, P2PTypeOK, Memories

(* Steps that leave the memories alone promise nothing about more words. *)
LEMMA SameMemory ==
    ASSUME Memories, UNCHANGED memories, direct' = direct, unsynced \subseteq unsynced'
    PROVE  Memories'
<1>1. hbm' = hbm /\ shadow' = shadow /\ stamp' = stamp
  BY DEF memories
<1>2. View' = View
  BY <1>1 DEF View
<1>3. ShadowAhead'
  BY <1>1 DEF Memories, ShadowAhead
<1>4. Coherent'
  BY <1>1, <1>2 DEF Memories, Coherent
<1>5. QED
  BY <1>1, <1>3, <1>4 DEF Memories

(* A write through the mapping leaves its words to be synced. *)
LEMMA WriteMemory ==
    ASSUME Memories, NEW ws, WriteMapped(ws), direct' = direct, direct \in BOOLEAN,
           unsynced \cup ws \subseteq unsynced'
    PROVE  Memories' /\ \A w \in Words : hbm'[w] >= hbm[w]
<1>1. stamp' = stamp + 1 /\ stamp' \in Nat
  BY DEF WriteMapped, Memories
<1>2. CASE direct
  <2>1. hbm' = Written(hbm, ws) /\ shadow' = shadow
    BY <1>2 DEF WriteMapped
  <2>2. /\ hbm' \in [Words -> Nat]
        /\ \A w \in Words : hbm'[w] = IF w \in ws THEN stamp + 1 ELSE hbm[w]
    BY <2>1, WrittenIs DEF Memories
  <2>3. ShadowAhead' /\ Coherent'
    BY <1>2 DEF ShadowAhead, Coherent, View
  <2>4. QED
    BY <1>1, <2>1, <2>2, <2>3 DEF Memories
<1>3. CASE ~direct
  <2>1. shadow' = Written(shadow, ws) /\ hbm' = hbm
    BY <1>3 DEF WriteMapped
  <2>2. /\ shadow' \in [Words -> Nat]
        /\ \A w \in Words : shadow'[w] = IF w \in ws THEN stamp + 1 ELSE shadow[w]
    BY <2>1, WrittenIs DEF Memories
  <2>3. ShadowAhead'
    BY <1>3, <2>1, <2>2 DEF ShadowAhead, Memories
  <2>4. Coherent'
    BY <1>3, <2>1, <2>2 DEF Coherent, View, Memories
  <2>5. QED
    BY <1>1, <2>1, <2>2, <2>3, <2>4 DEF Memories
<1>4. QED
  BY <1>2, <1>3

(* After a push or a pull the copies are one, whatever was promised. *)
LEMMA EqualMemories ==
    ASSUME direct' \in BOOLEAN, ~direct' => shadow' = hbm',
           hbm' \in [Words -> Nat], shadow' \in [Words -> Nat], stamp' \in Nat,
           \A w \in Words : hbm'[w] <= stamp' /\ shadow'[w] <= stamp'
    PROVE  Memories'
<1>1. ShadowAhead'
  BY DEF ShadowAhead
<1>2. View' = hbm'
  BY DEF View
<1>3. Coherent'
  BY <1>2 DEF Coherent
<1>4. QED
  BY <1>1, <1>3 DEF Memories

--------------------------------------------------------------------------------
(* One lemma per call. *)

(* PInv from its parts, as the calls establish them. *)
Rest == /\ bo \in {"none", "p2p", "normal"}
        /\ direct \in BOOLEAN /\ is_p2p \in BOOLEAN /\ gpu_registered \in BOOLEAN
        /\ xclbin_loaded \in BOOLEAN
        /\ pages \in {"none", "io", "mapped"}
Promised == inflight \subseteq unsynced /\ unsynced \subseteq Words

LEMMA Parts == PInv <=> Memories /\ Flags /\ Rest /\ Promised
  BY DEF PInv, Typed, P2PTypeOK, Memories, Flags, Rest, Promised

LEMMA PartsNext == Memories' /\ Flags' /\ Rest' /\ Promised' => PInv'
  BY DEF PInv, Typed, P2PTypeOK, Memories, Flags, Rest, Promised

(* What the calls that leave the buffer and its registration alone keep. *)
LEMMA SameFlags ==
    ASSUME Rest, Flags, UNCHANGED <<flags, xclbin_loaded>>
    PROVE  Rest' /\ Flags' /\ direct' = direct /\ direct \in BOOLEAN
  BY DEF Rest, Flags, RegistrationHeld, flags

LEMMA ConstructP == PInv /\ Construct => PInv'
<1> SUFFICES ASSUME PInv, Construct PROVE PInv'
  OBVIOUS
<1>1. Memories /\ Flags /\ Rest /\ Promised
  BY Parts
<1>2. Flags' /\ Rest'
  <2>1. /\ is_p2p' \in BOOLEAN /\ direct' \in BOOLEAN
        /\ bo' \in {"p2p", "normal"}
    BY DEF Construct
  <2>2. /\ gpu_registered' = gpu_registered /\ pages' = pages
        /\ xclbin_loaded' = xclbin_loaded
    BY DEF Construct
  <2>3. bo' = "normal" => ~is_p2p' /\ ~direct'
    BY DEF Construct
  <2>4. Rest'
    BY <1>1, <2>1, <2>2 DEF Rest
  <2>5. ~gpu_registered /\ pages = "none"
    BY <1>1 DEF Flags, RegistrationHeld, Construct
  <2>6. Flags'
    BY <1>1, <2>1, <2>2, <2>3, <2>5 DEF Flags, RegistrationHeld
  <2>7. QED
    BY <2>4, <2>6
<1>3. Promised' /\ UNCHANGED memories
  BY <1>1 DEF Promised, Construct
<1>4. Memories'
  <2>1. hbm' = hbm /\ shadow' = shadow /\ stamp' = stamp /\ unsynced' = unsynced
    BY DEF Construct, memories
  <2>2. direct = FALSE
    BY <1>1 DEF Flags, Construct, Rest
  <2>3. ShadowAhead'
    BY <1>1, <2>1, <2>2 DEF Memories, ShadowAhead
  <2>4. Coherent'
    BY <1>1, <2>1, <2>2 DEF Memories, Coherent, View
  <2>5. QED
    BY <1>1, <2>1, <2>3, <2>4 DEF Memories
<1>5. QED
  BY <1>2, <1>3, <1>4, PartsNext

LEMMA DestroyP == PInv /\ DestroyBuffer => PInv'
<1> SUFFICES ASSUME PInv, DestroyBuffer PROVE PInv'
  OBVIOUS
<1>1. Memories /\ Flags /\ Rest /\ Promised
  BY Parts
<1>2. Rest' /\ Flags'
  <2>1. /\ bo' = "none" /\ xclbin_loaded' = xclbin_loaded
        /\ direct' = FALSE /\ is_p2p' = FALSE /\ gpu_registered' = FALSE
        /\ pages' = IF gpu_registered THEN "none" ELSE pages
    BY DEF DestroyBuffer
  <2>2. direct' \in BOOLEAN /\ is_p2p' \in BOOLEAN /\ gpu_registered' \in BOOLEAN
    BY <2>1
  <2>3. pages' = "none"
    BY <1>1, <2>1 DEF Flags, RegistrationHeld
  <2>4. Rest'
    BY <1>1, <2>1, <2>2, <2>3 DEF Rest
  <2>5. ~direct' /\ ~is_p2p' /\ ~gpu_registered'
    BY <2>1
  <2>6. Flags'
    BY <2>1, <2>3, <2>5 DEF Flags, RegistrationHeld
  <2>7. QED
    BY <2>4, <2>6
<1>4. Promised'
  BY DEF Promised, DestroyBuffer
<1>5. shadow' = hbm' /\ hbm' = [w \in Words |-> 0] /\ stamp' = 0
  BY DEF DestroyBuffer
<1>6. Memories'
  BY <1>2, <1>5, EqualMemories DEF Rest
<1>7. QED
  BY <1>2, <1>4, <1>6, PartsNext

LEMMA RegisterP == PInv /\ RegisterWithGpu => PInv'
<1> SUFFICES ASSUME PInv, RegisterWithGpu PROVE PInv'
  OBVIOUS
<1>1. Memories /\ Flags /\ Rest /\ Promised
  BY Parts
<1>2. /\ bo' = bo /\ direct' = direct /\ xclbin_loaded' = xclbin_loaded
      /\ UNCHANGED memories /\ inflight' = inflight /\ unsynced' = unsynced
  BY DEF RegisterWithGpu
<1>3. Memories' /\ Promised'
  BY <1>1, <1>2, SameMemory DEF Promised
<1>4. Rest' /\ Flags'
  <2>1. CASE UNCHANGED <<is_p2p, gpu_registered, pages>>
    BY <1>1, <1>2, <2>1 DEF Rest, Flags, RegistrationHeld
  <2>2. CASE \E how \in {"io", "mapped"} :
             /\ how = "io" => TakenAsIo
             /\ is_p2p' = IF how = "mapped" THEN P2PAfterFallback ELSE is_p2p
             /\ \/ gpu_registered' = TRUE /\ pages' = how
                \/ gpu_registered' = FALSE /\ pages' = HeldAfterFailure(how)
    <3>1. PICK how \in {"io", "mapped"} :
             /\ how = "io" => TakenAsIo
             /\ is_p2p' = IF how = "mapped" THEN P2PAfterFallback ELSE is_p2p
             /\ \/ gpu_registered' = TRUE /\ pages' = how
                \/ gpu_registered' = FALSE /\ pages' = HeldAfterFailure(how)
      BY <2>2
    <3>2. is_p2p' \in BOOLEAN /\ gpu_registered' \in BOOLEAN
          /\ (how = "mapped" => ~is_p2p') /\ (how = "io" => is_p2p' = is_p2p)
      BY <1>1, <3>1 DEF Rest, P2PAfterFallback
    <3>3. \/ gpu_registered' /\ pages' = how
          \/ ~gpu_registered' /\ pages' = "none"
      <4>1. CASE gpu_registered' = TRUE /\ pages' = how
        BY <4>1
      <4>2. CASE gpu_registered' = FALSE /\ pages' = HeldAfterFailure(how)
        BY <4>2 DEF HeldAfterFailure
      <4>3. QED
        BY <3>1, <4>1, <4>2
    <3>4. how = "io" => direct \/ bo = "normal"
      BY <3>1 DEF TakenAsIo
    <3>5. Rest'
      BY <1>1, <1>2, <3>2, <3>3 DEF Rest
    <3>6. bo # "none"
      BY DEF RegisterWithGpu
    <3>7. (is_p2p' => bo = "p2p") /\ (direct' => bo' = "p2p")
      BY <1>1, <1>2, <3>2 DEF Flags, Rest
    <3>8. /\ gpu_registered' <=> pages' # "none"
          /\ pages' = "mapped" => ~is_p2p'
          /\ pages' = "io" /\ bo' = "p2p" => direct'
      BY <1>2, <3>2, <3>3, <3>4
    <3>9. Flags'
      BY <1>2, <3>6, <3>7, <3>8 DEF Flags, RegistrationHeld
    <3>10. QED
      BY <3>5, <3>9
  <2>3. QED
    BY <2>1, <2>2 DEF RegisterWithGpu
<1>5. QED
  BY <1>3, <1>4, PartsNext

LEMMA UnregisterP == PInv /\ Unregister => PInv'
<1> SUFFICES ASSUME PInv, Unregister PROVE PInv'
  OBVIOUS
<1>1. Memories /\ Flags /\ Rest /\ Promised
  BY Parts
<1>2. Memories' /\ Promised'
  BY <1>1, SameMemory DEF Promised, Unregister
<1>3. Rest' /\ Flags'
  BY <1>1 DEF Rest, Flags, RegistrationHeld, Unregister
<1>4. QED
  BY <1>2, <1>3, PartsNext

(* The host and the GPU write through the mapping. *)
LEMMA WritesP ==
    ASSUME PInv, NEW ws \in SUBSET Words, WriteMapped(ws), UNCHANGED <<flags, xclbin_loaded>>,
           unsynced \cup ws \subseteq unsynced', unsynced' \subseteq Words,
           inflight' \subseteq unsynced'
    PROVE  PInv' /\ \A w \in Words : hbm'[w] >= hbm[w]
<1>1. Memories /\ Flags /\ Rest /\ Promised
  BY Parts
<1>2. Rest' /\ Flags' /\ direct' = direct /\ direct \in BOOLEAN
  BY <1>1, SameFlags
<1>3. Memories' /\ \A w \in Words : hbm'[w] >= hbm[w]
  BY <1>1, <1>2, WriteMemory
<1>4. Promised'
  BY DEF Promised
<1>5. QED
  BY <1>2, <1>3, <1>4, PartsNext

(* The calls that touch neither memory. *)
LEMMA QuietP ==
    ASSUME PInv, UNCHANGED memories, UNCHANGED <<flags>>, xclbin_loaded' \in BOOLEAN,
           unsynced \subseteq unsynced', unsynced' \subseteq Words,
           inflight' \subseteq unsynced'
    PROVE  PInv'
<1>1. Memories /\ Flags /\ Rest /\ Promised
  BY Parts
<1>2. Rest' /\ Flags' /\ direct' = direct
  BY <1>1 DEF Rest, Flags, RegistrationHeld, flags
<1>3. Memories'
  BY <1>1, <1>2, SameMemory
<1>4. Promised'
  BY DEF Promised
<1>5. QED
  BY <1>2, <1>3, <1>4, PartsNext

(* The calls that leave the two copies one. *)
LEMMA SyncsP ==
    ASSUME PInv, UNCHANGED <<flags, xclbin_loaded>>, ~direct => shadow' = hbm',
           hbm' \in [Words -> Nat], shadow' \in [Words -> Nat], stamp' \in Nat,
           \A w \in Words : hbm'[w] <= stamp' /\ shadow'[w] <= stamp',
           unsynced' \subseteq Words, inflight' \subseteq unsynced'
    PROVE  PInv'
<1>1. Memories /\ Flags /\ Rest /\ Promised
  BY Parts
<1>2. Rest' /\ Flags' /\ direct' = direct /\ direct \in BOOLEAN
  BY <1>1, SameFlags
<1>3. Memories'
  BY <1>2, EqualMemories
<1>4. Promised'
  BY DEF Promised
<1>5. QED
  BY <1>2, <1>3, <1>4, PartsNext

(* Two memories with new stamps in some words keep to the bound. *)
LEMMA WrittenBounded ==
    ASSUME stamp \in Nat, NEW f \in [Words -> Nat], NEW ws, \A w \in Words : f[w] <= stamp
    PROVE  /\ Written(f, ws) \in [Words -> Nat]
           /\ \A w \in Words : Written(f, ws)[w] <= stamp + 1
           /\ \A w \in Words : Written(f, ws)[w] >= f[w]
<1>1. /\ Written(f, ws) \in [Words -> Nat]
      /\ \A w \in Words : Written(f, ws)[w] = IF w \in ws THEN stamp + 1 ELSE f[w]
  BY WrittenIs
<1>2. QED
  BY <1>1

--------------------------------------------------------------------------------
(* A step of either kind keeps PInv, and only the destructor lowers the    *)
(* FPGA's memory.                                                          *)
Grows == bo' = "none" \/ \A w \in Words : hbm'[w] >= hbm[w]

LEMMA AccessP ==
    ASSUME PInv, NEW n \in Words, Write(n) \/ WriteBuffer(n) \/ LaunchGpuKernel(n)
    PROVE  PInv' /\ Grows
<1>1. Prefix(n) \in SUBSET Words
  BY PrefixInWords
<1>2. inflight \subseteq unsynced /\ unsynced \subseteq Words /\ xclbin_loaded \in BOOLEAN
  BY DEF PInv, Typed, P2PTypeOK
<1>3. CASE Write(n)
  <2>1. WriteMapped(Prefix(n)) /\ UNCHANGED <<flags, xclbin_loaded>>
        /\ unsynced' = unsynced \cup Prefix(n) /\ inflight' = inflight
    BY <1>3 DEF Write
  <2>2. QED
    BY <1>1, <1>2, <2>1, WritesP DEF Grows
<1>4. CASE WriteBuffer(n)
  <2>1. WriteMapped(Prefix(n)) /\ UNCHANGED <<flags, xclbin_loaded>>
        /\ unsynced' = unsynced \cup Prefix(n) /\ inflight' = inflight
    BY <1>4 DEF WriteBuffer
  <2>2. QED
    BY <1>1, <1>2, <2>1, WritesP DEF Grows
<1>5. CASE LaunchGpuKernel(n)
  <2>1. UNCHANGED memories /\ UNCHANGED <<flags>> /\ xclbin_loaded' = xclbin_loaded
        /\ unsynced' = unsynced \cup Prefix(n) /\ inflight' = Prefix(n)
    BY <1>5 DEF LaunchGpuKernel
  <2>2. PInv'
    BY <1>1, <1>2, <2>1, QuietP
  <2>3. hbm' = hbm /\ hbm \in [Words -> Nat]
    BY <2>1 DEF memories, PInv, Typed, P2PTypeOK
  <2>4. QED
    BY <2>2, <2>3 DEF Grows
<1>6. QED
  BY <1>3, <1>4, <1>5

LEMMA GpuKernelWritesP == PInv /\ GpuKernelWrites => PInv' /\ Grows
<1> SUFFICES ASSUME PInv, GpuKernelWrites PROVE PInv' /\ Grows
  OBVIOUS
<1>1. inflight \subseteq unsynced /\ unsynced \subseteq Words /\ inflight \in SUBSET Words
  BY DEF PInv, Typed, P2PTypeOK
<1>2. WriteMapped(inflight) /\ UNCHANGED <<flags, xclbin_loaded>>
      /\ unsynced' = unsynced /\ inflight' = {}
  BY DEF GpuKernelWrites
<1>3. QED
  BY <1>1, <1>2, WritesP DEF Grows

LEMMA SyncP ==
    ASSUME PInv, SyncToDevice \/ SyncToHost
    PROVE  PInv' /\ Grows
<1>1. /\ hbm \in [Words -> Nat] /\ shadow \in [Words -> Nat] /\ stamp \in Nat
      /\ \A w \in Words : hbm[w] <= stamp /\ shadow[w] <= stamp
      /\ inflight \subseteq Words /\ direct \in BOOLEAN
  BY DEF PInv, Typed, P2PTypeOK
<1>2. CASE SyncToDevice
  <2>1. /\ UNCHANGED <<flags, xclbin_loaded>> /\ shadow' = shadow /\ stamp' = stamp
        /\ inflight' = inflight /\ unsynced' = inflight
        /\ hbm' = IF direct THEN hbm ELSE shadow
    BY <1>2 DEF SyncToDevice, PushNow
  <2>2. ~direct => shadow' = hbm'
    BY <2>1
  <2>3. hbm' \in [Words -> Nat] /\ \A w \in Words : hbm'[w] <= stamp
    BY <1>1, <2>1
  <2>4. PInv'
    BY <1>1, <2>1, <2>2, <2>3, SyncsP
  <2>5. \A w \in Words : hbm'[w] >= hbm[w]
    <3>1. CASE direct
      BY <1>1, <2>1, <3>1
    <3>2. CASE ~direct
      BY <2>1, <3>2 DEF PInv, ShadowAhead
    <3>3. QED
      BY <3>1, <3>2
  <2>6. QED
    BY <2>4, <2>5 DEF Grows
<1>3. CASE SyncToHost
  <2>1. /\ UNCHANGED <<flags, xclbin_loaded>> /\ hbm' = hbm /\ stamp' = stamp
        /\ inflight' = inflight /\ unsynced' = inflight
        /\ shadow' = IF direct THEN shadow ELSE hbm
    BY <1>3 DEF SyncToHost, Pull
  <2>2. ~direct => shadow' = hbm'
    BY <2>1
  <2>3. shadow' \in [Words -> Nat] /\ \A w \in Words : shadow'[w] <= stamp
    BY <1>1, <2>1
  <2>4. PInv'
    BY <1>1, <2>1, <2>2, <2>3, SyncsP
  <2>5. QED
    BY <1>1, <2>1, <2>4 DEF Grows
<1>4. QED
  BY <1>2, <1>3

LEMMA TransferGpuToFpgaP == PInv /\ TransferGpuToFpga => PInv' /\ Grows
<1> SUFFICES ASSUME PInv, TransferGpuToFpga PROVE PInv' /\ Grows
  OBVIOUS
<1>1. /\ hbm \in [Words -> Nat] /\ shadow \in [Words -> Nat] /\ stamp \in Nat
      /\ \A w \in Words : hbm[w] <= stamp /\ shadow[w] <= stamp
      /\ direct \in BOOLEAN
  BY DEF PInv, Typed, P2PTypeOK
<1>2. /\ UNCHANGED <<flags, xclbin_loaded>>
      /\ inflight' = {} /\ unsynced' = {}
  BY DEF TransferGpuToFpga, AfterSynchronize
<1>3. ~direct => \A w \in Words : shadow[w] >= hbm[w]
  BY DEF PInv, ShadowAhead
<1>4. CASE inflight # {}
  <2> DEFINE landed == Written(View, inflight)
  <2>1. stamp' = stamp + 1
    BY <1>4 DEF TransferGpuToFpga, AfterSynchronize
  <2>2. CASE direct
    <3>1. hbm' = landed /\ shadow' = shadow /\ View = hbm
      BY <1>4, <2>2 DEF TransferGpuToFpga, AfterSynchronize, View
    <3>2. /\ hbm' \in [Words -> Nat]
          /\ \A w \in Words : hbm'[w] <= stamp'
          /\ \A w \in Words : hbm'[w] >= hbm[w]
      BY <1>1, <2>1, <3>1, WrittenBounded
    <3>3. \A w \in Words : shadow'[w] <= stamp'
      BY <1>1, <2>1, <3>1
    <3>4. PInv'
      BY <1>1, <1>2, <2>1, <2>2, <3>1, <3>2, <3>3, SyncsP
    <3>5. QED
      BY <3>2, <3>4 DEF Grows
  <2>3. CASE ~direct
    <3>1. hbm' = landed /\ shadow' = landed /\ View = shadow
      BY <1>4, <2>3 DEF TransferGpuToFpga, AfterSynchronize, View
    <3>2. /\ landed \in [Words -> Nat]
          /\ \A w \in Words : landed[w] <= stamp'
          /\ \A w \in Words : landed[w] >= shadow[w]
      BY <1>1, <2>1, <3>1, WrittenBounded
    <3>3. PInv'
      BY <1>1, <1>2, <2>1, <3>1, <3>2, SyncsP
    <3>4. \A w \in Words : landed[w] >= hbm[w]
      BY <1>1, <1>3, <2>3, <3>2
    <3>5. QED
      BY <3>1, <3>3, <3>4 DEF Grows
  <2>4. QED
    BY <2>2, <2>3
<1>5. CASE inflight = {}
  <2>1. /\ hbm' = IF direct THEN hbm ELSE shadow
        /\ shadow' = shadow /\ stamp' = stamp
    BY <1>5 DEF TransferGpuToFpga, PushNow
  <2>2. ~direct => shadow' = hbm'
    BY <2>1
  <2>3. hbm' \in [Words -> Nat] /\ \A w \in Words : hbm'[w] <= stamp
    BY <1>1, <2>1
  <2>4. PInv'
    BY <1>1, <1>2, <2>1, <2>2, <2>3, SyncsP
  <2>5. \A w \in Words : hbm'[w] >= hbm[w]
    BY <1>1, <1>3, <2>1
  <2>6. QED
    BY <2>4, <2>5 DEF Grows
<1>6. QED
  BY <1>4, <1>5

(* The one push that may be left out is left out of direct buffers only. *)
LEMMA MemcpyP ==
    ASSUME PInv, NEW n \in 1 .. Count, MemcpyWriteToFpga(n)
    PROVE  PInv' /\ Grows
<1>1. /\ hbm \in [Words -> Nat] /\ shadow \in [Words -> Nat] /\ stamp \in Nat
      /\ \A w \in Words : hbm[w] <= stamp /\ shadow[w] <= stamp
      /\ direct \in BOOLEAN
  BY DEF PInv, Typed, P2PTypeOK
<1>2. inflight \subseteq unsynced /\ unsynced \subseteq Words
  BY DEF PInv, Typed, P2PTypeOK
<1>3. /\ UNCHANGED <<flags, xclbin_loaded>> /\ inflight' = inflight
      /\ unsynced' = (unsynced \ Prefix(n * WordsPer)) \cup inflight
      /\ stamp' = stamp + 1 /\ gpu_registered
  BY DEF MemcpyWriteToFpga
<1>4. inflight' \subseteq unsynced' /\ unsynced' \subseteq Words
  BY <1>2, <1>3
<1>5. CASE direct
  <2>1. hbm' = Written(hbm, Prefix(n)) /\ shadow' = shadow
    BY <1>5 DEF MemcpyWriteToFpga, View
  <2>2. /\ hbm' \in [Words -> Nat]
        /\ \A w \in Words : hbm'[w] <= stamp'
        /\ \A w \in Words : hbm'[w] >= hbm[w]
    BY <1>1, <1>3, <2>1, WrittenBounded
  <2>3. \A w \in Words : shadow'[w] <= stamp'
    BY <1>1, <1>3, <2>1
  <2>4. PInv'
    BY <1>1, <1>3, <1>4, <1>5, <2>1, <2>2, <2>3, SyncsP
  <2>5. QED
    BY <2>2, <2>4 DEF Grows
<1>6. CASE ~direct
  <2>1. ~is_p2p
    BY <1>3, <1>6, FlagSound DEF PInv, Typed, SkipsOnlyDirect
  <2>2. hbm' = Written(shadow, Prefix(n)) /\ shadow' = Written(shadow, Prefix(n))
    BY <1>6, <2>1 DEF MemcpyWriteToFpga, View, SkipsSync
  <2>3. /\ shadow' \in [Words -> Nat]
        /\ \A w \in Words : shadow'[w] <= stamp'
        /\ \A w \in Words : shadow'[w] >= shadow[w]
    BY <1>1, <1>3, <2>2, WrittenBounded
  <2>4. PInv'
    BY <1>1, <1>3, <1>4, <2>2, <2>3, SyncsP
  <2>5. \A w \in Words : shadow[w] >= hbm[w]
    BY <1>6 DEF PInv, ShadowAhead
  <2>6. \A w \in Words : hbm'[w] >= hbm[w]
    BY <1>1, <2>2, <2>3, <2>5
  <2>7. QED
    BY <2>4, <2>6 DEF Grows
<1>7. QED
  BY <1>5, <1>6

LEMMA GenerateIndicesP ==
    ASSUME PInv, NEW n \in 1 .. Count, GenerateIndices(n)
    PROVE  PInv' /\ Grows
<1>1. /\ hbm \in [Words -> Nat] /\ shadow \in [Words -> Nat] /\ stamp \in Nat
      /\ \A w \in Words : hbm[w] <= stamp /\ shadow[w] <= stamp
      /\ direct \in BOOLEAN /\ inflight \subseteq Words
  BY DEF PInv, Typed, P2PTypeOK
<1>2. /\ UNCHANGED <<flags, xclbin_loaded>> /\ inflight' = inflight /\ unsynced' = inflight
      /\ stamp' = stamp + 1 /\ shadow' = IF direct THEN shadow ELSE hbm'
  BY DEF GenerateIndices, Pull, HostAfterRun
<1>3. PICK k \in 0 .. n : hbm' = Written(hbm, Prefix(k))
  BY DEF GenerateIndices
<1>4. /\ hbm' \in [Words -> Nat]
      /\ \A w \in Words : hbm'[w] <= stamp'
      /\ \A w \in Words : hbm'[w] >= hbm[w]
  BY <1>1, <1>2, <1>3, WrittenBounded
<1>5. shadow' \in [Words -> Nat] /\ \A w \in Words : shadow'[w] <= stamp'
  BY <1>1, <1>2, <1>4
<1>6. PInv'
  BY <1>1, <1>2, <1>4, <1>5, SyncsP
<1>7. QED
  BY <1>4, <1>6 DEF Grows

(* The calls that leave the FPGA's memory alone, the destructor aside. *)
LEMMA KeepsGrow == PInv /\ hbm' = hbm => Grows
  BY DEF PInv, Typed, P2PTypeOK, Grows

LEMMA StepP == PInv /\ [P2PNext]_p2p_vars => PInv' /\ (Grows \/ UNCHANGED p2p_vars)
<1> SUFFICES ASSUME PInv, [P2PNext]_p2p_vars PROVE PInv' /\ (Grows \/ UNCHANGED p2p_vars)
  OBVIOUS
<1>1. CASE Construct
  BY <1>1, ConstructP, KeepsGrow DEF Construct, memories
<1>2. CASE DestroyBuffer
  BY <1>2, DestroyP DEF DestroyBuffer, Grows
<1>3. CASE RegisterWithGpu
  BY <1>3, RegisterP, KeepsGrow DEF RegisterWithGpu, memories
<1>4. CASE Unregister
  BY <1>4, UnregisterP, KeepsGrow DEF Unregister, memories
<1>5. CASE \E n \in Words : Write(n) \/ WriteBuffer(n) \/ LaunchGpuKernel(n)
  BY <1>5, AccessP
<1>6. CASE GpuKernelWrites
  BY <1>6, GpuKernelWritesP
<1>7. CASE SyncToDevice \/ SyncToHost
  BY <1>7, SyncP
<1>8. CASE TransferGpuToFpga
  BY <1>8, TransferGpuToFpgaP
<1>9. CASE \E n \in 1 .. Count : MemcpyWriteToFpga(n) \/ GenerateIndices(n)
  BY <1>9, MemcpyP, GenerateIndicesP
<1>10. CASE LoadXclbin
  <2>1. /\ UNCHANGED memories /\ UNCHANGED <<flags>> /\ xclbin_loaded' \in BOOLEAN
        /\ unsynced' = unsynced /\ inflight' = inflight
    BY <1>10 DEF LoadXclbin
  <2>2. inflight \subseteq unsynced /\ unsynced \subseteq Words
    BY DEF PInv, Typed, P2PTypeOK
  <2>3. PInv'
    BY <2>1, <2>2, QuietP
  <2>4. QED
    BY <2>1, <2>3, KeepsGrow DEF memories
<1>11. CASE UNCHANGED p2p_vars
  <2>1. /\ UNCHANGED memories /\ UNCHANGED <<flags>> /\ xclbin_loaded' = xclbin_loaded
        /\ unsynced' = unsynced /\ inflight' = inflight
    BY <1>11 DEF p2p_vars
  <2>2. /\ inflight \subseteq unsynced /\ unsynced \subseteq Words
        /\ xclbin_loaded \in BOOLEAN
    BY DEF PInv, Typed, P2PTypeOK
  <2>3. PInv'
    BY <2>1, <2>2, QuietP
  <2>4. QED
    BY <1>11, <2>3
<1>12. QED
  BY <1>1, <1>2, <1>3, <1>4, <1>5, <1>6, <1>7, <1>8, <1>9, <1>10, <1>11 DEF P2PNext

--------------------------------------------------------------------------------
(* On buffers of any size and dtype, after any calls: the push is left out *)
(* only where there is nothing to push, the registration is never leaked,  *)
(* and the FPGA sees every word somebody asked to have synced.             *)
THEOREM BufferSound == P2PSpec => [](P2PTypeOK /\ SkipsOnlyDirect /\ RegistrationHeld /\ Coherent)
<1>1. PInv => P2PTypeOK /\ SkipsOnlyDirect /\ RegistrationHeld /\ Coherent
  BY FlagSound DEF PInv, Typed, Flags
<1>2. QED
  BY InitP, StepP, <1>1, PTL DEF P2PSpec

(* No call on a buffer puts an older value back into the FPGA's memory. *)
THEOREM NeverOlder == P2PSpec => NoResurrection
<1>1. PInv /\ [P2PNext]_p2p_vars => [Grows]_p2p_vars
  BY StepP
<1>2. QED
  BY InitP, StepP, <1>1, PTL DEF P2PSpec, NoResurrection, Grows

LEMMA OtherCalls ==
    ASSUME P2PNext, ~\E n \in 1 .. Count : MemcpyWriteToFpga(n)
    PROVE  done'.call # "memcpy"
<1>1. CASE Construct \/ DestroyBuffer \/ RegisterWithGpu \/ Unregister
  BY <1>1 DEF Construct, DestroyBuffer, RegisterWithGpu, Unregister, Did
<1>2. CASE \E n \in Words : Write(n) \/ WriteBuffer(n) \/ LaunchGpuKernel(n)
  BY <1>2 DEF Write, WriteBuffer, LaunchGpuKernel, Did
<1>3. CASE GpuKernelWrites \/ SyncToDevice \/ SyncToHost \/ TransferGpuToFpga \/ LoadXclbin
  BY <1>3 DEF GpuKernelWrites, SyncToDevice, SyncToHost, TransferGpuToFpga, LoadXclbin, Did
<1>4. CASE \E n \in 1 .. Count : GenerateIndices(n)
  <2>1. PICK n \in 1 .. Count : GenerateIndices(n)
    BY <1>4
  <2>2. PICK k \in 0 .. n : done' = [call |-> IF k = n THEN "generate" ELSE "aborted", n |-> n]
    BY <2>1 DEF GenerateIndices
  <2>3. QED
    BY <2>2
<1>5. QED
  BY <1>1, <1>2, <1>3, <1>4 DEF P2PNext

LEMMA MemcpyWhole ==
    ASSUME PInv, WordsPer = 1, NEW n \in 1 .. Count, MemcpyWriteToFpga(n)
    PROVE  TransferWhole'
<1>1. /\ done' = [call |-> "memcpy", n |-> n] /\ stamp' = stamp + 1 /\ gpu_registered
  BY DEF MemcpyWriteToFpga, Did
<1>2. Prefix(n * WordsPer) = Prefix(n) /\ Prefix(n) \subseteq Words
  BY SizeNat, CountInWords DEF Prefix
<1>3. hbm' = Written(View, Prefix(n))
  <2>1. direct \/ ~is_p2p
    BY <1>1, FlagSound DEF PInv, Typed, SkipsOnlyDirect
  <2>2. QED
    BY <2>1 DEF MemcpyWriteToFpga, View, SkipsSync
<1>4. \A w \in Prefix(n) : hbm'[w] = stamp'
  BY <1>1, <1>2, <1>3 DEF Written
<1>5. QED
  BY <1>1, <1>2, <1>4 DEF TransferWhole

(* Buffers of 4-byte elements of any size: after a memcpy transfer, on any *)
(* kind of mapping, the FPGA's memory holds all of the new elements.       *)
THEOREM WordTransfersWhole ==
    ASSUME WordsPer = 1
    PROVE  P2PSpec => []TransferWhole
<1>1. P2PInit => TransferWhole
  BY DEF P2PInit, TransferWhole
<1>2. PInv /\ TransferWhole /\ [P2PNext]_p2p_vars => TransferWhole'
  <2> SUFFICES ASSUME PInv, TransferWhole, [P2PNext]_p2p_vars PROVE TransferWhole'
    OBVIOUS
  <2>1. CASE \E n \in 1 .. Count : MemcpyWriteToFpga(n)
    BY <2>1, MemcpyWhole
  <2>2. CASE P2PNext /\ ~\E n \in 1 .. Count : MemcpyWriteToFpga(n)
    BY <2>2, OtherCalls DEF TransferWhole
  <2>3. CASE UNCHANGED p2p_vars
    BY <2>3 DEF p2p_vars, memories, TransferWhole, Prefix
  <2>4. QED
    BY <2>1, <2>2, <2>3
<1>3. QED
  BY InitP, StepP, <1>1, <1>2, PTL DEF P2PSpec

-------------------------------------------------------------------------------
(***************************************************************************)
(* The index memories: a list of entries in a vector of vectors.           *)
(***************************************************************************)

(* The vectors there may be *)
Vectors == Names \X (1 .. 2 + SegmentEntries)

(* The data are whole entries, and the count beside them is right. *)
Whole(d, n) == n \in Nat /\ Len(d) = n * Group /\ d \in Seq(Vectors)
MemInv == kind \in MemoryKinds /\ num_entries = Len(data) /\ \E n \in Nat : Whole(data, n)

LEMMA GroupNat == ASSUME IndexAssumption, kind \in MemoryKinds PROVE Group \in Nat \ {0}
  BY DEF IndexAssumption, Group

(* Vector j of entry i of the list is at its place in the data. *)
LEMMA EntriesAre ==
    ASSUME IndexAssumption, kind \in MemoryKinds, NEW d, NEW n, Whole(d, n)
    PROVE  /\ Len(d) \div Group = n
           /\ Len(EntriesOf(d)) = n /\ DOMAIN EntriesOf(d) = 1 .. n
           /\ EntriesOf(d) \in Seq(Seq(Vectors))
           /\ \A i \in 1 .. n : EntriesOf(d)[i] = SubSeq(d, (i - 1) * Group + 1, i * Group)
<1>1. Group \in Nat \ {0} /\ n \in Nat /\ d \in Seq(Vectors) /\ Len(d) = n * Group
  BY GroupNat DEF Whole
<1>2. (n * Group + 0) \div Group = n /\ n * Group \in Nat
  <2>1. 0 \in 0 .. Group - 1
    BY <1>1
  <2> QED
    BY <1>1, <2>1, DivMod
<1>3. Len(d) \div Group = n
  BY <1>1, <1>2
<1>4. EntriesOf(d) = [i \in 1 .. n |-> SubSeq(d, (i - 1) * Group + 1, i * Group)]
  BY <1>3 DEF EntriesOf
<1>5. ASSUME NEW i \in 1 .. n PROVE SubSeq(d, (i - 1) * Group + 1, i * Group) \in Seq(Vectors)
  <2>1. (i - 1) * Group >= 0 /\ i * Group <= n * Group /\ (i - 1) * Group \in Nat /\ i * Group \in Nat
    BY <1>1, TimesLess
  <2> QED
    BY <1>1, <2>1
<1>6. \A i \in 1 .. n : EntriesOf(d)[i] = SubSeq(d, (i - 1) * Group + 1, i * Group)
  BY <1>4
<1>7. EntriesOf(d) \in Seq(Seq(Vectors)) /\ Len(EntriesOf(d)) = n /\ DOMAIN EntriesOf(d) = 1 .. n
  <2>1. EntriesOf(d) \in [1 .. n -> Seq(Vectors)]
    BY <1>4, <1>5
  <2> QED
    BY <1>1, <2>1
<1> QED
  BY <1>3, <1>6, <1>7

(* Entries keep apart when data are cut between them, *)
LEMMA PieceIs ==
    ASSUME IndexAssumption, kind \in MemoryKinds, NEW d, NEW n, Whole(d, n),
           NEW a \in 0 .. n, NEW b \in a .. n
    PROVE  /\ Whole(SubSeq(d, a * Group + 1, b * Group), b - a)
           /\ EntriesOf(SubSeq(d, a * Group + 1, b * Group)) = SubSeq(EntriesOf(d), a + 1, b)
<1> DEFINE p == SubSeq(d, a * Group + 1, b * Group)
<1>1. Group \in Nat \ {0} /\ n \in Nat /\ d \in Seq(Vectors) /\ Len(d) = n * Group
      /\ a \in Nat /\ b \in Nat /\ b - a \in Nat
  BY GroupNat DEF Whole
<1>2. a * Group \in Nat /\ b * Group \in Nat /\ n * Group \in Nat
      /\ a * Group <= b * Group /\ b * Group <= n * Group
  BY <1>1, TimesLess
<1>3. (b - a) * Group = b * Group - a * Group
  BY <1>1
<1>4. /\ p \in Seq(Vectors) /\ Len(p) = b * Group - a * Group
      /\ \A j \in 1 .. b * Group - a * Group : p[j] = d[a * Group + j]
  <2> DEFINE u == a * Group
             v == b * Group
             w == n * Group
  <2>1. u \in Nat /\ v \in Nat /\ u <= v /\ v <= w /\ w \in Nat /\ Len(d) = w /\ d \in Seq(Vectors)
    BY <1>1, <1>2
  <2> HIDE DEF u, v, w
  <2>2. /\ SubSeq(d, u + 1, v) \in Seq(Vectors) /\ Len(SubSeq(d, u + 1, v)) = v - u
        /\ \A j \in 1 .. v - u : SubSeq(d, u + 1, v)[j] = d[u + j]
    BY <2>1
  <2> QED
    BY <2>2 DEF u, v
<1>5. Whole(p, b - a)
  BY <1>1, <1>3, <1>4 DEF Whole
<1>6. ASSUME NEW i \in 1 .. b - a PROVE EntriesOf(p)[i] = SubSeq(EntriesOf(d), a + 1, b)[i]
  <2>1. EntriesOf(p)[i] = SubSeq(p, (i - 1) * Group + 1, i * Group)
    BY <1>5, EntriesAre
  <2>2. SubSeq(EntriesOf(d), a + 1, b)[i] = SubSeq(d, (a + i - 1) * Group + 1, (a + i) * Group)
    <3>1. EntriesOf(d) \in Seq(Seq(Vectors)) /\ Len(EntriesOf(d)) = n /\ a + i \in 1 .. n
      BY <1>1, EntriesAre
    <3>2. SubSeq(EntriesOf(d), a + 1, b)[i] = EntriesOf(d)[a + i]
      <4> DEFINE e == EntriesOf(d)
      <4>1. n \in Nat /\ a \in 0 .. n /\ b \in a .. n /\ i \in 1 .. b - a
        BY <1>1
      <4> HIDE DEF e, p
      <4>2. e \in Seq(Seq(Vectors)) /\ Len(e) = n
        BY <3>1 DEF e
      <4>3. SubSeq(e, a + 1, b)[i] = e[a + i]
        BY <4>1, <4>2
      <4> QED
        BY <4>3 DEF e
    <3> QED
      BY <3>1, <3>2, EntriesAre
  <2>3. (a + i - 1) * Group = a * Group + (i - 1) * Group /\ (a + i) * Group = a * Group + i * Group
        /\ i * Group = (i - 1) * Group + Group
    BY <1>1
  <2>4. i * Group <= (b - a) * Group /\ (i - 1) * Group \in Nat /\ i * Group \in Nat
    BY <1>1, TimesLess
  <2> DEFINE u == a * Group
             v == b * Group
             w == n * Group
             x == (i - 1) * Group
             y == i * Group
  <2>5. /\ u \in Nat /\ v \in Nat /\ v <= w /\ w \in Nat /\ Len(d) = w /\ d \in Seq(Vectors)
        /\ x \in Nat /\ y \in Nat /\ y = x + Group /\ y <= v - u
        /\ p \in Seq(Vectors) /\ Len(p) = v - u /\ \A j \in 1 .. v - u : p[j] = d[u + j]
    BY <1>1, <1>2, <1>3, <1>4, <2>3, <2>4
  <2> HIDE DEF p, u, v, w, x, y
  <2>6. SubSeq(p, x + 1, y) = SubSeq(d, u + x + 1, u + y)
    <3>1. SubSeq(p, x + 1, y) = [j \in 1 .. y - x |-> p[x + j]]
      BY <2>5
    <3>2. SubSeq(d, u + x + 1, u + y) = [j \in 1 .. y - x |-> d[u + x + j]]
      BY <2>5
    <3>3. \A j \in 1 .. y - x : x + j \in 1 .. v - u /\ p[x + j] = d[u + x + j]
      BY <1>1, <2>5
    <3> QED
      BY <3>1, <3>2, <3>3
  <2> QED
    BY <2>1, <2>2, <2>3, <2>6 DEF u, x, y
<1>7. EntriesOf(d) \in Seq(Seq(Vectors)) /\ Len(EntriesOf(d)) = n
      /\ EntriesOf(p) \in Seq(Seq(Vectors)) /\ Len(EntriesOf(p)) = b - a
  BY <1>5, EntriesAre
<1>8. SubSeq(EntriesOf(d), a + 1, b) \in Seq(Seq(Vectors)) /\ Len(SubSeq(EntriesOf(d), a + 1, b)) = b - a
  BY <1>1, <1>7
<1> HIDE DEF p
<1>9. EntriesOf(p) = SubSeq(EntriesOf(d), a + 1, b)
  BY <1>6, <1>7, <1>8, SeqEqual
<1> QED
  BY <1>5, <1>9 DEF p

(* and when data are joined. *)
LEMMA JoinIs ==
    ASSUME IndexAssumption, kind \in MemoryKinds, NEW d, NEW n, Whole(d, n), NEW e, NEW m, Whole(e, m)
    PROVE  Whole(d \o e, n + m) /\ EntriesOf(d \o e) = EntriesOf(d) \o EntriesOf(e)
<1>1. Group \in Nat \ {0} /\ n \in Nat /\ d \in Seq(Vectors) /\ Len(d) = n * Group
      /\ m \in Nat /\ e \in Seq(Vectors) /\ Len(e) = m * Group
  BY GroupNat DEF Whole
<1>2. (n + m) * Group = n * Group + m * Group /\ n * Group \in Nat /\ m * Group \in Nat
  BY <1>1, TimesLess
<1>3. d \o e \in Seq(Vectors) /\ Len(d \o e) = Len(d) + Len(e)
  BY <1>1
<1>4. \A i \in 1 .. Len(d) : (d \o e)[i] = d[i]
  BY <1>1
<1>5. \A i \in 1 .. Len(e) : (d \o e)[Len(d) + i] = e[i]
  BY <1>1
<1>6. Whole(d \o e, n + m)
  BY <1>1, <1>2, <1>3 DEF Whole
<1>7. /\ EntriesOf(d) \in Seq(Seq(Vectors)) /\ Len(EntriesOf(d)) = n
      /\ EntriesOf(e) \in Seq(Seq(Vectors)) /\ Len(EntriesOf(e)) = m
      /\ EntriesOf(d \o e) \in Seq(Seq(Vectors)) /\ Len(EntriesOf(d \o e)) = n + m
  BY <1>1, <1>6, EntriesAre
<1>10. ASSUME NEW i \in 1 .. n + m
       PROVE  EntriesOf(d \o e)[i] = (EntriesOf(d) \o EntriesOf(e))[i]
  <2>1. EntriesOf(d \o e)[i] = SubSeq(d \o e, (i - 1) * Group + 1, i * Group)
    BY <1>6, EntriesAre
  <2>2. CASE i \in 1 .. n
    <3>1. (EntriesOf(d) \o EntriesOf(e))[i] = SubSeq(d, (i - 1) * Group + 1, i * Group)
      <4>1. (EntriesOf(d) \o EntriesOf(e))[i] = EntriesOf(d)[i]
        BY <1>7, <2>2
      <4> QED
        BY <2>2, <4>1, EntriesAre
    <3>2. (i - 1) * Group <= i * Group /\ i * Group <= n * Group
          /\ (i - 1) * Group \in Nat /\ i * Group \in Nat
      BY <1>1, <2>2, TimesLess
    <3>3. SubSeq(d \o e, (i - 1) * Group + 1, i * Group) = SubSeq(d, (i - 1) * Group + 1, i * Group)
      <4>1. i * Group = (i - 1) * Group + Group
        BY <1>1
      <4>2. (i - 1) * Group + 1 \in 1 .. Len(d) /\ i * Group \in 1 .. Len(d)
        BY <1>1, <1>2, <3>2, <4>1
      <4> QED
        BY <1>1, <4>2, SubSeqOfConcat1
    <3> QED
      BY <2>1, <3>1, <3>3
  <2>3. CASE i \in n + 1 .. n + m
    <3> DEFINE k == i - n
    <3>1. k \in 1 .. m /\ i = n + k /\ k \in Nat /\ k - 1 \in Nat
      BY <1>1, <2>3
    <3> HIDE DEF k
    <3>2. (EntriesOf(d) \o EntriesOf(e))[i] = SubSeq(e, (k - 1) * Group + 1, k * Group)
      <4>1. (EntriesOf(d) \o EntriesOf(e))[n + k] = EntriesOf(e)[k]
        <5> DEFINE u == EntriesOf(d)
                   v == EntriesOf(e)
        <5>1. u \in Seq(Seq(Vectors)) /\ v \in Seq(Seq(Vectors)) /\ Len(u) = n /\ Len(v) = m
          BY <1>7
        <5> HIDE DEF u, v
        <5>2. \A j \in 1 .. Len(v) : (u \o v)[Len(u) + j] = v[j]
          BY <5>1
        <5>3. (u \o v)[n + k] = v[k]
          BY <3>1, <5>1, <5>2
        <5> QED
          BY <5>3 DEF u, v
      <4> QED
        BY <3>1, <4>1, EntriesAre
    <3>3. (k - 1) * Group <= k * Group /\ k * Group <= m * Group
          /\ (k - 1) * Group \in Nat /\ k * Group \in Nat
      BY <1>1, <3>1, TimesLess
    <3>4. i * Group = n * Group + k * Group /\ (i - 1) * Group = n * Group + (k - 1) * Group
      <4>1. (n + k) * Group = n * Group + k * Group
            /\ (n + (k - 1)) * Group = n * Group + (k - 1) * Group
        BY <1>1, <3>1
      <4>2. i = n + k /\ i - 1 = n + (k - 1)
        BY <1>1, <3>1
      <4> QED
        BY <4>1, <4>2
    <3>5. SubSeq(d \o e, n * Group + (k - 1) * Group + 1, n * Group + k * Group)
          = SubSeq(e, (k - 1) * Group + 1, k * Group)
      <4>1. k * Group = (k - 1) * Group + Group
        BY <1>1, <3>1
      <4> DEFINE x == n * Group + (k - 1) * Group + 1
                 y == n * Group + k * Group
      <4>2. /\ x \in Len(d) + 1 .. Len(d) + Len(e) /\ y \in Len(d) + 1 .. Len(d) + Len(e)
            /\ x - Len(d) = (k - 1) * Group + 1 /\ y - Len(d) = k * Group
        <5> DEFINE g == n * Group
                   h == m * Group
                   a == (k - 1) * Group
                   b == k * Group
        <5>1. /\ g \in Nat /\ h \in Nat /\ a \in Nat /\ b \in Nat /\ Len(d) = g /\ Len(e) = h
              /\ b = a + Group /\ b <= h /\ Group \in Nat \ {0}
          BY <1>1, <1>2, <3>3, <4>1
        <5>2. x = g + a + 1 /\ y = g + b
          OBVIOUS
        <5>3. a = (k - 1) * Group
          OBVIOUS
        <5> HIDE DEF g, h, a, b, x, y
        <5>4. /\ g + a + 1 \in g + 1 .. g + h /\ g + b \in g + 1 .. g + h
              /\ g + a + 1 - g = a + 1 /\ g + b - g = b
          BY <5>1
        <5>5. /\ x \in Len(d) + 1 .. Len(d) + Len(e) /\ y \in Len(d) + 1 .. Len(d) + Len(e)
              /\ x - Len(d) = a + 1 /\ y - Len(d) = b
          BY <5>2, <5>1, <5>4
        <5>6. y - Len(d) = k * Group
          BY <5>5 DEF b
        <5> QED
          BY <5>5, <5>3, <5>6
      <4> HIDE DEF x, y
      <4>3. SubSeq(d \o e, x, y) = SubSeq(e, x - Len(d), y - Len(d))
        BY <1>1, <4>2, SubSeqOfConcat2
      <4> QED
        BY <4>2, <4>3 DEF x, y
    <3> QED
      <4>1. EntriesOf(d \o e)[i] = SubSeq(d \o e, n * Group + (k - 1) * Group + 1, n * Group + k * Group)
        BY <2>1, <3>4
      <4> QED
        BY <3>2, <3>5, <4>1
  <2>4. i \in 1 .. n \/ i \in n + 1 .. n + m
    BY <1>1
  <2> QED
    BY <2>2, <2>3, <2>4
<1>11. EntriesOf(d) \o EntriesOf(e) \in Seq(Seq(Vectors))
       /\ Len(EntriesOf(d) \o EntriesOf(e)) = Len(EntriesOf(d)) + Len(EntriesOf(e))
  BY <1>7, ConcatProperties
<1>12. EntriesOf(d \o e) = EntriesOf(d) \o EntriesOf(e)
  BY <1>1, <1>7, <1>10, <1>11, SeqEqual
<1> QED
  BY <1>6, <1>12

LEMMA NoEntries ==
    ASSUME IndexAssumption, kind \in MemoryKinds, NEW d, Whole(d, 0)
    PROVE  d = <<>> /\ EntriesOf(d) = <<>>
<1>1. Group \in Nat \ {0} /\ 0 * Group = 0
  BY GroupNat
<1>2. d \in Seq(Vectors) /\ Len(d) = 0
  BY <1>1 DEF Whole
<1>3. EntriesOf(d) \in Seq(Seq(Vectors)) /\ Len(EntriesOf(d)) = 0
  BY EntriesAre
<1> QED
  BY <1>2, <1>3

(* The vectors of one entry *)
LEMMA OneEntry ==
    ASSUME IndexAssumption, kind \in MemoryKinds, NEW e \in Seq(Vectors), Len(e) = Group
    PROVE  Whole(e, 1) /\ EntriesOf(e) = <<e>>
<1>1. Group \in Nat \ {0} /\ 1 * Group = Group /\ (1 - 1) * Group = 0
  BY GroupNat
<1>2. Whole(e, 1)
  BY <1>1 DEF Whole
<1>3. EntriesOf(e)[1] = SubSeq(e, (1 - 1) * Group + 1, 1 * Group)
  <2>1. \A i \in 1 .. 1 : EntriesOf(e)[i] = SubSeq(e, (i - 1) * Group + 1, i * Group)
    BY <1>2, EntriesAre
  <2> QED
    BY <2>1
<1>4. SubSeq(e, 1, Len(e)) = e
  BY SubSeqFull
<1>5. EntriesOf(e)[1] = e
  BY <1>1, <1>3, <1>4
<1>6. EntriesOf(e) \in Seq(Seq(Vectors)) /\ Len(EntriesOf(e)) = 1
  BY <1>2, EntriesAre
<1>7. EntriesOf(e) = <<e>>
  BY <1>5, <1>6
<1> QED
  BY <1>2, <1>7

(* The entries one after another are the data. *)
LEMMA FlattenEntries ==
    ASSUME IndexAssumption, kind \in MemoryKinds, NEW d, NEW n, Whole(d, n)
    PROVE  FlattenSeq(EntriesOf(d)) = d
<1> DEFINE S == {m \in Nat : \A c \in Seq(Vectors) : Whole(c, m) => FlattenSeq(EntriesOf(c)) = c}
<1>1. 0 \in S
  <2>1. FlattenSeq(<<>>) = <<>>
    BY DEF FlattenSeq
  <2> QED
    BY <2>1, NoEntries
<1>2. ASSUME NEW m \in Nat, m \in S PROVE m + 1 \in S
  <2> SUFFICES ASSUME NEW c \in Seq(Vectors), Whole(c, m + 1) PROVE FlattenSeq(EntriesOf(c)) = c
    OBVIOUS
  <2>1. Group \in Nat \ {0} /\ 0 * Group = 0 /\ m * Group \in Nat /\ (m + 1) * Group = m * Group + Group
        /\ Len(c) = (m + 1) * Group
    BY GroupNat DEF Whole
  <2> DEFINE p == SubSeq(c, 1, m * Group)
             q == SubSeq(c, m * Group + 1, (m + 1) * Group)
  <2>2. Whole(p, m)
    <3>1. 0 \in 0 .. m + 1 /\ m \in 0 .. m + 1
      OBVIOUS
    <3>2. Whole(SubSeq(c, 0 * Group + 1, m * Group), m - 0)
      BY <3>1, PieceIs
    <3>3. 0 * Group + 1 = 1 /\ m - 0 = m
      BY <2>1
    <3> QED
      BY <3>2, <3>3
  <2>3. Whole(q, m + 1 - m)
    BY PieceIs
  <2>4. p \in Seq(Vectors) /\ q \in Seq(Vectors) /\ Len(q) = Group
    BY <2>1, <2>2, <2>3 DEF Whole
  <2>5. p \o q = c
    <3> DEFINE x == m * Group
    <3>1. x \in Nat /\ Len(c) = x + Group /\ (m + 1) * Group = x + Group
      BY <2>1
    <3> HIDE DEF x
    <3>2. 1 \in 1 .. Len(c) + 1 /\ x \in 1 - 1 .. Len(c) /\ Len(c) \in x .. Len(c)
      BY <2>1, <3>1
    <3>3. SubSeq(c, 1, x) \o SubSeq(c, x + 1, Len(c)) = SubSeq(c, 1, Len(c))
      BY <3>2, ConcatAdjacentSubSeq
    <3>4. SubSeq(c, 1, Len(c)) = c
      BY SubSeqFull
    <3> QED
      BY <3>1, <3>3, <3>4 DEF x
  <2> HIDE DEF p, q
  <2>6. EntriesOf(q) = <<q>> /\ Whole(q, 1)
    BY <2>4, OneEntry
  <2>7. EntriesOf(c) = EntriesOf(p) \o <<q>>
    BY <2>2, <2>5, <2>6, JoinIs
  <2>8. EntriesOf(p) \in Seq(Seq(Vectors))
    BY <2>2, EntriesAre
  <2>9. EntriesOf(c) = Append(EntriesOf(p), q)
    BY <2>4, <2>7, <2>8, AppendIsConcat
  <2>10. FlattenSeq(EntriesOf(p)) = p
    BY <1>2, <2>2, <2>4
  <2> QED
    BY <2>4, <2>5, <2>8, <2>9, <2>10, FlattenAppend
<1>3. Nat \subseteq S
  <2> HIDE DEF S
  <2> QED
    BY <1>1, <1>2, Numbers
<1> QED
  BY <1>3 DEF Whole

LEMMA EntryIs ==
    ASSUME IndexAssumption, kind \in MemoryKinds, NEW name \in Names
    PROVE  /\ NewEntry(name) \in Seq(Vectors) /\ Len(NewEntry(name)) = Group
           /\ NewEntry(name) \in AnyEntry
<1>1. Group \in {1, 2, SegmentEntries} /\ Group \in Nat /\ Group <= 2 + SegmentEntries
  BY DEF IndexAssumption, Group
<1>2. \A i \in 1 .. Group : <<name, i>> \in Vectors
  BY <1>1 DEF Vectors, IndexAssumption
<1>3. NewEntry(name) \in [1 .. Group -> Vectors]
  BY <1>2 DEF NewEntry
<1>4. NewEntry(name) \in Seq(Vectors) /\ Len(NewEntry(name)) = Group
  BY <1>1, <1>3
<1> QED
  BY <1>1, <1>4 DEF NewEntry, AnyEntry

(* What a call leaves: whole entries, and the list after a step of it. *)
Kept == num_entries' = Len(data') /\ \E n \in Nat : Whole(data', n)
ListMoves(e, f) ==
    \/ f = e /\ result' = List!Thrown
    \/ e # <<>> /\ f = Front(e) /\ result' = List!Done
    \/ \E x \in AnyEntry : f = Append(e, x) /\ result' = List!Done
    \/ \E i \in 1 .. Len(e) :
          \/ f = RemoveAt(e, i) /\ result' = List!Done
          \/ f = e /\ result' = List!Returned(e[i])
          \/ \E n \in 1 .. Len(e) : /\ i * n \in n .. Len(e) /\ f = e
                /\ result' = List!Returned(FlattenSeq(SubSeq(e, (i - 1) * n + 1, i * n)))
    \/ f = e /\ result' = result

LEMMA ThrowKeeps ==
    ASSUME MemInv, Throws
    PROVE  Kept /\ ListMoves(EntriesOf(data), EntriesOf(data'))
  BY DEF MemInv, Throws, Kept, ListMoves

LEMMA InsertStep ==
    ASSUME IndexAssumption, MemInv, NEW name \in Names, insert_memory(name)
    PROVE  Kept /\ ListMoves(EntriesOf(data), EntriesOf(data'))
<1>1. CASE Throws
  BY <1>1, ThrowKeeps
<1>2. CASE data' = data \o NewEntry(name) /\ num_entries' = num_entries + Group /\ result' = List!Done
  <2>1. PICK n \in Nat : Whole(data, n)
    BY DEF MemInv
  <2>2. kind \in MemoryKinds /\ num_entries = Len(data)
    BY DEF MemInv
  <2>3. NewEntry(name) \in Seq(Vectors) /\ Len(NewEntry(name)) = Group /\ NewEntry(name) \in AnyEntry
    BY <2>2, EntryIs
  <2>4. Whole(NewEntry(name), 1) /\ EntriesOf(NewEntry(name)) = <<NewEntry(name)>>
    BY <2>2, <2>3, OneEntry
  <2>5. Whole(data', n + 1) /\ EntriesOf(data') = EntriesOf(data) \o <<NewEntry(name)>>
    BY <1>2, <2>1, <2>2, <2>4, JoinIs
  <2>6. EntriesOf(data') = Append(EntriesOf(data), NewEntry(name))
    <3>1. EntriesOf(data) \in Seq(Seq(Vectors))
      BY <2>1, <2>2, EntriesAre
    <3> QED
      BY <2>3, <2>5, <3>1, AppendIsConcat
  <2>7. num_entries' = Len(data')
    <3>1. data \in Seq(Vectors)
      BY <2>1 DEF Whole
    <3> QED
      BY <1>2, <2>2, <2>3, <3>1
  <2> QED
    BY <1>2, <2>1, <2>3, <2>5, <2>6, <2>7 DEF Kept, ListMoves
<1> QED
  BY <1>1, <1>2 DEF insert_memory

LEMMA PopStep ==
    ASSUME IndexAssumption, MemInv, pop_last_memory
    PROVE  Kept /\ ListMoves(EntriesOf(data), EntriesOf(data'))
<1>1. CASE Throws
  BY <1>1, ThrowKeeps
<1>2. CASE /\ ~(num_entries < (IF kind = "hmt" THEN Group ELSE 1))
           /\ data' = Cut(Group) /\ num_entries' = num_entries - Group /\ result' = List!Done
  <2>1. PICK n \in Nat : Whole(data, n)
    BY DEF MemInv
  <2>2. kind \in MemoryKinds /\ num_entries = Len(data) /\ Group \in Nat \ {0} /\ Len(data) = n * Group
        /\ data \in Seq(Vectors) /\ n * Group \in Nat /\ 0 * Group = 0
    BY <2>1, GroupNat DEF MemInv, Whole
  <2>3. n # 0 /\ n - 1 \in Nat
    BY <1>2, <2>2
  <2>4. (n - 1) * Group = n * Group - Group
    BY <2>2, TimesStep
  <2>5. data' = SubSeq(data, 0 * Group + 1, (n - 1) * Group)
    BY <1>2, <2>2, <2>4 DEF Cut
  <2>6. 0 \in 0 .. n /\ n - 1 \in 0 .. n
    BY <2>3
  <2>7. Whole(data', n - 1 - 0) /\ EntriesOf(data') = SubSeq(EntriesOf(data), 0 + 1, n - 1)
    BY <2>1, <2>2, <2>5, <2>6, PieceIs
  <2>8. EntriesOf(data) # <<>> /\ Len(EntriesOf(data)) = n
    BY <2>1, <2>2, <2>3, EntriesAre
  <2>9. EntriesOf(data') = Front(EntriesOf(data))
    BY <2>7, <2>8 DEF Front
  <2>10. num_entries' = Len(data') /\ Whole(data', n - 1)
    <3>1. n - 1 - 0 = n - 1
      BY <2>3
    <3>2. Whole(data', n - 1)
      BY <2>7, <3>1
    <3> QED
      BY <1>2, <2>2, <2>4, <3>2 DEF Whole
  <2> QED
    BY <1>2, <2>3, <2>8, <2>9, <2>10 DEF Kept, ListMoves
<1> QED
  BY <1>1, <1>2 DEF pop_last_memory

LEMMA DeleteStep ==
    ASSUME IndexAssumption, MemInv, NEW idx \in Nat, delete_memory(idx)
    PROVE  Kept /\ ListMoves(EntriesOf(data), EntriesOf(data'))
<1>1. CASE Throws
  BY <1>1, ThrowKeeps
<1>2. CASE UNCHANGED <<data, num_entries, result>>
  BY <1>2 DEF MemInv, Kept, ListMoves
<1>3. CASE /\ ~((idx + 1) * Group > Len(data))
           /\ data' = Without(idx) /\ num_entries' = num_entries - Group /\ result' = List!Done
  <2>1. PICK n \in Nat : Whole(data, n)
    BY DEF MemInv
  <2>2. kind \in MemoryKinds /\ num_entries = Len(data) /\ Group \in Nat \ {0} /\ Len(data) = n * Group
        /\ data \in Seq(Vectors) /\ n * Group \in Nat /\ 0 * Group = 0
    BY <2>1, GroupNat DEF MemInv, Whole
  <2>3. idx + 1 <= n
    <3>1. SUFFICES ASSUME ~(idx + 1 <= n) PROVE FALSE
      OBVIOUS
    <3>2. (n + 1) * Group <= (idx + 1) * Group /\ (n + 1) * Group = n * Group + Group
          /\ (idx + 1) * Group \in Nat
      BY <2>2, <3>1, TimesLess, TimesStep
    <3> QED
      BY <1>3, <2>2, <3>2
  <2> DEFINE a == SubSeq(data, 0 * Group + 1, idx * Group)
             b == SubSeq(data, (idx + 1) * Group + 1, n * Group)
  <2>4. data' = a \o b
    <3>1. 0 * Group + 1 = 1
      BY <2>2
    <3>2. data' = SubSeq(data, 1, idx * Group) \o SubSeq(data, (idx + 1) * Group + 1, Len(data))
      BY <1>3 DEF Without
    <3>3. a = SubSeq(data, 1, idx * Group) /\ b = SubSeq(data, (idx + 1) * Group + 1, Len(data))
      BY <2>2, <3>1
    <3> HIDE DEF a, b
    <3> QED
      BY <3>2, <3>3
  <2>5. 0 \in 0 .. n /\ idx \in 0 .. n /\ idx + 1 \in 0 .. n /\ n \in idx + 1 .. n
    BY <2>3
  <2>6. Whole(a, idx - 0) /\ EntriesOf(a) = SubSeq(EntriesOf(data), 0 + 1, idx)
    BY <2>1, <2>2, <2>5, PieceIs
  <2>7. Whole(b, n - (idx + 1)) /\ EntriesOf(b) = SubSeq(EntriesOf(data), idx + 1 + 1, n)
    BY <2>1, <2>2, <2>5, PieceIs
  <2> HIDE DEF a, b
  <2>8. Whole(data', (idx - 0) + (n - (idx + 1))) /\ EntriesOf(data') = EntriesOf(a) \o EntriesOf(b)
    BY <2>2, <2>4, <2>6, <2>7, JoinIs
  <2>9. (idx - 0) + (n - (idx + 1)) = n - 1 /\ n - 1 \in Nat
    BY <2>3
  <2>10. Whole(data', n - 1)
    BY <2>8, <2>9
  <2>11. num_entries' = Len(data')
    <3>1. Len(data') = (n - 1) * Group
      BY <2>10 DEF Whole
    <3>2. (n - 1) * Group = n * Group - Group
      BY <2>2, TimesStep
    <3> QED
      BY <1>3, <2>2, <3>1, <3>2
  <2>12. EntriesOf(data') = RemoveAt(EntriesOf(data), idx + 1) /\ idx + 1 \in 1 .. Len(EntriesOf(data))
    <3>1. Len(EntriesOf(data)) = n
      BY <2>1, <2>2, EntriesAre
    <3>2. 0 + 1 = 1 /\ idx + 1 - 1 = idx
      OBVIOUS
    <3>3. EntriesOf(data') = SubSeq(EntriesOf(data), 1, idx + 1 - 1)
                             \o SubSeq(EntriesOf(data), idx + 1 + 1, Len(EntriesOf(data)))
      BY <2>6, <2>7, <2>8, <3>1, <3>2
    <3> QED
      BY <2>3, <3>1, <3>3 DEF RemoveAt
  <2> QED
    BY <1>3, <2>9, <2>10, <2>11, <2>12 DEF Kept, ListMoves
<1> QED
  BY <1>1, <1>2, <1>3 DEF delete_memory

LEMMA GetStep ==
    ASSUME IndexAssumption, MemInv, NEW idx \in Nat, get_memory(idx)
    PROVE  Kept /\ ListMoves(EntriesOf(data), EntriesOf(data'))
<1>1. CASE Throws
  BY <1>1, ThrowKeeps
<1>2. CASE ~(idx >= Gettable) /\ result' = List!Returned(EntryAt(idx)) /\ UNCHANGED <<data, num_entries>>
  <2>1. PICK n \in Nat : Whole(data, n)
    BY DEF MemInv
  <2>2. kind \in MemoryKinds /\ num_entries = Len(data)
    BY DEF MemInv
  <2>3. Len(data) \div Group = n /\ Len(EntriesOf(data)) = n
        /\ \A i \in 1 .. n : EntriesOf(data)[i] = SubSeq(data, (i - 1) * Group + 1, i * Group)
    BY <2>1, <2>2, EntriesAre
  <2>4. idx + 1 \in 1 .. n /\ idx + 1 - 1 = idx
    BY <1>2, <2>2, <2>3 DEF Gettable
  <2>5. EntriesOf(data)[idx + 1] = EntryAt(idx)
    <3>1. EntriesOf(data)[idx + 1] = SubSeq(data, (idx + 1 - 1) * Group + 1, (idx + 1) * Group)
      BY <2>3, <2>4
    <3> QED
      BY <2>4, <3>1 DEF EntryAt
  <2>6. idx + 1 \in 1 .. Len(EntriesOf(data)) /\ result' = List!Returned(EntriesOf(data)[idx + 1])
    BY <1>2, <2>3, <2>4, <2>5
  <2>7. Kept
    BY <1>2 DEF MemInv, Kept
  <2> QED
    BY <1>2, <2>6, <2>7 DEF ListMoves
<1> QED
  BY <1>1, <1>2 DEF get_memory

LEMMA PageStep ==
    ASSUME IndexAssumption, MemInv, NEW page \in Nat, get_page(page)
    PROVE  Kept /\ ListMoves(EntriesOf(data), EntriesOf(data'))
<1>1. CASE Throws
  BY <1>1, ThrowKeeps
<1> DEFINE first == page * PageSize * 2
<1>2. CASE /\ kind = "minmax" /\ ~(page >= num_entries \div (2 * PageSize))
           /\ result' = List!Returned(SubSeq(data, first + 1, first + PageSize * 2))
           /\ UNCHANGED <<data, num_entries>>
  <2>1. PICK n \in Nat : Whole(data, n)
    BY DEF MemInv
  <2>2. kind \in MemoryKinds /\ num_entries = Len(data) /\ Group = 2 /\ Len(data) = n * 2
        /\ PageSize \in Nat \ {0} /\ data \in Seq(Vectors)
    BY <1>2, <2>1 DEF MemInv, Whole, Group, IndexAssumption
  <2> DEFINE a == page * PageSize
             b == (page + 1) * PageSize
  <2>3. a \in Nat /\ b \in Nat /\ b = a + PageSize /\ PageSize <= b
    <3>1. page * PageSize \in Nat /\ (page + 1) * PageSize = page * PageSize + PageSize
      BY <2>2, TimesLess, TimesStep
    <3> QED
      BY <2>2, <3>1
  <2>4. b <= n
    <3>1. page + 1 <= (n * 2) \div (2 * PageSize) /\ (n * 2) \div (2 * PageSize) \in Nat
          /\ 2 * PageSize \in Nat \ {0}
          /\ ((n * 2) \div (2 * PageSize)) * (2 * PageSize) <= n * 2
      <4>1. 2 * PageSize \in Nat \ {0} /\ n * 2 \in Nat
        BY <2>2
      <4> DEFINE q == 2 * PageSize
                 r == n * 2
      <4> HIDE DEF q, r
      <4>2. r \div q \in Nat /\ r % q \in 0 .. q - 1 /\ r = (r \div q) * q + (r % q)
        BY <4>1, DivParts DEF q, r
      <4>3. (r \div q) * q <= r
        <5>1. (r \div q) * q \in Nat /\ r % q \in Nat /\ q \in Nat
          BY <4>1, <4>2, TimesLess DEF q
        <5> QED
          BY <4>2, <5>1
      <4>4. page + 1 <= r \div q
        BY <1>2, <2>2, <4>2 DEF q, r
      <4> QED
        BY <4>1, <4>2, <4>3, <4>4 DEF q, r
    <3>2. (page + 1) * (2 * PageSize) <= ((n * 2) \div (2 * PageSize)) * (2 * PageSize)
      BY <3>1, TimesLess
    <3>3. (page + 1) * (2 * PageSize) = 2 * b
      BY <2>2
    <3>4. ((n * 2) \div (2 * PageSize)) * (2 * PageSize) \in Nat
      BY <3>1, TimesLess
    <3> HIDE DEF b
    <3> QED
      BY <2>3, <3>1, <3>2, <3>3, <3>4
  <2>5. first = a * 2 /\ first + PageSize * 2 = b * 2
    BY <2>2, <2>3
  <2>6. a \in 0 .. n /\ b \in a .. n
    BY <2>2, <2>3, <2>4
  <2> HIDE DEF a, b, first
  <2>7. /\ Whole(SubSeq(data, a * Group + 1, b * Group), b - a)
        /\ EntriesOf(SubSeq(data, a * Group + 1, b * Group)) = SubSeq(EntriesOf(data), a + 1, b)
    BY <2>1, <2>2, <2>6, PieceIs
  <2>8. FlattenSeq(SubSeq(EntriesOf(data), a + 1, b)) = SubSeq(data, a * 2 + 1, b * 2)
    BY <2>2, <2>7, FlattenEntries
  <2>9. Len(EntriesOf(data)) = n
    BY <2>1, <2>2, EntriesAre
  <2>10. /\ page + 1 \in 1 .. n /\ PageSize \in 1 .. n
         /\ (page + 1) * PageSize \in PageSize .. n /\ (page + 1 - 1) * PageSize = a
    <3>1. page + 1 <= b
      <4>1. (page + 1) * 1 <= (page + 1) * PageSize
        BY <2>2
      <4> QED
        BY <4>1 DEF b
    <3>2. b = (page + 1) * PageSize /\ page + 1 - 1 = page /\ a = page * PageSize
      BY DEF a, b
    <3> QED
      BY <2>2, <2>3, <2>4, <3>1, <3>2
  <2>11. result' = List!Returned(FlattenSeq(SubSeq(EntriesOf(data),
                      (page + 1 - 1) * PageSize + 1, (page + 1) * PageSize)))
    BY <1>2, <2>5, <2>8, <2>10 DEF b
  <2>12. Kept
    BY <1>2 DEF MemInv, Kept
  <2>13. data' = data
    BY <1>2
  <2> DEFINE e == EntriesOf(data)
  <2>14. \E i \in 1 .. Len(e) : \E m \in 1 .. Len(e) :
            /\ i * m \in m .. Len(e)
            /\ result' = List!Returned(FlattenSeq(SubSeq(e, (i - 1) * m + 1, i * m)))
    <3>1. page + 1 \in 1 .. Len(e) /\ PageSize \in 1 .. Len(e)
      BY <2>9, <2>10
    <3>2. (page + 1) * PageSize \in PageSize .. Len(e)
      BY <2>9, <2>10
    <3> HIDE DEF e
    <3>3. result' = List!Returned(FlattenSeq(SubSeq(e, (page + 1 - 1) * PageSize + 1, (page + 1) * PageSize)))
      BY <2>11 DEF e
    <3> QED
      BY <3>1, <3>2, <3>3
  <2> HIDE DEF e
  <2>15. \E i \in 1 .. Len(e) : \E m \in 1 .. Len(e) :
            /\ i * m \in m .. Len(e) /\ EntriesOf(data') = e
            /\ result' = List!Returned(FlattenSeq(SubSeq(e, (i - 1) * m + 1, i * m)))
    BY <2>13, <2>14 DEF e
  <2>16. ListMoves(e, EntriesOf(data'))
    BY <2>15 DEF ListMoves
  <2> QED
    BY <2>12, <2>16 DEF e
<1> QED
  BY <1>1, <1>2 DEF get_page

LEMMA MemoryStep ==
    ASSUME IndexAssumption, MemInv, MemoryNext
    PROVE  Kept /\ ListMoves(EntriesOf(data), EntriesOf(data'))
<1>1. ASSUME NEW idx \in 0 .. 2 * MaxEntries, delete_memory(idx) \/ get_memory(idx) \/ get_page(idx)
      PROVE  Kept /\ ListMoves(EntriesOf(data), EntriesOf(data'))
  <2>1. idx \in Nat
    BY DEF IndexAssumption
  <2> QED
    BY <1>1, <2>1, DeleteStep, GetStep, PageStep
<1>2. CASE InsertRagged
  BY <1>2, ThrowKeeps DEF InsertRagged
<1> QED
  BY <1>1, <1>2, InsertStep, PopStep DEF MemoryNext

LEMMA MemoryStart ==
    ASSUME IndexAssumption, MemoryInit
    PROVE  MemInv /\ EntriesOf(data) \in Seq(AnyEntry) /\ result = List!Done
<1>1. kind \in MemoryKinds /\ num_entries = Len(data) /\ result = List!Done
  BY DEF MemoryInit
<1>2. PICK n \in 0 .. 1, name \in Names : data = FlattenSeq([i \in 1 .. n |-> NewEntry(name)])
  BY DEF MemoryInit
<1>3. CASE n = 0
  <2>1. data = <<>>
    BY <1>2, <1>3 DEF FlattenSeq
  <2>2. Whole(data, 0)
    BY <1>1, <2>1, GroupNat DEF Whole
  <2>3. EntriesOf(data) = <<>>
    BY <1>1, <2>2, NoEntries
  <2> QED
    BY <1>1, <2>2, <2>3 DEF MemInv
<1>4. CASE n = 1
  <2>1. NewEntry(name) \in Seq(Vectors) /\ Len(NewEntry(name)) = Group /\ NewEntry(name) \in AnyEntry
    BY <1>1, EntryIs
  <2>2. [i \in 1 .. n |-> NewEntry(name)] = <<NewEntry(name)>>
    BY <1>4
  <2>3. Whole(NewEntry(name), 1) /\ EntriesOf(NewEntry(name)) = <<NewEntry(name)>>
    BY <1>1, <2>1, OneEntry
  <2>4. FlattenSeq(EntriesOf(NewEntry(name))) = NewEntry(name)
    BY <1>1, <2>3, FlattenEntries
  <2>5. data = NewEntry(name)
    BY <1>2, <2>2, <2>3, <2>4
  <2>6. <<NewEntry(name)>> \in Seq(AnyEntry)
    BY <2>1
  <2> QED
    BY <1>1, <2>3, <2>5, <2>6 DEF MemInv
<1> QED
  BY <1>2, <1>3, <1>4

(* The index memories of the frontend, for any entries, indices and sizes  *)
(* of pages and segments: the vectors of an entry stay together, in the    *)
(* order of the calls that inserted them, and a call that throws leaves    *)
(* them as they are.                                                       *)
THEOREM MemoryLists == ASSUME IndexAssumption PROVE MemorySpec => ListSpec
<1>1. MemoryInit => MemInv /\ List!Init
  <2> SUFFICES ASSUME MemoryInit PROVE MemInv /\ List!Init
    OBVIOUS
  <2>1. MemInv /\ EntriesOf(data) \in Seq(AnyEntry) /\ result = List!Done
    BY MemoryStart
  <2> QED
    BY <2>1 DEF List!Init, Listed
<1>2. MemInv /\ [MemoryNext]_memory_vars => MemInv' /\ [List!Next]_(List!vars)
  <2> SUFFICES ASSUME MemInv, [MemoryNext]_memory_vars PROVE MemInv' /\ [List!Next]_(List!vars)
    OBVIOUS
  <2>1. CASE UNCHANGED memory_vars
    <3>1. Group' = Group /\ data' = data /\ kind' = kind /\ num_entries' = num_entries /\ result' = result
      BY <2>1 DEF memory_vars, Group
    <3>2. MemInv'
      BY <3>1 DEF MemInv, Whole
    <3>3. Listed' = Listed
      BY <3>1 DEF Listed, EntriesOf
    <3> QED
      BY <3>1, <3>2, <3>3 DEF List!vars
  <2>2. CASE MemoryNext
    <3>1. Kept /\ ListMoves(EntriesOf(data), EntriesOf(data')) /\ kind' = kind
      BY <2>2, MemoryStep DEF MemoryNext
    <3>2. Group' = Group
      BY <3>1 DEF Group
    <3>3. MemInv'
      BY <3>1, <3>2 DEF Kept, MemInv, Whole
    <3>4. List!Next \/ UNCHANGED List!vars
      <4>1. Listed = EntriesOf(data) /\ Listed' = EntriesOf(data')
        BY <3>2 DEF Listed, EntriesOf
      <4>2. ListMoves(Listed, Listed')
        BY <3>1, <4>1
      <4>3. CASE Listed' = Listed /\ result' = List!Thrown
        BY <4>3 DEF List!Next, List!Throw
      <4>4. CASE Listed # <<>> /\ Listed' = Front(Listed) /\ result' = List!Done
        BY <4>4 DEF List!Next, List!Pop, List!Front, Front
      <4>5. CASE \E x \in AnyEntry : Listed' = Append(Listed, x) /\ result' = List!Done
        BY <4>5 DEF List!Next, List!Insert
      <4>6. ASSUME NEW i \in 1 .. Len(Listed), Listed' = RemoveAt(Listed, i) /\ result' = List!Done
            PROVE  List!Next
        BY <4>6 DEF List!Next, List!Delete, List!RemoveAt, RemoveAt
      <4>7. ASSUME NEW i \in 1 .. Len(Listed), Listed' = Listed /\ result' = List!Returned(Listed[i])
            PROVE  List!Next
        BY <4>7 DEF List!Next, List!Get
      <4>8. ASSUME NEW i \in 1 .. Len(Listed), NEW n \in 1 .. Len(Listed),
                   i * n \in n .. Len(Listed), Listed' = Listed,
                   result' = List!Returned(FlattenSeq(SubSeq(Listed, (i - 1) * n + 1, i * n)))
            PROVE  List!Next
        <5>1. List!GetPage(i, n)
          BY <4>8 DEF List!GetPage, List!FlattenSeq, FlattenSeq
        <5> QED
          BY <5>1 DEF List!Next
      <4>9. CASE Listed' = Listed /\ result' = result
        BY <4>9 DEF List!vars
      <4> QED
        BY <4>2, <4>3, <4>4, <4>5, <4>6, <4>7, <4>8, <4>9 DEF ListMoves
    <3> QED
      BY <3>3, <3>4
  <2> QED
    BY <2>1, <2>2
<1> QED
  BY <1>1, <1>2, PTL DEF MemorySpec, ListSpec, List!Spec

-------------------------------------------------------------------------------
(***************************************************************************)
(* The steps of paged attention: the builder's averages order the pages,   *)
(* what top-k retrieval finds are best pages, attention takes their tokens *)
(* as far as the cache has them, and the bitmap holds a bit per page.      *)
(***************************************************************************)

(* Each number up to n divides the factorial of n. *)
Divides(c, m) == \E d \in Nat \ {0} : m = c * d
FactorialSteps(f) == f[0] = 1 /\ \A n \in Nat : f[n + 1] = (n + 1) * f[n]

LEMMA FactorialIs == FactorialSteps(Factorial)
<1> DEFINE V == Nat \ {0}
           step == [x \in V \X V |-> x[1] * x[2]]
           D(f) == [n \in Nat |-> IF n = 0 THEN 1 ELSE n * f[n - 1]]
<1>1. \A i \in V : \A v \in V : step[<<i, v>>] = i * v
  OBVIOUS
<1>2. \A i \in V : \A v \in V : i * v \in V
  OBVIOUS
<1>3. \A n \in Nat : StaysIn(V, step, n)
  <2> TAKE n \in Nat
  <2>1. \A i \in 1 .. n : i \in V
    OBVIOUS
  <2> HIDE DEF V, step
  <2> QED
    BY <1>1, <1>2, <2>1 DEF StaysIn
<1>4. PICK p \in [Nat -> V] : GoesOn(1, step, p)
  <2> DEFINE one == 1
  <2>1. one \in V
    OBVIOUS
  <2> HIDE DEF one, V, step
  <2>2. StaysOn(V, step)
    BY <1>3 DEF StaysOn
  <2>3. \E p \in [Nat -> V] : GoesOn(one, step, p)
    BY <2>1, <2>2, IterateOn
  <2> QED
    BY <2>3 DEF one
<1>5. ASSUME NEW n \in Nat, n # 0 PROVE p[n] = n * p[n - 1]
  <2>1. n - 1 \in Nat /\ (n - 1) + 1 = n /\ n \in V /\ p[n - 1] \in V
    BY <1>5
  <2>2. p[n] = step[<<n, p[n - 1]>>]
    BY <1>4, <2>1 DEF GoesOn
  <2> HIDE DEF V, step
  <2> QED
    BY <1>1, <2>1, <2>2
<1>6. p = D(p)
  <2>1. \A n \in Nat : p[n] = D(p)[n]
    BY <1>4, <1>5 DEF GoesOn
  <2> QED
    BY <2>1
<1>7. Factorial = D(Factorial)
  <2>1. Factorial = CHOOSE f : f = D(f)
    BY DEF Factorial
  <2>2. \E f : f = D(f)
    BY <1>6
  <2> QED
    BY <2>1, <2>2
<1>8. Factorial[0] = 1
  BY <1>7
<1>9. ASSUME NEW n \in Nat PROVE Factorial[n + 1] = (n + 1) * Factorial[n]
  <2>1. n + 1 \in Nat /\ n + 1 # 0 /\ (n + 1) - 1 = n
    OBVIOUS
  <2>2. \A m \in Nat : Factorial[m] = IF m = 0 THEN 1 ELSE m * Factorial[m - 1]
    BY <1>7
  <2>3. Factorial[n + 1] = IF n + 1 = 0 THEN 1 ELSE (n + 1) * Factorial[n + 1 - 1]
    BY <2>1, <2>2
  <2> QED
    BY <2>1, <2>3
<1> QED
  BY <1>8, <1>9 DEF FactorialSteps

LEMMA FactorialDivides ==
    ASSUME NEW n \in Nat
    PROVE  Factorial[n] \in Nat \ {0} /\ \A c \in 1 .. n : Divides(c, Factorial[n])
<1> DEFINE S == {m \in Nat : Factorial[m] \in Nat \ {0} /\ \A c \in 1 .. m : Divides(c, Factorial[m])}
<1>1. 0 \in S
  BY FactorialIs DEF FactorialSteps
<1>2. ASSUME NEW m \in Nat, m \in S PROVE m + 1 \in S
  <2> DEFINE f == Factorial[m]
             k == m + 1
  <2>1. f \in Nat \ {0} /\ k \in Nat \ {0} /\ \A c \in 1 .. m : Divides(c, f)
    BY <1>2
  <2>2. Factorial[m + 1] = k * f
    BY FactorialIs DEF FactorialSteps
  <2>3. \A c \in 1 .. k : c \in 1 .. m \/ c = k
    OBVIOUS
  <2> HIDE DEF f, k
  <2>4. k * f \in Nat \ {0}
    BY <2>1
  <2>5. ASSUME NEW c \in 1 .. k PROVE Divides(c, k * f)
    <3>1. CASE c = k
      BY <2>1, <3>1 DEF Divides
    <3>2. CASE c \in 1 .. m
      <4>1. PICK d \in Nat \ {0} : f = c * d
        BY <2>1, <3>2 DEF Divides
      <4>2. k * d \in Nat \ {0} /\ c \in Nat
        BY <2>1, <3>2
      <4>3. k * (c * d) = c * (k * d)
        BY <2>1, <4>2
      <4> QED
        BY <4>1, <4>2, <4>3 DEF Divides
    <3> QED
      BY <2>3, <3>1, <3>2
  <2>6. k \in Nat /\ m + 1 = k
    BY <2>1 DEF k
  <2> QED
    BY <2>2, <2>4, <2>5, <2>6
<1>3. n \in S
  <2> HIDE DEF S
  <2> QED
    BY <1>1, <1>2, Numbers
<1> QED
  BY <1>3

(* The indices are collected word by word, bit by bit. *)
SetBits(words, total) == {i \in 0 .. total - 1 : IsSet(words, i)}

LEMMA SelectedIs ==
    ASSUME NEW words, NEW total \in Nat
    PROVE  /\ SelectedOf(words, total) \in Seq(Nat)
           /\ Range(SelectedOf(words, total)) = SetBits(words, total)
<1> DEFINE V == Seq(Nat)
           N == 0 .. total
           more(i, s) == IF IsSet(words, i - 1) THEN Append(s, i - 1) ELSE s
           step == [x \in N \X V |-> more(x[1], x[2])]
           D(f) == [n \in N |-> IF n = 0 THEN <<>>
                                ELSE IF IsSet(words, n - 1) THEN Append(f[n - 1], n - 1)
                                ELSE f[n - 1]]
           selected == CHOOSE f : f = D(f)
<1>1. \A i \in 1 .. total : \A s \in V : step[<<i, s>>] = more(i, s)
  OBVIOUS
<1>2. \A i \in 1 .. total : \A s \in V : more(i, s) \in V
  OBVIOUS
<1>3. PICK h \in [N -> V] : Iterates(<<>>, step, total, h)
  <2>1. <<>> \in V
    OBVIOUS
  <2> HIDE DEF V, step, more
  <2>2. StaysIn(V, step, total)
    BY <1>1, <1>2 DEF StaysIn
  <2> QED
    BY <2>1, <2>2, Iterate
<1>4. ASSUME NEW i \in 1 .. total PROVE h[i] = more(i, h[i - 1])
  <2>1. i - 1 \in N
    OBVIOUS
  <2>2. h[i - 1] \in V /\ h[i] = step[<<i, h[i - 1]>>]
    BY <1>3, <2>1 DEF Iterates
  <2> HIDE DEF V, step, more
  <2> QED
    BY <1>1, <2>2
<1>5. h = D(h)
  <2>1. \A n \in N : n # 0 => n \in 1 .. total
    OBVIOUS
  <2>2. h[0] = <<>>
    BY <1>3 DEF Iterates
  <2>3. \A n \in N : h[n] = D(h)[n]
    BY <1>4, <2>1, <2>2
  <2> QED
    BY <2>3
<1>6. selected = D(selected)
  BY <1>5
<1>7. SelectedOf(words, total) = selected[total]
  BY DEF SelectedOf
<1> HIDE DEF selected
<1>8. selected[0] = <<>> /\ \A i \in 1 .. total : selected[i] = more(i, selected[i - 1])
  <2>1. \A n \in N : selected[n] = D(selected)[n]
    BY <1>6
  <2> QED
    BY <2>1
<1> DEFINE S == {n \in Nat : n \in N => selected[n] \in V /\ Range(selected[n]) = SetBits(words, n)}
<1>9. 0 \in S
  <2>1. <<>> \in V /\ Range(<<>>) = {}
    BY DEF Range
  <2>2. SetBits(words, 0) = {}
    BY DEF SetBits
  <2> QED
    BY <1>8, <2>1, <2>2
<1>10. ASSUME NEW n \in Nat, n \in S PROVE n + 1 \in S
  <2> SUFFICES ASSUME n + 1 \in N
               PROVE  selected[n + 1] \in V /\ Range(selected[n + 1]) = SetBits(words, n + 1)
    OBVIOUS
  <2> DEFINE s == selected[n]
  <2>1. s \in Seq(Nat) /\ Range(s) = SetBits(words, n) /\ n + 1 \in 1 .. total /\ (n + 1) - 1 = n
    BY <1>10
  <2>2. selected[n + 1] = IF IsSet(words, n) THEN Append(s, n) ELSE s
    BY <1>8, <2>1
  <2>3. SetBits(words, n + 1) = IF IsSet(words, n) THEN SetBits(words, n) \cup {n} ELSE SetBits(words, n)
    BY DEF SetBits
  <2> HIDE DEF s
  <2>4. Append(s, n) \in Seq(Nat) /\ Range(Append(s, n)) = Range(s) \cup {n}
    <3>1. s \in Seq(Nat) /\ n \in Nat
      BY <2>1
    <3> HIDE DEF S, V, N, more, step, D
    <3> QED
      BY ONLY <3>1, RangeAppended
  <2> QED
    BY <2>1, <2>2, <2>3, <2>4
<1>11. total \in S
  <2> HIDE DEF S
  <2> QED
    BY <1>9, <1>10, Numbers
<1> QED
  BY <1>7, <1>11

(* A page's bit is where the constructor looks for it. *)
LEMMA BitIs ==
    ASSUME StepsAssumption, NEW scores \in Seq(Int), NEW i \in 0 .. Len(scores) - 1
    PROVE  IsSet(PageWords(scores), i) <=> scores[i + 1] >= Threshold * Scale
<1> DEFINE W == WordBits
           L == Len(scores)
           w == i \div W
           b == i % W
<1>1. W \in Nat \ {0} /\ L \in Nat /\ i \in Nat /\ i < L
  BY DEF StepsAssumption
<1>2. w \in Nat /\ b \in 0 .. W - 1 /\ i = w * W + b
  BY <1>1, DivParts
<1> HIDE DEF W, L, w, b
<1>3. w \in 0 .. NumWords(L) - 1 /\ NumWords(L) \in Nat
  <2> DEFINE m == (L + W - 1) \div W
             r == (L + W - 1) % W
  <2>1. L + W - 1 \in Nat
    BY <1>1
  <2>2. m \in Nat /\ r \in 0 .. W - 1 /\ L + W - 1 = m * W + r
    BY <1>1, <2>1, DivParts
  <2>3. NumWords(L) = m
    BY DEF NumWords, W
  <2> HIDE DEF m, r
  <2>4. m * W \in Nat /\ i < m * W
    <3> DEFINE x == m * W
    <3>1. x \in Int
      BY <1>1, <2>2
    <3> HIDE DEF x
    <3>2. L + W - 1 = x + r
      BY <2>2 DEF x
    <3>3. i < x /\ x \in Nat
      BY <1>1, <2>2, <3>1, <3>2
    <3> QED
      BY <3>3 DEF x
  <2>5. i \in 0 .. m * W - 1
    BY <1>1, <2>4
  <2>6. i \div W \in 0 .. m - 1
    BY <1>1, <2>2, <2>5, DivBound
  <2> QED
    BY <2>2, <2>3, <2>6 DEF w
<1>4. Len(PageWords(scores)) = NumWords(L) /\ w + 1 \in 1 .. NumWords(L)
  BY <1>3 DEF PageWords, L
<1>5. PageWords(scores)[w + 1] =
        {c \in 0 .. W - 1 : LET j == ((w + 1) - 1) * W + c IN j < L /\ scores[j + 1] >= Threshold * Scale}
  BY <1>4 DEF PageWords, L, W
<1>6. ((w + 1) - 1) * W + b = i
  BY <1>2
<1>7. b \in PageWords(scores)[w + 1] <=> (i < L /\ scores[i + 1] >= Threshold * Scale)
  BY <1>2, <1>5, <1>6
<1>8. IsSet(PageWords(scores), i) <=> w < NumWords(L) /\ b \in PageWords(scores)[w + 1]
  BY <1>4 DEF IsSet, w, b, W
<1> QED
  BY <1>1, <1>3, <1>7, <1>8

(* The tokens of page p of n *)
PageOf(p, n) == {t \in 0 .. n - 1 : t \div TokensPerPage = p}

LEMMA PageAt ==
    ASSUME StepsAssumption, NEW p \in Nat, NEW t \in Nat
    PROVE  /\ p * TokensPerPage \in Nat
           /\ t \div TokensPerPage = p <=> t \in p * TokensPerPage .. p * TokensPerPage + TokensPerPage - 1
<1> DEFINE P == TokensPerPage
           x == p * P
<1>1. P \in Nat \ {0}
  BY DEF StepsAssumption
<1>2. x \in Nat
  BY <1>1, TimesLess
<1>3. t \div P = p => t \in x .. x + P - 1
  <2>1. t % P \in 0 .. P - 1 /\ t = (t \div P) * P + (t % P)
    BY <1>1, DivParts
  <2> SUFFICES ASSUME t \div P = p PROVE t \in x .. x + P - 1
    OBVIOUS
  <2>2. t = x + (t % P)
    BY <2>1
  <2> HIDE DEF x, P
  <2> QED
    BY <1>1, <1>2, <2>1, <2>2
<1>4. t \in x .. x + P - 1 => t \div P = p
  <2> SUFFICES ASSUME t \in x .. x + P - 1 PROVE t \div P = p
    OBVIOUS
  <2> DEFINE r == t - x
  <2>1. r \in 0 .. P - 1 /\ t = x + r
    <3> HIDE DEF x, P
    <3> QED
      BY <1>1, <1>2
  <2> HIDE DEF r, P
  <2>2. (p * P + r) \div P = p
    BY <1>1, <2>1, DivMod
  <2> QED
    BY <2>1, <2>2
<1> QED
  BY <1>2, <1>3, <1>4

LEMMA PageTokensAre ==
    ASSUME StepsAssumption, NEW p \in Nat, NEW n \in Nat
    PROVE  PageTokens(p, n) = PageOf(p, n)
<1> DEFINE P == TokensPerPage
           x == p * P
<1>1. P \in Nat \ {0} /\ x \in Nat
  BY PageAt DEF StepsAssumption
<1>2. \A t \in Nat : t \div P = p <=> t \in x .. x + P - 1
  BY PageAt
<1>3. PageOf(p, n) = {t \in 0 .. n - 1 : t \in x .. x + P - 1}
  BY <1>2 DEF PageOf
<1>4. PageTokens(p, n) = x .. (IF x + P < n THEN x + P ELSE n) - 1
  BY DEF PageTokens, Smaller
<1> HIDE DEF x, P
<1>5. {t \in 0 .. n - 1 : t \in x .. x + P - 1} = x .. (IF x + P < n THEN x + P ELSE n) - 1
  BY <1>1
<1> QED
  BY <1>3, <1>4, <1>5

(* A block has the tokens of its page, each once. *)
LEMMA BlockTokensAre ==
    ASSUME StepsAssumption, NEW p \in Nat, NEW n \in Nat
    PROVE  /\ BlockTokens(p, n) \in Seq(Nat) /\ IsInjective(BlockTokens(p, n))
           /\ Range(BlockTokens(p, n)) = PageOf(p, n)
<1> DEFINE P == TokensPerPage
           x == p * P
           e == IF x + P < n THEN x + P ELSE n
           l == IF e < x THEN 0 ELSE e - x
           b == BlockTokens(p, n)
<1>1. P \in Nat \ {0} /\ x \in Nat
  BY PageAt DEF StepsAssumption
<1>2. PageOf(p, n) = x .. e - 1
  BY PageTokensAre DEF PageTokens, Smaller
<1>3. b = [j \in 1 .. e - x |-> x + j - 1]
  BY DEF BlockTokens, BlockEnd, Smaller
<1> HIDE DEF x, P, b
<1>4. 1 .. e - x = 1 .. l /\ l \in Nat
  BY <1>1
<1>5. b = [j \in 1 .. l |-> x + j - 1]
  BY <1>3, <1>4
<1>6. \A j \in 1 .. l : x + j - 1 \in Nat /\ x + j - 1 \in x .. e - 1
  BY <1>1
<1>7. \A t \in x .. e - 1 : t - x + 1 \in 1 .. l /\ x + (t - x + 1) - 1 = t
  BY <1>1
<1>8. b \in [1 .. l -> Nat]
  BY <1>5, <1>6
<1> HIDE DEF e, l
<1>9. b \in Seq(Nat) /\ DOMAIN b = 1 .. l
  BY <1>4, <1>8
<1>10. IsInjective(b)
  <2>1. \A i, j \in 1 .. l : x + i - 1 = x + j - 1 => i = j
    BY <1>1
  <2> QED
    BY <1>5, <1>9, <2>1 DEF IsInjective
<1>11. Range(b) = x .. e - 1
  <2>1. Range(b) = {x + j - 1 : j \in 1 .. l}
    BY <1>5, <1>9 DEF Range
  <2> QED
    BY <1>6, <1>7, <2>1
<1> QED
  BY <1>2, <1>9, <1>10, <1>11 DEF b

(* The pages of n tokens: each has some. *)
LEMMA PagesAre ==
    ASSUME StepsAssumption, NEW n \in Nat, NEW ks, Len(ks) = n
    PROVE  /\ NumPages(ks) \in Nat
           /\ {t \div TokensPerPage : t \in 0 .. n - 1} = 0 .. NumPages(ks) - 1
           /\ \A p \in 0 .. NumPages(ks) - 1 : p * TokensPerPage \in PageOf(p, n)
           /\ \A t \in 0 .. n - 1 : t \div TokensPerPage \in 0 .. NumPages(ks) - 1
<1> DEFINE P == TokensPerPage
           m == NumPages(ks)
           y == m * P
           r == (n + P - 1) % P
<1>1. P \in Nat \ {0}
  BY DEF StepsAssumption
<1>2. m = (n + P - 1) \div P
  BY DEF NumPages
<1>3. m \in Nat /\ r \in 0 .. P - 1 /\ n + P - 1 = y + r
  <2>1. n + P - 1 \in Nat
    BY <1>1
  <2> HIDE DEF m, P
  <2>2. (n + P - 1) \div P \in Nat /\ (n + P - 1) % P \in 0 .. P - 1
        /\ n + P - 1 = ((n + P - 1) \div P) * P + ((n + P - 1) % P)
    BY <1>1, <2>1, DivParts
  <2> QED
    BY <1>2, <2>2
<1> HIDE DEF m, P, r
<1>4. y \in Nat /\ n <= y /\ y < n + P
  <2>1. y \in Nat
    BY <1>1, <1>3, TimesLess
  <2> HIDE DEF y
  <2> QED
    BY <1>1, <1>3, <2>1
<1>5. \A t \in 0 .. n - 1 : t \div P \in 0 .. m - 1
  <2> TAKE t \in 0 .. n - 1
  <2>1. t \in 0 .. m * P - 1
    BY <1>4
  <2> QED
    BY <1>1, <1>3, <2>1, DivBound
<1>6. ASSUME NEW p \in 0 .. m - 1 PROVE p * P \in PageOf(p, n) /\ p * P \in 0 .. n - 1 /\ (p * P) \div P = p
  <2> DEFINE x == p * P
  <2>1. p \in Nat /\ p + 1 \in Nat /\ p + 1 <= m
    BY <1>3
  <2>2. (p + 1) * P <= y /\ (p + 1) * P = x + P /\ x \in Nat
    BY <1>1, <1>3, <2>1, TimesLess, TimesStep
  <2>3. x \in 0 .. n - 1
    <3> HIDE DEF x, y
    <3> QED
      BY <1>1, <1>4, <2>2
  <2>4. x \div P = p
    <3>1. x \in x .. x + P - 1
      BY <1>1, <2>2
    <3> QED
      BY <2>1, <2>2, <3>1, PageAt DEF P
  <2> HIDE DEF x
  <2>5. x \in PageOf(p, n)
    BY <2>3, <2>4 DEF PageOf, P
  <2> QED
    BY <2>3, <2>4, <2>5 DEF x
<1>7. {t \div P : t \in 0 .. n - 1} = 0 .. m - 1
  BY <1>5, <1>6
<1> QED
  BY <1>3, <1>5, <1>6, <1>7 DEF m, P

(* The sum and the number of the keys of a page, and their average *)
KeySum(ks, p) == SumFunction([t \in PageOf(p, Len(ks)) |-> ks[t + 1]])
KeyCount(ks, p) == Cardinality(PageOf(p, Len(ks)))
Averages(ks, p) ==
    /\ KeySum(ks, p) \in Int /\ KeyCount(ks, p) \in Nat \ {0} /\ Pooled(ks)[p + 1] \in Int
    /\ Pooled(ks)[p + 1] * KeyCount(ks, p) = KeySum(ks, p) * Scale

LEMMA ScaleIs == ASSUME StepsAssumption PROVE Scale \in Nat \ {0} /\ \A c \in 1 .. TokensPerPage : Divides(c, Scale)
<1>1. TokensPerPage \in Nat
  BY DEF StepsAssumption
<1> QED
  BY <1>1, FactorialDivides DEF Scale

LEMMA KeysOfPage ==
    ASSUME StepsAssumption, NEW ks \in Seq(Nat), NEW p \in 0 .. NumPages(ks) - 1
    PROVE  KeySum(ks, p) \in Int /\ KeyCount(ks, p) \in 1 .. TokensPerPage
<1> DEFINE n == Len(ks)
           S == PageOf(p, n)
           x == p * TokensPerPage
           e == IF x + TokensPerPage < n THEN x + TokensPerPage ELSE n
<1>1. n \in Nat /\ p \in Nat /\ TokensPerPage \in Nat \ {0}
  <2>1. NumPages(ks) \in Nat /\ Len(ks) \in Nat
    BY PagesAre
  <2> QED
    BY <2>1 DEF StepsAssumption
<1>2. x \in Nat /\ x \in S
  BY <1>1, PageAt, PagesAre
<1>3. S = x .. e - 1
  BY <1>1, PageTokensAre DEF PageTokens, Smaller
<1>4. \A t \in S : t \in 0 .. n - 1
  BY DEF PageOf
<1> HIDE DEF S, x
<1>5. x <= e - 1 /\ e - 1 \in Int /\ e - 1 - x + 1 <= TokensPerPage
  BY <1>1, <1>2, <1>3
<1> HIDE DEF e
<1>6. IsFiniteSet(S) /\ Cardinality(S) = e - 1 - x + 1
  BY <1>2, <1>3, <1>5, FS_Interval
<1>7. Cardinality(S) \in 1 .. TokensPerPage
  BY <1>1, <1>2, <1>5, <1>6
<1> DEFINE f == [t \in S |-> ks[t + 1]]
<1>8. \A t \in S : f[t] \in Int
  <2>1. \A t \in S : t + 1 \in 1 .. Len(ks)
    BY <1>1, <1>4
  <2> QED
    BY <2>1
<1>9. DOMAIN f = S
  OBVIOUS
<1> HIDE DEF f
<1>10. SumFunction(f) \in Int
  BY <1>6, <1>8, <1>9, SumNumber DEF SumFunction
<1> QED
  BY <1>7, <1>10 DEF KeySum, KeyCount, f, S

LEMMA PooledIs ==
    ASSUME StepsAssumption, NEW ks \in Seq(Nat), NEW p \in 0 .. NumPages(ks) - 1
    PROVE  Averages(ks, p)
<1> DEFINE s == KeySum(ks, p)
           c == KeyCount(ks, p)
<1>1. /\ NumPages(ks) \in Nat /\ Len(ks) \in Nat /\ p \in Nat /\ p + 1 \in 1 .. NumPages(ks)
      /\ (p + 1) - 1 = p
  <2>1. NumPages(ks) \in Nat /\ Len(ks) \in Nat
    BY PagesAre
  <2> QED
    BY <2>1
<1>2. s \in Int /\ c \in 1 .. TokensPerPage /\ c \in Nat \ {0}
  BY KeysOfPage
<1>3. PICK d \in Nat \ {0} : Scale = c * d
  BY <1>2, ScaleIs DEF Divides
<1>4. Pooled(ks)[p + 1] = (s * Scale) \div c
  <2>1. PageTokens((p + 1) - 1, Len(ks)) = PageOf(p, Len(ks))
    BY <1>1, PageTokensAre
  <2>2. Pooled(ks)[p + 1] = (SumFunction([t \in PageTokens((p + 1) - 1, Len(ks)) |-> ks[t + 1]]) * Scale)
                               \div Cardinality(PageTokens((p + 1) - 1, Len(ks)))
    BY <1>1 DEF Pooled
  <2> QED
    BY <2>1, <2>2 DEF KeySum, KeyCount
<1> HIDE DEF s, c
<1>5. s * Scale = (s * d) * c /\ s * d \in Int
  BY <1>2, <1>3
<1>6. Pooled(ks)[p + 1] = s * d
  BY <1>2, <1>4, <1>5, DivExact
<1>7. Pooled(ks)[p + 1] * c = s * Scale /\ Pooled(ks)[p + 1] \in Int
  BY <1>5, <1>6
<1> QED
  BY <1>2, <1>7 DEF Averages, s, c

LEMMA PooledType ==
    ASSUME StepsAssumption, NEW ks \in Seq(Nat)
    PROVE  Pooled(ks) \in Seq(Int) /\ Len(Pooled(ks)) = NumPages(ks)
<1>1. NumPages(ks) \in Nat /\ Len(ks) \in Nat
  BY PagesAre
<1>2. DOMAIN Pooled(ks) = 1 .. NumPages(ks) /\ Pooled(ks) = [i \in 1 .. NumPages(ks) |-> Pooled(ks)[i]]
  BY DEF Pooled
<1>3. \A i \in 1 .. NumPages(ks) : Pooled(ks)[i] \in Int
  <2> TAKE i \in 1 .. NumPages(ks)
  <2>1. i - 1 \in 0 .. NumPages(ks) - 1 /\ (i - 1) + 1 = i
    BY <1>1
  <2> QED
    BY <2>1, PooledIs DEF Averages
<1>4. Pooled(ks) \in [1 .. NumPages(ks) -> Int]
  BY <1>2, <1>3
<1> QED
  BY <1>1, <1>4

(* The page with the better average has better keys. *)
LEMMA BetterIs ==
    ASSUME StepsAssumption, NEW ks \in Seq(Nat),
           NEW p \in 0 .. NumPages(ks) - 1, NEW q \in 0 .. NumPages(ks) - 1,
           Pooled(ks)[p + 1] >= Pooled(ks)[q + 1]
    PROVE  KeySum(ks, p) * KeyCount(ks, q) >= KeySum(ks, q) * KeyCount(ks, p)
<1> DEFINE a == Pooled(ks)[p + 1]
           b == Pooled(ks)[q + 1]
           s == KeySum(ks, p)
           c == KeyCount(ks, p)
           t == KeySum(ks, q)
           e == KeyCount(ks, q)
           f == Scale
<1>1. a \in Int /\ b \in Int /\ s \in Int /\ t \in Int /\ c \in Nat \ {0} /\ e \in Nat \ {0}
      /\ a * c = s * f /\ b * e = t * f /\ f \in Nat \ {0} /\ a >= b
  BY PooledIs, ScaleIs DEF Averages
<1> HIDE DEF a, b, s, c, t, e, f
<1>2. c * e \in Nat
  BY <1>1
<1>3. a * (c * e) >= b * (c * e)
  BY <1>1, <1>2, TimesMore
<1>4. a * (c * e) = (s * e) * f
  <2>1. a * (c * e) = (a * c) * e
    BY <1>1
  <2>2. (s * f) * e = (s * e) * f
    BY <1>1
  <2> QED
    BY <1>1, <2>1, <2>2
<1>5. b * (c * e) = (t * c) * f
  <2>1. b * (c * e) = (b * e) * c
    BY <1>1
  <2>2. (t * f) * c = (t * c) * f
    BY <1>1
  <2> QED
    BY <1>1, <2>1, <2>2
<1>6. s * e \in Int /\ t * c \in Int
  BY <1>1
<1>7. s * e >= t * c
  BY <1>1, <1>3, <1>4, <1>5, <1>6, Cancels
<1> QED
  BY <1>7 DEF s, c, t, e

(* Attention takes the tokens of the blocks, *)
LEMMA AttendedIs ==
    ASSUME StepsAssumption, NEW blocks \in Seq(Nat), NEW n \in Nat
    PROVE  /\ Attended(blocks, n) \in Seq(Nat)
           /\ Range(Attended(blocks, n)) = UNION {PageOf(p, n) : p \in Range(blocks)}
           /\ IsInjective(blocks) => IsInjective(Attended(blocks, n))
<1> DEFINE q == [i \in DOMAIN blocks |-> BlockTokens(blocks[i], n)]
           m == Len(blocks)
<1>1. m \in Nat /\ DOMAIN blocks = 1 .. m /\ \A i \in 1 .. m : blocks[i] \in Nat
  OBVIOUS
<1>2. \A i \in 1 .. m : q[i] = BlockTokens(blocks[i], n)
  BY <1>1
<1>3. \A i \in 1 .. m : q[i] \in Seq(Nat) /\ IsInjective(q[i]) /\ Range(q[i]) = PageOf(blocks[i], n)
  BY <1>1, <1>2, BlockTokensAre
<1>4. q = [i \in 1 .. m |-> q[i]]
  BY <1>1
<1>5. Attended(blocks, n) = FlattenSeq(q)
  BY DEF Attended
<1> HIDE DEF q, m
<1>6. q \in Seq(Seq(Nat)) /\ Len(q) = m
  <2>1. q \in [1 .. m -> Seq(Nat)]
    BY <1>3, <1>4
  <2> QED
    BY <1>1, <2>1
<1>7. Distinct(q)
  BY <1>3, <1>6 DEF Distinct
<1>8. IsInjective(blocks) => Apart(q)
  <2> SUFFICES ASSUME IsInjective(blocks), NEW i \in 1 .. m, NEW j \in 1 .. m, i # j
               PROVE  Range(q[i]) \cap Range(q[j]) = {}
    BY <1>6 DEF Apart
  <2>1. blocks[i] # blocks[j]
    BY <1>1 DEF IsInjective
  <2> QED
    BY <1>3, <2>1 DEF PageOf
<1>9. RangesOf(q) = UNION {PageOf(p, n) : p \in Range(blocks)}
  <2>1. RangesOf(q) = UNION {PageOf(blocks[i], n) : i \in 1 .. m}
    BY <1>3, <1>6 DEF RangesOf
  <2>2. {PageOf(blocks[i], n) : i \in 1 .. m} = {PageOf(p, n) : p \in Range(blocks)}
    BY <1>1 DEF Range
  <2> QED
    BY <2>1, <2>2
<1>10. /\ FlattenSeq(q) \in Seq(Nat) /\ Range(FlattenSeq(q)) = RangesOf(q)
       /\ Distinct(q) /\ Apart(q) => IsInjective(FlattenSeq(q))
  BY <1>6, FlattenRanges
<1> QED
  BY <1>5, <1>7, <1>8, <1>9, <1>10

(* and TopKRetrieval finds pages, each once. *)
Places(scores) == 0 .. Len(scores) - 1
Found(scores, s) ==
    /\ s \in Seq(Nat) /\ IsInjective(s) /\ Range(s) \subseteq Places(scores)
    /\ Cardinality(Range(s)) = Smaller(BestK, Len(scores))
    /\ \A p \in Range(s), q \in Places(scores) \ Range(s) : scores[p + 1] >= scores[q + 1]

LEMMA BestFound ==
    ASSUME StepsAssumption, NEW scores \in Seq(Int), NEW s \in BestPages(scores)
    PROVE  Found(scores, s)
<1> DEFINE k == Smaller(BestK, Len(scores))
<1>1. Len(scores) \in Nat /\ k \in Nat
  BY DEF StepsAssumption, Smaller
<1>2. /\ s \in [1 .. k -> Places(scores)] /\ IsInjective(s)
      /\ \A i \in 1 .. k, p \in Places(scores) \ Range(s) : scores[s[i] + 1] >= scores[p + 1]
  BY DEF BestPages, Places
<1>3. \A p \in Places(scores) : p \in Nat
  BY DEF Places
<1> HIDE DEF k
<1>4. s \in Seq(Nat)
  <2>1. s \in [1 .. k -> Nat]
    BY <1>2, <1>3
  <2> QED
    BY <1>1, <2>1
<1>5. DOMAIN s = 1 .. k /\ Range(s) = {s[i] : i \in 1 .. k}
  BY <1>2 DEF Range
<1>6. Cardinality(Range(s)) = k
  <2>1. s \in Bijection(1 .. k, Range(s))
    BY <1>2, <1>5 DEF Bijection, Injection, Surjection, IsInjective
  <2>2. IsFiniteSet(1 .. k) /\ Cardinality(1 .. k) = k
    BY <1>1, FS_Interval
  <2> DEFINE r == Range(s)
             d == 1 .. k
  <2>3. ExistsBijection(d, r) /\ IsFiniteSet(d)
    BY <2>1, <2>2 DEF ExistsBijection
  <2> HIDE DEF r, d
  <2>4. Cardinality(r) = Cardinality(d)
    BY <2>3, FS_Bijection
  <2> QED
    BY <2>2, <2>4 DEF r, d
<1>7. Range(s) \subseteq Places(scores)
  BY <1>2, <1>5
<1>8. \A p \in Range(s), q \in Places(scores) \ Range(s) : scores[p + 1] >= scores[q + 1]
  BY <1>2, <1>5
<1> QED
  BY <1>2, <1>4, <1>6, <1>7, <1>8 DEF Found, k

(* What each object is of: what it was computed from. *)
Builds == [keys : Seq(Nat), fits : BOOLEAN]
Sources == [build : Builds, score : Seq(Int), topk : Seq(Int), bitmap : Seq(Int),
            apply : Seq(Nat) \X Seq(Nat)]
BuiltFrom(build) == Built(build.keys, build.fits)
StepsInv ==
    /\ source \in Sources /\ keys \in Seq(Nat)
    /\ page_memory = [data |-> BuiltFrom(source.build), count |-> page_memory.count]
    /\ page_score = source.score
    /\ index \in BestPages(source.topk)
    /\ bitmap = Bitmap(PageWords(source.bitmap), Len(source.bitmap))
    /\ attended = Attended(source.apply[1], Len(source.apply[2]))

LEMMA BuiltType == ASSUME StepsAssumption, NEW build \in Builds PROVE BuiltFrom(build) \in Seq(Int)
<1>1. build.keys \in Seq(Nat)
  BY DEF Builds
<1>2. Pooled(build.keys) \in Seq(Int)
  BY <1>1, PooledType
<1>3. <<>> \in Seq(Int)
  OBVIOUS
<1> QED
  BY <1>2, <1>3 DEF BuiltFrom, Built

(* After a builder with a weight that does not fit *)
LEMMA AttendsNothing ==
    ASSUME StepsAssumption, StepsInv, Chained, ~source.build.fits
    PROVE  attended = <<>>
<1>1. page_memory.data = <<>>
  <2>1. page_memory.data = BuiltFrom(source.build)
    BY DEF StepsInv
  <2> QED
    BY <2>1 DEF BuiltFrom, Built
<1>2. index \in BestPages(<<>>) /\ attended = Attended(index, Len(keys))
  <2>1. source.apply[1] = index /\ source.apply[2] = keys
    BY DEF Chained
  <2> QED
    BY <1>1, <2>1 DEF Chained, StepsInv
<1>3. index = <<>>
  <2>1. Smaller(BestK, Len(<<>>)) = 0
    BY DEF Smaller, StepsAssumption
  <2>2. index \in [1 .. 0 -> 0 .. Len(<<>>) - 1]
    BY <1>2, <2>1 DEF BestPages
  <2> QED
    BY <2>2
<1> QED
  BY <1>2, <1>3 DEF Attended, FlattenSeq

(* After one with a weight that does *)
LEMMA AttendsPages ==
    ASSUME StepsAssumption, StepsInv, Chained, source.build.fits
    PROVE  LET taken == {t \div TokensPerPage : t \in Range(attended)}
               all == {t \div TokensPerPage : t \in 0 .. Len(keys) - 1}
           IN  /\ IsInjective(attended)
               /\ Range(attended) = UNION {PageKeys(p) : p \in taken}
               /\ Cardinality(taken) = Smaller(BestK, Cardinality(all))
               /\ \A p \in taken, q \in all \ taken : BetterPage(p, q)
<1> DEFINE n == Len(keys)
           m == NumPages(keys)
           taken == {t \div TokensPerPage : t \in Range(attended)}
           all == {t \div TokensPerPage : t \in 0 .. n - 1}
<1>1. keys \in Seq(Nat) /\ n \in Nat /\ page_score = Pooled(keys)
      /\ index \in BestPages(Pooled(keys)) /\ attended = Attended(index, n)
  <2>1. source.apply[1] = index /\ source.apply[2] = keys
    BY DEF Chained
  <2>2. page_memory.data = Pooled(keys)
    <3>1. page_memory.data = BuiltFrom(source.build) /\ source.build.keys = keys
      BY DEF Chained, StepsInv
    <3> QED
      BY <3>1 DEF BuiltFrom, Built
  <2> QED
    BY <2>1, <2>2 DEF Chained, StepsInv
<1>2. Pooled(keys) \in Seq(Int) /\ Len(Pooled(keys)) = m /\ m \in Nat
  BY <1>1, PooledType, PagesAre
<1>3. Found(Pooled(keys), index)
  BY <1>1, <1>2, BestFound
<1>4. /\ index \in Seq(Nat) /\ IsInjective(index) /\ Range(index) \subseteq 0 .. m - 1
      /\ Cardinality(Range(index)) = Smaller(BestK, m)
      /\ \A p \in Range(index), q \in (0 .. m - 1) \ Range(index) : Pooled(keys)[p + 1] >= Pooled(keys)[q + 1]
  BY <1>2, <1>3 DEF Found, Places
<1>5. Range(attended) = UNION {PageOf(p, n) : p \in Range(index)} /\ IsInjective(attended)
  BY <1>1, <1>4, AttendedIs
<1>6. /\ all = 0 .. m - 1 /\ \A p \in 0 .. m - 1 : p * TokensPerPage \in PageOf(p, n)
  BY <1>1, PagesAre
<1>7. \A p \in 0 .. m - 1 : \A t \in PageOf(p, n) : t \div TokensPerPage = p
  BY DEF PageOf
<1>8. \A p : PageKeys(p) = PageOf(p, n)
  BY DEF PageKeys, PageOf
<1> HIDE DEF n, m
<1>9. taken = Range(index)
  <2>1. \A t \in Range(attended) : t \div TokensPerPage \in Range(index)
    BY <1>4, <1>5, <1>7
  <2>2. \A p \in Range(index) : \E t \in Range(attended) : t \div TokensPerPage = p
    <3> TAKE p \in Range(index)
    <3>1. p * TokensPerPage \in PageOf(p, n) /\ p \in 0 .. m - 1
      BY <1>4, <1>6
    <3> DEFINE t == p * TokensPerPage
    <3> HIDE DEF t
    <3>2. t \in PageOf(p, n)
      BY <3>1 DEF t
    <3> QED
      BY <1>5, <1>7, <3>1, <3>2
  <2> QED
    BY <2>1, <2>2
<1>10. Cardinality(all) = m
  <2>1. Cardinality(0 .. m - 1) = m
    BY <1>2, FS_Interval
  <2> QED
    BY <1>6, <2>1
<1>11. ASSUME NEW p \in taken, NEW q \in all \ taken PROVE BetterPage(p, q)
  <2>1. p \in 0 .. m - 1 /\ q \in 0 .. m - 1 /\ Pooled(keys)[p + 1] >= Pooled(keys)[q + 1]
    BY <1>4, <1>6, <1>9
  <2>2. KeySum(keys, p) * KeyCount(keys, q) >= KeySum(keys, q) * KeyCount(keys, p)
    BY <1>1, <2>1, BetterIs DEF m
  <2> QED
    BY <1>8, <2>2 DEF BetterPage, KeySum, KeyCount, n
<1> HIDE DEF taken, all
<1>12. Range(attended) = UNION {PageKeys(p) : p \in taken}
  BY <1>5, <1>8, <1>9
<1>13. Cardinality(taken) = Smaller(BestK, Cardinality(all))
  BY <1>4, <1>9, <1>10
<1> QED
  BY <1>5, <1>11, <1>12, <1>13 DEF taken, all, n

LEMMA AttendsInv == ASSUME StepsAssumption, StepsInv PROVE AttendsBestPages
<1>1. CASE ~Chained
  BY <1>1 DEF AttendsBestPages
<1>2. CASE Chained /\ source.build.fits
  BY <1>2, AttendsPages DEF AttendsBestPages
<1>3. CASE Chained /\ ~source.build.fits
  <2>1. attended = <<>>
    BY <1>3, AttendsNothing
  <2>2. Range(attended) = {} /\ IsInjective(attended)
    BY <2>1 DEF Range, IsInjective
  <2>3. Cardinality({}) = 0 /\ Smaller(BestK, 0) = 0
    BY FS_EmptySet DEF Smaller, StepsAssumption
  <2> DEFINE taken == {t \div TokensPerPage : t \in Range(attended)}
  <2>4. taken = {}
    BY <2>2
  <2> QED
    BY <1>3, <2>2, <2>3, <2>4 DEF AttendsBestPages
<1> QED
  BY <1>1, <1>2, <1>3

LEMMA InsideInv == ASSUME StepsAssumption, StepsInv PROVE InsideCache
<1>1. source.apply[1] \in Seq(Nat) /\ source.apply[2] \in Seq(Nat)
  BY DEF StepsInv, Sources
<1> DEFINE b == source.apply[1]
           n == Len(source.apply[2])
<1>2. b \in Seq(Nat) /\ n \in Nat /\ attended = Attended(b, n)
  BY <1>1 DEF StepsInv
<1> HIDE DEF b, n
<1>3. Range(attended) = UNION {PageOf(p, n) : p \in Range(b)}
  BY <1>2, AttendedIs
<1>4. \A t \in Range(attended) : t \in 0 .. n - 1
  BY <1>3 DEF PageOf
<1>5. \A i \in DOMAIN attended : attended[i] \in Range(attended)
  BY DEF Range
<1> QED
  BY <1>4, <1>5 DEF InsideCache, n

LEMMA BitmapInv == ASSUME StepsAssumption, StepsInv PROVE BitmapSelects
<1> DEFINE scores == source.bitmap
           n == Len(scores)
<1>1. scores \in Seq(Int) /\ n \in Nat /\ bitmap = Bitmap(PageWords(scores), n)
  BY DEF StepsInv, Sources
<1>2. bitmap.selected = SelectedOf(PageWords(scores), n)
  BY <1>1 DEF Bitmap
<1>3. Range(bitmap.selected) = SetBits(PageWords(scores), n)
  BY <1>1, <1>2, SelectedIs
<1>4. \A i \in 0 .. n - 1 : IsSet(PageWords(scores), i) <=> scores[i + 1] >= Threshold * Scale
  BY <1>1, BitIs
<1> QED
  BY <1>3, <1>4 DEF SetBits, BitmapSelects

(* A call of execute, tested or not, leaves what the step computes. *)
Runs(step, inputs) ==
    source' = [source EXCEPT ![step] = inputs] /\ keys' = keys
Stored ==
    /\ \E build \in Builds :
          /\ page_memory' = [data |-> BuiltFrom(build), count |-> page_memory'.count]
          /\ Runs("build", build)
    /\ UNCHANGED <<page_score, index, bitmap, attended>>
Compared ==
    /\ page_score' = page_memory.data /\ Runs("score", page_memory.data)
    /\ UNCHANGED <<page_memory, index, bitmap, attended>>
Retrieved ==
    /\ index' \in BestPages(page_score) /\ Runs("topk", page_score)
    /\ UNCHANGED <<page_memory, page_score, bitmap, attended>>
Marked ==
    /\ bitmap' = Bitmap(PageWords(page_score), Len(page_score)) /\ Runs("bitmap", page_score)
    /\ UNCHANGED <<page_memory, page_score, index, attended>>
Applied ==
    /\ attended' = Attended(index, Len(keys)) /\ Runs("apply", <<index, keys>>)
    /\ UNCHANGED <<page_memory, page_score, index, bitmap>>
Quiet ==
    /\ keys' \in Seq(Nat)
    /\ UNCHANGED <<page_memory, page_score, index, bitmap, attended, source>>

LEMMA SetDataIs ==
    ASSUME NEW r, NEW d, r = [data |-> r.data, count |-> r.count]
    PROVE  SetData(r, d) = [data |-> d, count |-> SetData(r, d).count]
  BY DEF SetData

LEMMA NewCacheIs == ASSUME StepsAssumption, StepsInv, NewCache PROVE Quiet
<1>1. keys \in Seq(Nat)
  BY DEF StepsInv
<1>2. UNCHANGED <<page_memory, page_score, index, bitmap, attended, source>>
  BY DEF NewCache, objects
<1>3. ASSUME NEW key \in Keys PROVE Append(keys, key) \in Seq(Nat)
  <2>1. key \in Nat
    BY DEF StepsAssumption
  <2> QED
    BY <1>1, <2>1
<1>4. ASSUME NEW n \in 0 .. Len(keys) - 1 PROVE SubSeq(keys, 1, n) \in Seq(Nat)
  BY <1>1
<1> QED
  BY <1>2, <1>3, <1>4 DEF NewCache, Quiet

LEMMA ExecuteIs ==
    ASSUME StepsAssumption, StepsInv, Execute
    PROVE  Stored \/ Compared \/ Retrieved \/ Marked \/ Applied
<1>1. CASE BuildPages
  <2>1. page_memory = [data |-> page_memory.data, count |-> page_memory.count]
    BY DEF StepsInv
  <2>2. PICK fits \in BOOLEAN : /\ page_memory' = SetData(page_memory, Built(keys, fits))
                                /\ Ran("build", [keys |-> keys, fits |-> fits])
                                /\ UNCHANGED <<page_score, index, bitmap, output, attended>>
    BY <1>1 DEF BuildPages
  <2> DEFINE build == [keys |-> keys, fits |-> fits]
  <2>3. build \in Builds /\ BuiltFrom(build) = Built(keys, fits)
    BY DEF StepsInv, Builds, BuiltFrom
  <2>4. page_memory' = [data |-> Built(keys, fits), count |-> page_memory'.count]
    BY <2>1, <2>2, SetDataIs
  <2>5. Runs("build", build) /\ UNCHANGED <<page_score, index, bitmap, attended>>
    BY <2>2 DEF Ran, Runs
  <2> HIDE DEF build
  <2> QED
    BY <2>3, <2>4, <2>5 DEF Stored
<1>2. CASE Score
  BY <1>2 DEF Score, Ran, Compared, Runs, Scored
<1>3. CASE RetrieveTopK
  BY <1>3 DEF RetrieveTopK, Ran, Retrieved, Runs
<1>4. CASE RetrieveThreshold
  BY <1>4 DEF RetrieveThreshold, Ran, Marked, Runs
<1>5. CASE Apply
  BY <1>5 DEF Apply, Ran, Applied, Runs
<1> QED
  BY <1>1, <1>2, <1>3, <1>4, <1>5 DEF Execute

LEMMA TestIs ==
    ASSUME StepsAssumption, StepsInv, Test
    PROVE  Stored \/ Compared \/ Retrieved \/ Marked \/ Applied
<1>1. CASE TestBuild
  <2>1. PICK fits \in BOOLEAN : \E truth :
                /\ page_memory' = SetData(Counted(truth), Built(keys, fits))
                /\ Ran("build", [keys |-> keys, fits |-> fits])
                /\ UNCHANGED <<page_score, index, bitmap, output, attended>>
    BY <1>1, Zenon DEF TestBuild
  <2>2. PICK truth : page_memory' = SetData(Counted(truth), Built(keys, fits))
    BY <2>1
  <2> DEFINE build == [keys |-> keys, fits |-> fits]
  <2>3. Counted(truth) = [data |-> Counted(truth).data, count |-> Counted(truth).count]
    BY DEF Counted
  <2>4. build \in Builds /\ BuiltFrom(build) = Built(keys, fits)
    BY DEF StepsInv, Builds, BuiltFrom
  <2>5. page_memory' = [data |-> Built(keys, fits), count |-> page_memory'.count]
    BY <2>2, <2>3, SetDataIs
  <2>6. Runs("build", build) /\ UNCHANGED <<page_score, index, bitmap, attended>>
    BY <2>1 DEF Ran, Runs
  <2> HIDE DEF build
  <2> QED
    BY <2>4, <2>5, <2>6 DEF Stored
<1>2. CASE TestScore
  BY <1>2 DEF TestScore, Ran, Compared, Runs, Scored
<1>3. CASE TestTopK
  BY <1>3 DEF TestTopK, Ran, Retrieved, Runs
<1>4. CASE TestThreshold
  BY <1>4 DEF TestThreshold, Ran, Marked, Runs
<1>5. CASE TestApply
  BY <1>5 DEF TestApply, Ran, Applied, Runs
<1> QED
  BY <1>1, <1>2, <1>3, <1>4, <1>5 DEF Test

LEMMA RunsIs ==
    ASSUME source \in Sources
    PROVE  /\ \A x \in Builds : Runs("build", x) =>
                 source' \in Sources /\ source'.build = x /\ source'.score = source.score
                 /\ source'.topk = source.topk /\ source'.bitmap = source.bitmap /\ source'.apply = source.apply
           /\ \A x \in Seq(Int) : Runs("score", x) =>
                 source' \in Sources /\ source'.build = source.build /\ source'.score = x
                 /\ source'.topk = source.topk /\ source'.bitmap = source.bitmap /\ source'.apply = source.apply
           /\ \A x \in Seq(Int) : Runs("topk", x) =>
                 source' \in Sources /\ source'.build = source.build /\ source'.score = source.score
                 /\ source'.topk = x /\ source'.bitmap = source.bitmap /\ source'.apply = source.apply
           /\ \A x \in Seq(Int) : Runs("bitmap", x) =>
                 source' \in Sources /\ source'.build = source.build /\ source'.score = source.score
                 /\ source'.topk = source.topk /\ source'.bitmap = x /\ source'.apply = source.apply
           /\ \A x \in Seq(Nat) \X Seq(Nat) : Runs("apply", x) =>
                 source' \in Sources /\ source'.build = source.build /\ source'.score = source.score
                 /\ source'.topk = source.topk /\ source'.bitmap = source.bitmap /\ source'.apply = x
  BY DEF Runs, Sources

LEMMA StepsStay ==
    ASSUME StepsAssumption, StepsInv, Stored \/ Compared \/ Retrieved \/ Marked \/ Applied
    PROVE  StepsInv'
<1>1. /\ source \in Sources /\ keys \in Seq(Nat) /\ source.build \in Builds
      /\ source.score \in Seq(Int) /\ source.topk \in Seq(Int)
  BY DEF StepsInv, Sources
<1>2. page_memory.data \in Seq(Int) /\ page_score \in Seq(Int)
  <2>1. page_memory.data = BuiltFrom(source.build) /\ page_score = source.score
    BY DEF StepsInv
  <2> QED
    BY <1>1, <2>1, BuiltType
<1>3. index \in Seq(Nat)
  <2>1. index \in BestPages(source.topk)
    BY DEF StepsInv
  <2> QED
    BY <1>1, <2>1, BestFound DEF Found
<1>4. CASE Stored
  <2>1. PICK build \in Builds :
           /\ page_memory' = [data |-> BuiltFrom(build), count |-> page_memory'.count]
           /\ Runs("build", build)
    BY <1>4 DEF Stored
  <2>2. /\ source' \in Sources /\ source'.build = build /\ source'.score = source.score
        /\ source'.topk = source.topk /\ source'.bitmap = source.bitmap /\ source'.apply = source.apply
    BY <1>1, <2>1, RunsIs
  <2>3. keys' = keys /\ UNCHANGED <<page_score, index, bitmap, attended>>
    BY <1>4, <2>1 DEF Stored, Runs
  <2>4. page_memory' = [data |-> BuiltFrom(source'.build), count |-> page_memory'.count]
    BY <2>1, <2>2
  <2>5. StepsInv
    OBVIOUS
  <2> QED
    BY <1>1, <2>2, <2>3, <2>4, <2>5 DEF StepsInv
<1>5. CASE Compared
  BY <1>1, <1>2, <1>5, RunsIs DEF StepsInv, Compared, Runs
<1>6. CASE Retrieved
  BY <1>1, <1>2, <1>6, RunsIs DEF StepsInv, Retrieved, Runs
<1>7. CASE Marked
  BY <1>1, <1>2, <1>7, RunsIs DEF StepsInv, Marked, Runs
<1>8. CASE Applied
  <2> DEFINE x == <<index, keys>>
  <2>1. x \in Seq(Nat) \X Seq(Nat) /\ x[1] = index /\ x[2] = keys
    BY <1>1, <1>3
  <2>2. attended' = Attended(x[1], Len(x[2])) /\ Runs("apply", x)
    BY <1>8, <2>1 DEF Applied
  <2> HIDE DEF x
  <2>3. /\ source' \in Sources /\ source'.build = source.build /\ source'.score = source.score
        /\ source'.topk = source.topk /\ source'.bitmap = source.bitmap /\ source'.apply = x
    BY <1>1, <2>1, <2>2, RunsIs
  <2>4. attended' = Attended(source'.apply[1], Len(source'.apply[2]))
    BY <2>2, <2>3
  <2>5. keys' = keys /\ UNCHANGED <<page_memory, page_score, index, bitmap>>
    BY <1>8 DEF Applied, Runs
  <2>6. page_memory' = [data |-> BuiltFrom(source'.build), count |-> page_memory'.count]
    BY <2>3, <2>5 DEF StepsInv
  <2>7. page_score' = source'.score /\ index' \in BestPages(source'.topk)
        /\ bitmap' = Bitmap(PageWords(source'.bitmap), Len(source'.bitmap))
    BY <2>3, <2>5 DEF StepsInv
  <2> QED
    BY <1>1, <2>3, <2>4, <2>5, <2>6, <2>7 DEF StepsInv
<1> QED
  BY <1>4, <1>5, <1>6, <1>7, <1>8

LEMMA StepsStart == ASSUME StepsAssumption, StepsInit PROVE StepsInv
<1>1. keys \in Seq(Nat)
  <2>1. PICK m \in 0 .. MaxTokens : keys \in [1 .. m -> Keys]
    BY DEF StepsInit, BoundedSeq, SeqOf
  <2>2. m \in Nat /\ keys \in [1 .. m -> Nat]
    <3>1. MaxTokens \in Nat /\ Keys \subseteq Nat
      BY DEF StepsAssumption
    <3>2. m \in Nat
      BY <3>1
    <3>3. keys \in [1 .. m -> Nat]
      BY <2>1, <3>1
    <3> QED
      BY <3>2, <3>3
  <2> QED
    BY <2>2
<1>2. source \in Sources /\ source.build = [keys |-> <<>>, fits |-> TRUE] /\ source.score = <<>> /\ source.topk = <<>>
      /\ source.bitmap = <<>> /\ source.apply = <<<<>>, <<>>>>
  <2>1. <<>> \in Seq(Nat) /\ <<>> \in Seq(Int)
    BY EmptySeq
  <2>2. <<<<>>, <<>>>> \in Seq(Nat) \X Seq(Nat)
    BY <2>1
  <2> QED
    BY <2>1, <2>2 DEF StepsInit, Sources, Builds
<1>3. page_memory = [data |-> BuiltFrom(source.build), count |-> page_memory.count]
  <2>1. Pooled(<<>>) \in Seq(Int) /\ Len(Pooled(<<>>)) = 0
    <3>1. NumPages(<<>>) = 0
      <4>1. TokensPerPage \in Nat \ {0}
        BY DEF StepsAssumption
      <4>2. TokensPerPage - 1 \in 0 .. TokensPerPage - 1 /\ 0 * TokensPerPage = 0
        BY <4>1
      <4>3. (0 * TokensPerPage + (TokensPerPage - 1)) \div TokensPerPage = 0
        BY <4>1, <4>2, DivMod
      <4>4. 0 + TokensPerPage - 1 = 0 * TokensPerPage + (TokensPerPage - 1)
        BY <4>1, <4>2
      <4> QED
        BY <4>3, <4>4 DEF NumPages
    <3>2. <<>> \in Seq(Nat)
      OBVIOUS
    <3> QED
      BY <3>1, <3>2, PooledType
  <2>2. Pooled(<<>>) = <<>>
    BY <2>1
  <2> QED
    BY <1>2, <2>2 DEF StepsInit, Counted, BuiltFrom, Built
<1>4. index \in BestPages(source.topk)
  <2>1. index = <<>> /\ Smaller(BestK, 0) = 0
    BY DEF StepsInit, Smaller, StepsAssumption
  <2> QED
    BY <1>2, <2>1 DEF BestPages, IsInjective
<1>5. bitmap = Bitmap(PageWords(source.bitmap), Len(source.bitmap))
  <2>1. NumWords(0) = 0
    <3>1. WordBits \in Nat \ {0}
      BY DEF StepsAssumption
    <3>2. WordBits - 1 \in 0 .. WordBits - 1 /\ 0 * WordBits = 0
      BY <3>1
    <3>3. (0 * WordBits + (WordBits - 1)) \div WordBits = 0
      BY <3>1, <3>2, DivMod
    <3>4. 0 + WordBits - 1 = 0 * WordBits + (WordBits - 1)
      BY <3>1, <3>2
    <3> QED
      BY <3>3, <3>4 DEF NumWords
  <2>2. Len(<<>>) = 0
    OBVIOUS
  <2>3. PageWords(<<>>) = <<>>
    BY <2>1, <2>2 DEF PageWords
  <2>4. bitmap = Bitmap(<<>>, 0)
    BY DEF StepsInit
  <2> QED
    BY <1>2, <2>2, <2>3, <2>4
<1>6. attended = Attended(source.apply[1], Len(source.apply[2]))
  <2>1. source.apply[1] = <<>>
    BY <1>2
  <2>2. Attended(<<>>, Len(source.apply[2])) = <<>>
    BY DEF Attended, FlattenSeq
  <2> QED
    BY <2>1, <2>2 DEF StepsInit
<1>7. page_score = source.score
  BY <1>2 DEF StepsInit
<1> QED
  BY <1>1, <1>2, <1>3, <1>4, <1>5, <1>6, <1>7 DEF StepsInv

(* The steps of paged attention, in any order and any number, with the     *)
(* cache changing between them, for any keys, page sizes and thresholds:   *)
(* attention takes the best pages whole, never leaves the cache, and the   *)
(* bitmap says which pages are above the threshold.                        *)
THEOREM StepsSelect ==
    ASSUME StepsAssumption
    PROVE  StepsSpec => [](AttendsBestPages /\ InsideCache /\ BitmapSelects)
<1>1. StepsInit => StepsInv
  BY StepsStart
<1>2. StepsInv /\ [StepsNext]_steps_vars => StepsInv'
  <2> SUFFICES ASSUME StepsInv, [StepsNext]_steps_vars PROVE StepsInv'
    OBVIOUS
  <2>1. CASE UNCHANGED steps_vars \/ NewCache
    <3>1. Quiet
      <4>1. UNCHANGED steps_vars => Quiet
        BY DEF steps_vars, objects, Quiet, StepsInv
      <4> QED
        BY <2>1, <4>1, NewCacheIs
    <3> QED
      BY <3>1 DEF Quiet, StepsInv
  <2>2. CASE Execute \/ Test
    BY <2>2, ExecuteIs, TestIs, StepsStay
  <2> QED
    BY <2>1, <2>2 DEF StepsNext
<1>3. StepsInv => AttendsBestPages /\ InsideCache /\ BitmapSelects
  BY AttendsInv, InsideInv, BitmapInv
<1> QED
  BY <1>1, <1>2, <1>3, PTL DEF StepsSpec
================================================================================
