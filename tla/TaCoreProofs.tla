---------------------------- MODULE TaCoreProofs ----------------------------
(***************************************************************************)
(* What TaCore guarantees for any number of clients and handles, on every  *)
(* platform.                                                               *)
(***************************************************************************)
EXTENDS TaCore, TLAPS

USE FlagsAssumption, MaxOpensAssumption

\* The commands past which ta_cmd has no entry are those ta_router rejects.
LEMMA TableComplete ==
  ASSUME NEW cmd \in Commands, InTable(cmd)
  PROVE  cmd \in DOMAIN Uses
  BY DEF Commands, InTable, Uses, SPI_TEST, RELEASE, TEE_CMD_END

LEMMA ReleaseIsCommand == RELEASE \in Commands
  BY DEF RELEASE, Commands, SPI_TEST, TEE_CMD_END

\* What a fault changes, and that it is never a table overrun.
LEMMA FaultKinds ==
  ASSUME TypeOK, NEW c \in Clients, NEW cmd \in Commands, Fault(c, cmd)
  PROVE  /\ Touch(c) /\ inst' = "faulted"
         /\ UNCHANGED <<dev, status, freers, answered>>
         /\ fault' \in {"null", "freed", "wild", "address"}
  <1>1. fault' \in Faults(cmd) /\ dev \in {"null", "live", "freed"}
    BY DEF Fault, TypeOK
  <1>2. CASE dev # "live"
    BY <1>1, <1>2 DEF Faults, Fault
  <1>3. CASE dev = "live" /\ InTable(cmd)
    BY <1>1, <1>3, TableComplete DEF Faults, Fault
  <1>4. CASE dev = "live" /\ ~InTable(cmd)
    BY <1>1, <1>4 DEF Faults
  <1> QED
    BY <1>2, <1>3, <1>4

\* A command changes statuses and histories, unless it faults.
LEMMA CommandKinds ==
  ASSUME TypeOK, NEW c \in Clients, NEW cmd \in Commands, Command(c, cmd)
  PROVE  /\ handle[c] = "open" /\ Touch(c)
         /\ UNCHANGED <<handle, dev, freers>>
         /\ status' \in [Clients -> {"none", "ok", "err"}]
         /\ \/ UNCHANGED <<inst, fault>> /\ answered' = TRUE /\ dev # "null"
            \/ /\ inst' = "faulted" /\ answered' = answered
               /\ fault' \in {"null", "freed", "wild", "address"}
  <1>1. CASE Run(c, cmd)
    BY <1>1 DEF Run, Answer, Command, TypeOK
  <1>2. CASE Reject(c, cmd)
    BY <1>2 DEF Reject, Answer, Command, TypeOK
  <1>3. CASE Fault(c, cmd)
    BY <1>3, FaultKinds DEF Command, TypeOK
  <1> QED
    BY <1>1, <1>2, <1>3 DEF Command

\* RELEASE frees a block that is there, or faults.
LEMMA ReleaseKinds ==
  ASSUME TypeOK, NEW c \in Clients, Release(c)
  PROVE  /\ handle[c] = "open" /\ Touch(c)
         /\ handle' = [handle EXCEPT ![c] = "released"]
         /\ status' \in [Clients -> {"none", "ok", "err"}]
         /\ \/ /\ UNCHANGED <<inst, fault>> /\ answered' = TRUE
               /\ dev # "null" /\ dev' = "freed"
               /\ freers' = IF dev = "live" THEN freers \union {id[c]}
                                           ELSE freers
            \/ /\ inst' = "faulted" /\ UNCHANGED <<dev, freers, answered>>
               /\ fault' \in {"null", "freed", "wild", "address"}
  <1>1. CASE Free(c)
    BY <1>1 DEF Free, Answer, Release, TypeOK
  <1>2. CASE Fault(c, RELEASE)
    BY <1>2, FaultKinds, ReleaseIsCommand DEF Release, TypeOK
  <1> QED
    BY <1>1, <1>2 DEF Release

\* What ties the device block to the handles.
DeviceInv ==
  /\ inst = "down" => dev = "null" /\ \A c \in Clients : ~Attached(c)
  /\ inst # "down" => platform \in Resident \/ \E c \in Clients : Attached(c)
  /\ \A c, d \in Clients :
       Attached(c) /\ Attached(d) /\ c # d => c \in shared /\ id[c] # id[d]
  /\ \A c \in Clients : Attached(c) => id[c] # 0
  /\ \A c \in Clients : handle[c] = "open" =>
       /\ id[c] \notin freers
       /\ id[c] \in misusers => dev = "freed"
       /\ dev = "freed" => platform \in Resident \/ c \in shared
  /\ NoUseAfterRelease
  /\ MissingFromTheStart

\* A handle taken while others have one makes each of them shared, with an id
\* of its own.
LEMMA OpenKinds ==
  ASSUME TypeOK, NEW c \in Clients, Open(c)
  PROVE  /\ handle[c] = "off" /\ handle' = [handle EXCEPT ![c] = "open"]
         /\ opens' = opens + 1 /\ opens' \in 0 .. MaxOpens
         /\ id' = [id EXCEPT ![c] = opens + 1]
         /\ shared' \subseteq Clients
         /\ \A d \in Clients : d # c /\ d \in shared => d \in shared'
         /\ \A d \in Clients : Attached(d) => d \in shared' /\ c \in shared'
         /\ status' \in [Clients -> {"none", "ok", "err"}]
         /\ UNCHANGED <<platform, fault, freers, misusers>>
  BY DEF Open, TakeHandle, TypeOK

\* Using the block adds at most the user's handle to the misusers.
LEMMA TouchTypes ==
  ASSUME TypeOK, NEW c \in Clients, Touch(c)
  PROVE  /\ misusers' \subseteq 0 .. opens
         /\ UNCHANGED <<platform, id, opens, shared>>
  BY DEF Touch, TypeOK

\* Every step keeps the types.
LEMMA TypeStep == TypeOK /\ [Next]_vars => TypeOK'
  <1> SUFFICES ASSUME TypeOK, [Next]_vars PROVE TypeOK'
    OBVIOUS
  <1>1. ASSUME NEW c \in Clients, Open(c) PROVE TypeOK'
    <2>1. /\ inst' \in {"down", "up", "faulted"}
          /\ dev' \in {"null", "live", "freed"}
          /\ answered' \in BOOLEAN
      BY <1>1 DEF Open, Allocated, TypeOK
    <2>2. 0 .. opens \subseteq 0 .. opens' /\ opens + 1 \in 0 .. opens'
      BY <1>1, OpenKinds DEF TypeOK
    <2>3. id' \in [Clients -> 0 .. opens']
      BY <1>1, <2>2, OpenKinds DEF TypeOK
    <2>4. freers' \subseteq 0 .. opens' /\ misusers' \subseteq 0 .. opens'
      BY <1>1, <2>2, OpenKinds DEF TypeOK
    <2>5. handle' \in [Clients -> {"off", "open", "released"}]
      BY <1>1, OpenKinds DEF TypeOK
    <2>6. /\ platform' \in Platforms /\ opens' \in 0 .. MaxOpens
          /\ shared' \subseteq Clients
          /\ status' \in [Clients -> {"none", "ok", "err"}]
          /\ fault' \in {"none", "null", "freed", "wild", "address", "table"}
      BY <1>1, OpenKinds DEF TypeOK
    <2> QED
      BY <2>1, <2>3, <2>4, <2>5, <2>6 DEF TypeOK
  <1>2. ASSUME NEW c \in Clients, NEW cmd \in Commands, Command(c, cmd)
        PROVE  TypeOK'
    BY <1>2, CommandKinds, TouchTypes
       DEF TypeOK
  <1>3. ASSUME NEW c \in Clients, Release(c) PROVE TypeOK'
    <2>1. handle' \in [Clients -> {"off", "open", "released"}]
      BY <1>3, ReleaseKinds DEF TypeOK
    <2>2. freers' \subseteq 0 .. opens
      <3>1. id[c] \in 0 .. opens /\ freers \subseteq 0 .. opens
        BY DEF TypeOK
      <3>2. freers' \subseteq freers \union {id[c]}
        BY <1>3, ReleaseKinds
      <3> QED
        BY <3>1, <3>2
    <2> QED
      BY <1>3, <2>1, <2>2, ReleaseKinds, TouchTypes DEF TypeOK
  <1>4. ASSUME NEW c \in Clients, Close(c) PROVE TypeOK'
    BY <1>4 DEF Close, TypeOK
  <1>5. CASE UNCHANGED vars
    BY <1>5 DEF vars, TypeOK
  <1> QED
    BY <1>1, <1>2, <1>3, <1>4, <1>5 DEF Next

\* Type correctness of the trusted application's globals.
THEOREM TypeCorrect == Spec => []TypeOK
  <1>1. Init => TypeOK
    <2> SUFFICES ASSUME Init PROVE TypeOK
      OBVIOUS
    <2>1. opens \in 0 .. MaxOpens /\ id \in [Clients -> 0 .. opens]
      BY DEF Init
    <2>2. /\ handle \in [Clients -> {"off", "open", "released"}]
          /\ status \in [Clients -> {"none", "ok", "err"}]
      BY DEF Init
    <2> QED
      BY <2>1, <2>2 DEF Init, TypeOK
  <1> QED
    BY <1>1, TypeStep, PTL DEF Spec

\* ta_router never calls past the end of ta_cmd, on any platform and under any
\* use of the handles.
THEOREM NeverOverruns == Spec => []NoTableOverrun
  <1>1. Init => NoTableOverrun
    BY DEF Init, NoTableOverrun
  <1>2. TypeOK /\ NoTableOverrun /\ [Next]_vars => NoTableOverrun'
    <2> SUFFICES ASSUME TypeOK, NoTableOverrun, [Next]_vars
                 PROVE  NoTableOverrun'
      OBVIOUS
    <2>1. ASSUME NEW c \in Clients, Open(c) \/ Close(c) PROVE NoTableOverrun'
      BY <2>1, OpenKinds DEF Close, NoTableOverrun
    <2>2. ASSUME NEW c \in Clients, NEW cmd \in Commands, Command(c, cmd)
          PROVE  NoTableOverrun'
      BY <2>2, CommandKinds DEF NoTableOverrun
    <2>3. ASSUME NEW c \in Clients, Release(c) PROVE NoTableOverrun'
      BY <2>3, ReleaseKinds DEF NoTableOverrun
    <2>4. CASE UNCHANGED vars
      BY <2>4 DEF vars, NoTableOverrun
    <2> QED
      BY <2>1, <2>2, <2>3, <2>4 DEF Next
  <1> QED
    BY <1>1, <1>2, TypeCorrect, PTL DEF Spec

\* A new handle keeps what ties the block to the handles: its number is new,
\* and an instance that lives is resident or has another handle.
LEMMA OpenStep ==
  ASSUME TypeOK, DeviceInv, NEW c \in Clients, Open(c)
  PROVE  DeviceInv'
  <1> USE OpenKinds
  <1>1. \A d \in Clients : Attached(d)' <=> Attached(d) \/ d = c
    BY DEF Attached, TypeOK
  <1>2. ~Attached(c) /\ inst' # "down"
    BY DEF Attached, Open
  <1>3. \A n \in freers \union misusers : n # opens + 1
    BY DEF TypeOK
  <1>4. \A d \in Clients : id[d] # opens + 1
    BY DEF TypeOK
  <1>5. /\ id'[c] = opens + 1 /\ id'[c] # 0
        /\ \A d \in Clients \ {c} : id'[d] = id[d]
    BY DEF TypeOK
  <1>6. handle'[c] = "open" /\ \A d \in Clients \ {c} : handle'[d] = handle[d]
    BY DEF TypeOK
  <1>7. \A d, e \in Clients : Attached(d)' /\ Attached(e)' /\ d # e
                              => d \in shared' /\ id'[d] # id'[e]
    <2>1. ASSUME NEW d \in Clients, NEW e \in Clients,
                 Attached(d), Attached(e), d # e
          PROVE  d \in shared' /\ id'[d] # id'[e]
      BY <2>1, <1>2, <1>5 DEF DeviceInv
    <2>2. ASSUME NEW d \in Clients, Attached(d)
          PROVE  d \in shared' /\ c \in shared' /\ id'[d] # id'[c]
      BY <2>2, <1>2, <1>4, <1>5
    <2> QED
      BY <1>1, <2>1, <2>2
  <1>8. \A d \in Clients : Attached(d)' => id'[d] # 0
    BY <1>1, <1>5 DEF DeviceInv
  <1>9. \/ /\ inst = "down" /\ \A d \in Clients : ~Attached(d)
           /\ answered' = FALSE /\ dev' # "freed"
        \/ inst # "down" /\ UNCHANGED <<inst, dev, answered>>
    BY DEF Open, Allocated, DeviceInv
  <1>10. dev' = "freed" => platform \in Resident \/ c \in shared'
    BY <1>9 DEF DeviceInv
  <1>11. ASSUME NEW d \in Clients, handle'[d] = "open"
         PROVE  /\ id'[d] \notin freers'
                /\ id'[d] \in misusers' => dev' = "freed"
                /\ dev' = "freed" => platform' \in Resident \/ d \in shared'
    <2>1. CASE d = c
      BY <2>1, <1>3, <1>5, <1>10
    <2>2. CASE d # c
      <3>1. handle[d] = "open" /\ Attached(d) /\ id'[d] = id[d]
        BY <2>2, <1>5, <1>6, <1>11 DEF Attached
      <3>2. inst # "down" /\ dev' = dev
        BY <3>1, <1>9
      <3> QED
        BY <2>2, <3>1, <3>2 DEF DeviceInv
    <2> QED
      BY <2>1, <2>2
  <1>12. NoUseAfterRelease' /\ MissingFromTheStart'
    <2>1. NoUseAfterRelease'
      BY DEF NoUseAfterRelease, DeviceInv
    <2>2. MissingFromTheStart'
      BY <1>9 DEF MissingFromTheStart, DeviceInv
    <2> QED
      BY <2>1, <2>2
  <1>13. Attached(c)'
    BY <1>1
  <1> QED
    BY <1>2, <1>7, <1>8, <1>11, <1>12, <1>13 DEF DeviceInv

\* A command changes neither the block nor the handles; on a freed block it
\* makes its own handle a misuser.
LEMMA CommandStep ==
  ASSUME TypeOK, DeviceInv, NEW c \in Clients, NEW cmd \in Commands,
         Command(c, cmd)
  PROVE  DeviceInv'
  <1> USE CommandKinds
  <1>1. \A d \in Clients : Attached(d)' <=> Attached(d)
    BY DEF Attached
  <1>2. /\ handle[c] = "open" /\ Attached(c)
        /\ UNCHANGED <<platform, handle, id, dev, freers, shared>>
        /\ misusers' = IF dev = "freed" THEN misusers \union {id[c]}
                                        ELSE misusers
        /\ inst # "down" /\ inst' # "down"
    BY DEF Touch, Attached
  <1>3. NoUseAfterRelease'
    BY <1>2 DEF NoUseAfterRelease, DeviceInv
  <1>4. MissingFromTheStart'
    BY <1>2 DEF MissingFromTheStart, DeviceInv
  <1>5. ASSUME NEW d \in Clients, handle'[d] = "open"
        PROVE  /\ id'[d] \notin freers'
               /\ id'[d] \in misusers' => dev' = "freed"
               /\ dev' = "freed" => platform' \in Resident \/ d \in shared'
    BY <1>2, <1>5 DEF DeviceInv
  <1> QED
    BY <1>1, <1>2, <1>3, <1>4, <1>5 DEF DeviceInv

\* RELEASE makes its own handle the one that freed the block, and leaves it
\* dangling for the handles that are there besides, which are shared.
LEMMA ReleaseStep ==
  ASSUME TypeOK, DeviceInv, NEW c \in Clients, Release(c)
  PROVE  DeviceInv'
  <1> USE ReleaseKinds
  <1>1. \A d \in Clients : Attached(d)' <=> Attached(d)
    BY DEF Attached, TypeOK
  <1>2. /\ handle[c] = "open" /\ Attached(c)
        /\ UNCHANGED <<platform, id, shared>>
        /\ misusers' = IF dev = "freed" THEN misusers \union {id[c]}
                                        ELSE misusers
        /\ inst # "down" /\ inst' # "down"
    BY DEF Touch, Attached
  <1>3. /\ handle'[c] = "released"
        /\ \A d \in Clients \ {c} : handle'[d] = handle[d]
    BY DEF TypeOK
  <1>4. freers' \subseteq freers \union {id[c]}
    OBVIOUS
  <1>5. NoUseAfterRelease'
    <2>1. CASE dev = "freed"
      BY <2>1, <1>2 DEF NoUseAfterRelease, DeviceInv
    <2>2. CASE dev # "freed"
      <3>1. id[c] \notin misusers
        BY <2>2, <1>2 DEF DeviceInv
      <3> QED
        BY <2>2, <3>1, <1>2, <1>4 DEF NoUseAfterRelease, DeviceInv
    <2> QED
      BY <2>1, <2>2
  <1>6. MissingFromTheStart'
    BY <1>2 DEF MissingFromTheStart, DeviceInv
  <1>7. ASSUME NEW d \in Clients, handle'[d] = "open"
        PROVE  /\ id'[d] \notin freers'
               /\ id'[d] \in misusers' => dev' = "freed"
               /\ dev' = "freed" => platform' \in Resident \/ d \in shared'
    <2>1. d # c /\ handle[d] = "open" /\ Attached(d)
      BY <1>3, <1>7 DEF Attached
    <2>2. d \in shared /\ id[d] # id[c] /\ id[d] \notin freers
          /\ (id[d] \in misusers => dev = "freed")
      BY <2>1, <1>2 DEF DeviceInv
    <2>3. dev = "freed" => dev' = "freed"
      OBVIOUS
    <2> QED
      BY <2>2, <2>3, <1>2, <1>4
  <1> QED
    BY <1>1, <1>2, <1>5, <1>6, <1>7 DEF DeviceInv

\* The last handle takes the instance with it unless it is resident.
LEMMA CloseStep ==
  ASSUME TypeOK, DeviceInv, NEW c \in Clients, Close(c)
  PROVE  DeviceInv'
  <1>1. \A d \in Clients : Attached(d)' <=> Attached(d) /\ d # c
    BY DEF Close, Attached, TypeOK
  <1>2. \A d \in Clients :
          handle'[d] = "open" => handle[d] = "open" /\ Attached(d)'
    BY DEF Close, Attached, TypeOK
  <1>3. UNCHANGED <<platform, id, freers, misusers, shared, answered>>
    BY DEF Close
  <1>4. \/ /\ inst' = "down" /\ dev' = "null"
           /\ \A d \in Clients : ~Attached(d)'
        \/ /\ UNCHANGED <<inst, dev>>
           /\ platform \in Resident \/ \E d \in Clients : Attached(d)'
    BY <1>1 DEF Close
  <1>5. inst # "down"
    BY DEF Close, DeviceInv
  <1>6. NoUseAfterRelease' /\ MissingFromTheStart'
    BY <1>3, <1>4 DEF NoUseAfterRelease, MissingFromTheStart, DeviceInv
  <1>7. ASSUME NEW d \in Clients, handle'[d] = "open"
        PROVE  /\ id'[d] \notin freers'
               /\ id'[d] \in misusers' => dev' = "freed"
               /\ dev' = "freed" => platform' \in Resident \/ d \in shared'
    BY <1>2, <1>3, <1>4, <1>7 DEF DeviceInv
  <1>8. \A d, e \in Clients : Attached(d)' /\ Attached(e)' /\ d # e
                              => d \in shared' /\ id'[d] # id'[e]
    BY <1>1, <1>3 DEF DeviceInv
  <1>9. \A d \in Clients : Attached(d)' => id'[d] # 0
    BY <1>1, <1>3 DEF DeviceInv
  <1> QED
    BY <1>3, <1>4, <1>5, <1>6, <1>7, <1>8, <1>9 DEF DeviceInv

\* The device block and the handles, on every platform and for any number of
\* handles at the same time.
THEOREM DeviceLives == Spec => []DeviceInv
  <1>1. Init => DeviceInv
    BY DEF Init, DeviceInv, Attached, NoUseAfterRelease, MissingFromTheStart
  <1>2. TypeOK /\ DeviceInv /\ [Next]_vars => DeviceInv'
    <2> SUFFICES ASSUME TypeOK, DeviceInv, [Next]_vars PROVE DeviceInv'
      OBVIOUS
    <2>1. CASE UNCHANGED vars
      BY <2>1 DEF vars, DeviceInv, Attached, NoUseAfterRelease,
                  MissingFromTheStart
    <2> QED
      BY <2>1, OpenStep, CommandStep, ReleaseStep, CloseStep DEF Next
  <1> QED
    BY <1>1, <1>2, TypeCorrect, PTL DEF Spec

\* A client whose instance is not resident and that never met another client
\* at it finds its device block in place until it releases it.
THEOREM HandleHasDevice == Spec => []OpenHandleHasDevice
  <1>1. DeviceInv => OpenHandleHasDevice
    BY DEF DeviceInv, OpenHandleHasDevice
  <1> QED
    BY <1>1, DeviceLives, PTL

\* No handle meets, or frees again, the block that its own RELEASE freed.
THEOREM NeverDangles == Spec => []NoUseAfterRelease
  <1>1. DeviceInv => NoUseAfterRelease
    BY DEF DeviceInv
  <1> QED
    BY <1>1, DeviceLives, PTL

\* A block that is missing was missing when the instance was loaded.
THEOREM MissingSinceLoad == Spec => []MissingFromTheStart
  <1>1. DeviceInv => MissingFromTheStart
    BY DEF DeviceInv
  <1> QED
    BY <1>1, DeviceLives, PTL
=============================================================================
