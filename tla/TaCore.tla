------------------------------- MODULE TaCore -------------------------------
(***************************************************************************)
(* The trusted application's own state over the life of its instance: the  *)
(* device block g_dev that platform_init allocates, g_in inside it, the    *)
(* table of operations, the commands of ta_router (hw_core.c), and the     *)
(* entry points that call it (app_main.c).  The TEE runs one command at a  *)
(* time, so a command is one step.  The platform is chosen once.           *)
(***************************************************************************)
EXTENDS Naturals

CONSTANTS
  Clients,     \* who may hold a handle to the TA; a client may do so again
  MallocFails, \* may the allocation in platform_init fail
  MaxOpens     \* bound: handles opened in a behaviour

ASSUME FlagsAssumption == MallocFails \in BOOLEAN
ASSUME MaxOpensAssumption == MaxOpens \in Nat

VARIABLES
  platform, \* whose platform_init the TA was built with
  handle,   \* handle[c]: "off", "open", or "released" after TEE_CMD_RELEASE
  id,       \* id[c]: which of the opened handles c has, counted from 1
  inst,     \* the instance: "down", "up", "faulted"
  dev,      \* g_dev, and g_in that points into it: "null", "live", "freed"
  fault,    \* what the instance faulted on
  status,   \* status[c]: g_out->status of c's last command
  opens,    \* handles opened so far
  freers,   \* history: handles whose RELEASE freed a block
  misusers, \* history: handles that sent a command to a freed block
  shared,   \* history: clients that met another one while they had a handle
  answered  \* history: has this instance answered a command

vars == <<platform, handle, id, inst, dev, fault, status, opens,
          freers, misusers, shared, answered>>

Platforms == {"qsee", "kinibi", "isee", "trusty"}

\* enum tee_cmd; TEE_CMD_END stands for every value past the table.
SPI_TEST == 0
I2C_TEST == 1
WRITE_TEST == 2
READ_TEST == 3
READ_ID == 4
RELEASE == 5
TEE_CMD_END == 6
Commands == SPI_TEST .. TEE_CMD_END

\* The one way to the sensor: spi_test and read_id both ask for its id.
hw_id == {"spi_rw"}

\* ta_cmd: the operations of g_dev each command calls.
Uses == [c \in SPI_TEST .. RELEASE |->
           CASE c \in {SPI_TEST, READ_ID} -> hw_id
             [] c = I2C_TEST -> {}
             [] c = WRITE_TEST -> {"sfs_write"}
             [] c = READ_TEST -> {"sfs_read"}
             [] c = RELEASE -> {"free"}]

\* platform_init of each platform: of those operations the ones it sets.  On
\* Kinibi it sets read and write instead, which no command calls.
Assigned ==
  [p \in Platforms |->
     IF p = "kinibi" THEN {"spi_rw", "free"}
                     ELSE {"spi_rw", "sfs_read", "sfs_write", "free"}]

\* External: a session of Kinibi has an instance to itself, so that another
\* one is none of this instance's; elsewhere all handles share the instance.
OwnInstance == {"kinibi"}

\* External: the instance stays loaded without a handle.  ISEE's manifest asks
\* for it; Trusty's main never returns while wait_any works.
Resident == {"isee", "trusty"}

Attached(c) == handle[c] # "off"

TypeOK ==
  /\ platform \in Platforms
  /\ handle \in [Clients -> {"off", "open", "released"}]
  /\ id \in [Clients -> 0 .. opens]
  /\ inst \in {"down", "up", "faulted"}
  /\ dev \in {"null", "live", "freed"}
  /\ fault \in {"none", "null", "freed", "wild", "address", "table"}
  /\ status \in [Clients -> {"none", "ok", "err"}]
  /\ opens \in 0 .. MaxOpens
  /\ freers \subseteq 0 .. opens
  /\ misusers \subseteq 0 .. opens
  /\ shared \subseteq Clients
  /\ answered \in BOOLEAN

Init ==
  /\ platform \in Platforms
  /\ handle = [c \in Clients |-> "off"]
  /\ id = [c \in Clients |-> 0]
  /\ inst = "down"
  /\ dev = "null"
  /\ fault = "none"
  /\ status = [c \in Clients |-> "none"]
  /\ opens = 0
  /\ freers = {}
  /\ misusers = {}
  /\ shared = {}
  /\ answered = FALSE

\* What platform_init leaves in g_dev; the entry points go on either way.
Allocated == {"live"} \union (IF MallocFails THEN {"null"} ELSE {})

\* c gets the next handle, and whoever has one meets whoever else has.
TakeHandle(c) ==
  /\ handle[c] = "off"
  /\ opens < MaxOpens
  /\ platform \in OwnInstance => \A d \in Clients : ~Attached(d)
  /\ handle' = [handle EXCEPT ![c] = "open"]
  /\ opens' = opens + 1
  /\ id' = [id EXCEPT ![c] = opens']
  /\ status' = [status EXCEPT ![c] = "none"]
  /\ LET others == {d \in Clients : Attached(d)}
     IN  shared' = IF others = {} THEN shared \ {c}
                                  ELSE shared \union others \union {c}
  /\ UNCHANGED <<platform, fault, freers, misusers>>

\* Mutation: platform_init is called for each session, and allocates each time.
OpenAllocates(c) ==
  /\ TakeHandle(c)
  /\ dev' \in Allocated
  /\ inst' = IF inst = "down" THEN "up" ELSE inst
  /\ answered' = (inst # "down" /\ answered)

\* tee_init opens a handle; the first one loads the TA with fresh globals, and
\* only then does its entry point call platform_init.
Open(c) ==
  /\ TakeHandle(c)
  /\ \/ /\ inst = "down"
        /\ inst' = "up"
        /\ dev' \in Allocated
        /\ answered' = FALSE
     \/ /\ inst # "down"
        /\ UNCHANGED <<inst, dev, answered>>

\* Mutation: the bound of the table includes TEE_CMD_END.
InTableOffByOne(cmd) == cmd <= TEE_CMD_END

InTable(cmd) == cmd < TEE_CMD_END

\* The entry points copy the request into g_in first.
Touch(c) ==
  /\ inst = "up"
  /\ misusers' = IF dev = "freed" THEN misusers \union {id[c]} ELSE misusers
  /\ UNCHANGED <<platform, id, opens, shared>>

\* What can stop the instance: no block; a block that is gone, whose memory
\* may or may not still be as it was; an entry past the table; a call through
\* an unset pointer; hw_id, which hands spi_rw the byte 0xaa for an address.
Faults(cmd) ==
  CASE dev # "live" -> {dev}
    [] dev = "live" /\ InTable(cmd) /\ cmd \notin DOMAIN Uses -> {"table"}
    [] dev = "live" /\ InTable(cmd) /\ cmd \in DOMAIN Uses ->
         (IF Uses[cmd] \subseteq Assigned[platform] THEN {} ELSE {"wild"})
         \union (IF "spi_rw" \in Uses[cmd] THEN {"address"} ELSE {})
    [] OTHER -> {}

Fault(c, cmd) ==
  /\ Touch(c)
  /\ fault' \in Faults(cmd)
  /\ inst' = "faulted"
  /\ UNCHANGED <<dev, status, freers, answered>>

\* The command comes back with one of the statuses s.
Answer(c, s) ==
  /\ Touch(c)
  /\ answered' = TRUE
  /\ \E st \in s : status' = [status EXCEPT ![c] = st]
  /\ UNCHANGED <<inst, fault>>

Works(cmd) == cmd \in DOMAIN Uses /\ Uses[cmd] \subseteq Assigned[platform]

\* ta_router on a command the platform supports: status is preset to OK and
\* the operation may record an error.
Run(c, cmd) ==
  /\ dev # "null"
  /\ InTable(cmd) /\ Works(cmd)
  /\ Answer(c, {"ok"} \union
                 (IF Uses[cmd] = {} /\ dev = "live" THEN {} ELSE {"err"}))
  /\ UNCHANGED <<dev, freers>>

\* LOG_RECORD of ta_router.
Reject(c, cmd) ==
  /\ dev # "null"
  /\ ~InTable(cmd)
  /\ Answer(c, {"err"})
  /\ UNCHANGED <<dev, freers>>

Command(c, cmd) ==
  /\ handle[c] = "open"
  /\ cmd # RELEASE
  /\ Run(c, cmd) \/ Reject(c, cmd) \/ Fault(c, cmd)
  /\ UNCHANGED handle

\* release() frees g_dev and leaves the pointers as they are; a block that was
\* free already may be freed once more without anybody noticing.
Free(c) ==
  /\ dev # "null"
  /\ Works(RELEASE)
  /\ Answer(c, {"ok"})
  /\ dev' = "freed"
  /\ freers' = IF dev = "live" THEN freers \union {id[c]} ELSE freers

\* Mutation: a client may send TEE_CMD_RELEASE again.
ReleaseAgain(c) ==
  /\ Attached(c)
  /\ handle' = [handle EXCEPT ![c] = "released"]
  /\ Free(c) \/ Fault(c, RELEASE)

\* TEE_CMD_RELEASE, which a client sends once, as its last command.
Release(c) ==
  /\ handle[c] = "open"
  /\ handle' = [handle EXCEPT ![c] = "released"]
  /\ Free(c) \/ Fault(c, RELEASE)

\* Mutation: the last handle to go leaves the instance loaded.
CloseKeepsInstance(c) ==
  /\ Attached(c)
  /\ handle' = [handle EXCEPT ![c] = "off"]
  /\ UNCHANGED <<platform, id, inst, dev, fault, status, opens,
                 freers, misusers, shared, answered>>

\* tee_exit, or the death of the client process at any point.  The TEE unloads
\* the instance with its last handle unless it is resident; one that faulted
\* goes in any case.
Close(c) ==
  /\ Attached(c)
  /\ handle' = [handle EXCEPT ![c] = "off"]
  /\ IF /\ \A d \in Clients : Attached(d) => d = c
        /\ platform \in Resident => inst = "faulted"
       THEN inst' = "down" /\ dev' = "null" /\ fault' = "none"
       ELSE UNCHANGED <<inst, dev, fault>>
  /\ UNCHANGED <<platform, id, status, opens,
                 freers, misusers, shared, answered>>

Next ==
  \E c \in Clients :
    \/ Open(c)
    \/ \E cmd \in Commands : Command(c, cmd)
    \/ Release(c)
    \/ Close(c)

Spec == Init /\ [][Next]_vars

---------------------------------------------------------------------------
(* Properties.                                                             *)

\* A handle that has not released finds the block freed only where the code
\* leaves it no defence: on a platform whose instance outlives the handles,
\* or when the client met another one at the instance since it had its handle.
\* A client that is alone is safe whatever earlier ones did, released or
\* left undone when they died.
OpenHandleHasDevice ==
  \A c \in Clients :
    handle[c] = "open" /\ inst = "up" /\ dev = "freed" =>
      platform \in Resident \/ c \in shared

\* Whoever uses or frees the block after release() freed it is not the one
\* whose RELEASE that was.
NoUseAfterRelease == freers \intersect misusers = {}

\* ta_router never indexes past ta_cmd.
NoTableOverrun == fault # "table"

\* An instance that lacks its block lacks it from the first command on: the
\* failure of platform_init, which no entry point looks at, is never met by a
\* client that had an answer of the same instance before.
MissingFromTheStart == inst = "up" /\ dev = "null" => ~answered
=============================================================================
