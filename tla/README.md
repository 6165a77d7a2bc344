# Verification of the Android TEE sample

The repository is a sample client and a sample trusted application (TA) for five
trusted execution environments (TEEs): Qualcomm QSEE, Microtrust ISEE, Trustonic
Kinibi, Spreadtrum Trusty and GlobalPlatform (GP).

* `sample_hal/` runs in Android. `tee_test.c` is the client program; one file per
  TEE under `platform/` implements `tee_init`, `tee_cmd(dev, in, out)` and
  `tee_exit` of `struct tee_client_device`. `tee_cmd` holds `dev->mutex` from its
  first line to its last.
* `sampleta/` runs inside the TEE. `app_main.c` has one entry point per TEE;
  each copies the request into `g_in`, points `g_out` at the reply and calls
  `ta_router` (`hw_core.c`), which presets `g_out->status` and calls one of six
  command functions through the table `ta_cmd`. The commands call the TEE's
  services through the pointers of `struct platform_device`, which
  `platform_init` of the platform assigns.

This directory holds TLA+ models of that system, TLC configurations that check
them on small instances, and TLAPS proofs of the main results for every value of
the constants. `PROJECT.json` ties every definition to the lines it models and
every property to a run, a mutation of the code that breaks it, and a hazard.

## 1. Inventory

| component | state | operations | talks to |
|---|---|---|---|
| test client, `tee_test.c` | `g_device`, `g_in`, `g_out`, `g_perf` | `init`, `random_test`, `print_data`, `release` | HAL, by calls |
| HAL interface, `platform_hal.h` | `mutex`, library handle | `tee_init`, `tee_cmd`, `tee_exit` | one back end |
| Kinibi back end, `platform/kinibi.c` | `g_mem` (shared buffer), `g_session` | `kinibi_init`, `kinibi_cmd`, `kinibi_exit` | TA: shared memory and a notification each way, 1000 ms wait |
| QSEE, ISEE, GP back ends | session or device handle, GP shared memory | `*_init`, `*_cmd`, `*_exit` | TA: one blocking call |
| Trusty back end, `platform/trusty.c` | `g_handle` | `trusty_init`, `trusty_cmd`, `trusty_exit` | TA: a message channel, `write` then `read` without timeout |
| TA main loops, `app_main.c` | place in the loop, Trusty's `p_func` | one entry point per TEE | HAL below, `ta_router` above |
| TA core, `hw_core.c` | `g_dev`, `g_in`, `g_out`, `ta_cmd` | `platform_init`, `ta_router`, six commands | platform services, by function pointers |
| secure storage, `*_read`, `*_write` of each platform | one file, `g_out->buf_len` across calls | open, size, read, write, close, commit | the TEE's storage service |
| token, HMAC, key, encryption services of each platform | `g_out->sys_err` across calls | `get_token`, `get_hmac`, `verify_hmac`, `get_hmac_key`, `km_encap`, `crypto`, `decrypt`, `uptime`, `sleep` | TEE crypto service; no command calls them yet |
| SPI and I2C, `hw_driver.c` and platforms | none | `hw_id`, `spi_rw`, `i2c_rw` | TEE drivers |
| buffer layout, `platform_common.h` (two copies) | none | lengths declared by a back end, checked by an entry point | both sides of a link |
| vendor headers, build files, manifests | none | none | declarations and flags |

What is hard in each, and what makes it correct:

* **HAL command.** Several threads may share a device. A call must run its request
  at most once, return 0 only with the answer to that very request, and always
  return. (`TeeCall`)
* **Kinibi link.** The shared buffer has no lock of its own; only the order of the
  two notifications keeps client and TA apart. A timeout abandons a request the TA
  still works on. The TA may die in a command. `kinibi_exit` frees the buffer
  before it closes the session. (`KinibiLink`)
* **Trusty link.** The handler in `p_func` is passed by value; `read` has no
  timeout, is made under the mutex and may be interrupted; the port has one
  buffer, which the error exits of `trusty_router` do not give back; other
  processes connect to the same port. (`TrustyLink`)
* **QSEE, ISEE, GP links.** One blocking call each, which may fail on the way there
  or back. GP goes through shared memory and copies it out after an error too;
  ISEE never passes `out` on. (`SyncLink`)
* **Buffer layout.** Each side has its own copy of the structures; lengths are
  rounded up, compared with `<` here and `!=` there, and limited by a port size and
  two vendor headers. (`Layout`)
* **TA core.** `release()` frees the block that `g_dev` and `g_in` point at and
  leaves both pointers as they are. Whether anybody uses them again depends on
  when the TEE unloads the instance, on clients that die before or after RELEASE,
  and on the manifest. Each platform assigns its own set of operations. (`TaCore`)
* **Secure storage.** Any service call may fail after part of its work, the TA may
  die between any two, five exits must close what is open, a commit may fail, and
  `g_out->buf_len` is capacity and result at once. (`SecureStorage`)
* **Set-up and tear-down, and the services of the platforms.** Lists of vendor
  calls, each followed by a test that returns, jumps to a label or falls through.
  What an error exit leaves open, whether the test behind a call looks at that
  call, whether a retry loop ends, in which order things are given back.
  (`Routine` with `HalTables` and `TaTables`)
* **Test client.** Ignores what `tee_cmd` returns; measures times with wrap-around
  arithmetic in a table that is never allocated. (`TeeTest`)

`PROJECT.json`, "hazards", lists them at their lines.

## 2. Modules

    TeeCall                      what tee_cmd promises
      ^ refined by each link
      +-- KinibiLink ----------- MCKinibiLink,   KinibiLinkProofs
      +-- TrustyLink ----------- MCTrustyLink,   TrustyLinkProofs
      +-- SyncLink ------------- MCSyncLink,     SyncLinkProofs
    Layout --------------------- MCLayout,       LayoutProofs
    TaCore --------------------- MCTaCore,       TaCoreProofs
    SecureStorage --------------                 SecureStorageProofs
    TeeTest -------------------- MCTeeTest,      TeeTestProofs
    CallTable
      ^ rows of
      +-- Routine                                RoutineProofs
      +-- HalTables --+
      +-- TaTables ---+--------- MCRoutines

The modules meet at two places. `TeeTest` assumes of a link no
more than the weakest of them keeps: a call returns with its own answer, an older
one or none, or not at all. And they meet at `ta_router`: a link
treats a command as one that runs, finishes or kills the TA; `TaCore` says when it
may kill the TA; `SecureStorage` opens the two commands that have steps of their
own; the tables open every operation. Each module lets its neighbours do all they
can do and more, so what holds of a module holds of the whole. A single module with
all of them would add no behaviour that one of them excludes.

### TeeCall

The abstract command operation. `Call` opens a call with a fresh request, `Serve`
runs it (once), `ReturnOk` returns its answer, `ReturnError` returns without a
promise about `out`. Requests are numbered in the order of the calls.

### KinibiLink

| state | code |
|---|---|
| `pc[t]`, `mutex`, `ret[t]` | where a thread is in `kinibi_cmd`, `dev->mutex`, `status` |
| `req[t]`, `reply[t]` | the caller's `in` and `out` |
| `in`, `out`, `gin` | the two halves of `g_mem`/`tciBuffer`, and the TA's `g_in` |
| `toTa`, `toClient` | notifications not yet consumed |
| `ta` | where `tlMain` is |
| `tci` | is the buffer allocated and the session open |

A request is its number; of a reply it matters which request it answers and
whether the command had finished. `Garbage` is unset or torn memory. A `memcpy`
that the other side can see half done takes two steps: `Lock` writes the first
bytes of a request and `CopyIn` the last, `TaWake` starts the TA's copy and
`TaCopy` ends it with the old, the new or a torn request if the buffer changed
meanwhile. `quiet`, `abandoned` and `runs` are history variables.

External, and so an assumption: a notification is remembered until consumed, up
to `NotifyCap`; waiting for or ringing a dead TA returns an error. `WaitGivesUp` is a
wait that ends without the TA's answer although the TA lives: after the 1000 ms, or
for an error of the driver (`MobiCoreDriverApi.h:321-326`), with or without a
notification already there. It takes `Timeouts = TRUE`. `mcNotify` fails on a dead
session only ("will always succeed", says its header). `FreeMem` waits until no call
is under way, which `kinibi_exit` does not: it takes no mutex. The guard stands for
`tee_test.c:49-56`, whose one thread releases the device after its last call.
`TaDies` stands for a command that faults, as on Kinibi the storage commands do
(section 5).

### TrustyLink

| state | code |
|---|---|
| `pc[t]`, `mutex`, `req[t]`, `ret[t]`, `reply[t]` | as above, of `trusty_cmd` |
| `conn` | our channel: `tipc_connect` under way, refused, open, closed |
| `rival` | another process at the same port |
| `port`, `held` | the channel's one receive buffer; has `trusty_router` taken the message and not put it back |
| `back` | replies sent and not yet read |
| `ta`, `p_func`, `gin` | where `main` is, its handler variable, `g_in` |

`p_func(&ue, (void *)p_func)` passes the variable by value, so that the assignment
in `trusty_accept` is lost: `ByReference = FALSE` is the code. With
`ByReference = TRUE` the assignment takes effect; that is a reading the code is
written for and not what it does, and it is there because only then does
`trusty_router` ever run and its error exits matter. `Ignore` is an event the
handler has no use for: nothing changes and `wait_any` reports it again.
`Failures` names the calls that may fail, "signal" being an interrupted `read`.

### SyncLink

| state | code |
|---|---|
| `pc[t]`, `mutex`, `req[t]`, `ret[t]`, `out[t]` | of `qsee_cmd`, `isee_cmd`, `gp_cmd` |
| `gCmd` | whose `in` the global `g_cmd` of ISEE points at |
| `inMem`, `outMem` | `g_in_mem`, `g_out_mem` of GP |
| `gin` | `g_in` of the TA |

`tee`, chosen once, is the back end; `Failures[tee]` says what may fail on it.
What the vendor call then works on is its caller's `in` and `out`, on ISEE those that
`g_cmd` points at (`Subject`), which `Point` has set under the mutex.
`Lost` is a vendor call that fails before the TA sees it, `Result` may fail on the
way back, `Refused` is an entry point that dislikes the lengths, which by
`OneBuildAccepts` of `Layout` takes two sides built from different headers.
`Contiguous` says that `out` begins where `in` ends, as in `struct
tee_client_device`; ISEE needs it.

### Layout

The lengths as numbers: `IN_BUF_LEN` = 48 + `BUF_LEN` = 32,816 bytes, `OUT_BUF_LEN`
= 52 + `BUF_LEN` = 32,820, both whole words, 32,832 after `QSEECOM_ALIGN`.
`halLen` and `taLen` are the `BUF_LEN` of the two sides' copies of
`platform_common.h`; `Call` declares lengths, `Accepts` is the test of the entry
point, and `copied` what has been written to `g_in` by then: `trusty_router` copies
the whole message before it looks at its length (`trusty.c:186-189`), the others
copy what they have accepted. `io_buf`, behind `g_in`, has room for a request and an
answer of the TA's build. Left out are two limits that lie outside the lengths the
two sides agree on, that of the port (`app_main.c:140`) and that of shared memory
(`tee_client_api.h:34`); section 5.

### TaCore

| state | code |
|---|---|
| `platform` | whose `platform_init` the TA was built with |
| `handle[c]`, `id[c]` | a client's handle: off, open, or open after it sent RELEASE; which of all handles it is |
| `inst`, `fault` | the loaded instance, and on what it faulted |
| `dev` | `g_dev` and `g_in`: null, pointing to the block, dangling |
| `status[c]` | `g_out->status` of the client's last command |
| `freers`, `misusers` | history: handles whose RELEASE freed a block; handles that sent a command to a freed one |
| `shared`, `answered` | history: clients that met another one; has the instance answered a command |

A command is one step: the TEE runs one at a time. Any number of clients may hold a
handle to the one instance at the same time (`QSEEComAPI.h:138`), except on Kinibi,
where each session has an instance of its own (`OwnInstance`). `Uses` is `ta_cmd` with
the operations each function calls, `Assigned` what `platform_init` of each platform
sets. A command sent to a freed block faults, or works as if nothing had happened
while the memory is still as it was. `Faults` has besides the jump through a pointer
nobody set (Kinibi's storage commands) and the byte that `hw_id` passes for an
address. `Close` is `tee_exit` or the death of the process, at any point. The TEE
unloads the instance with its last handle, unless it is `Resident`: ISEE's manifest
asks for it (`isee/manifest.c:21`), and Trusty's `main` does not return.
`MallocFails` lets the allocation fail, which the entry points do not notice.
`platform_init` of QSEE takes a parameter that `app_main.c` does not pass; it is
taken to arrive as NULL, without which the block would never be allocated.

### SecureStorage

| state | code |
|---|---|
| `pc`, `handles` | the next service call of the operation; what it holds open |
| `data` | `g_in->buf`, `g_in->buf_len` of a write |
| `file`, `view` | what the storage holds; what the open session sees |
| `status`, `bufLen`, `got` | `g_out->status`, `g_out->buf_len`, `g_out->buf` |
| `size` | the local of a read |
| `dropped` | history: has the operation dropped a result that says not all was done |
| `whole`, `marks` | history: the data of the last whole write; these and what later writes may have left |

`platform`, chosen once from `Platforms`, selects `qsee_write`/`qsee_read` or
`trusty_write`/`trusty_read`: they make the same calls in the same order and differ
in that Trusty truncates, works in a transaction, and accepts an empty write.
`Failures` says what may go wrong: opening, input and output (with any part of the
data already moved), counts that come back short without an error, the commit, the
death of the TA between two calls. The run has them all. A short write passes for
success on both platforms, a short read on Trusty, and nobody looks at what the
commit returns: `dropped` records it, and what an OK answer means is stated for the
operations that dropped nothing. A request is one of two fill patterns in any
length, enough to tell old data from new at every position. `bufLen` starts at 0 on
QSEE, where `g_out` is the client's cleared buffer, and anywhere on Trusty, where it
is in memory from `malloc`. A write is whole when it was answered OK and dropped
nothing; `marks` starts anew with it and gathers the data of the writes begun since,
also the parts that failed or short ones moved.

### CallTable, Routine, HalTables, TaTables

Some sixty functions of this code have one shape: a vendor call, a test of its
result (`if_ab`, `if_abc`, `if_err`), and on failure a record of the error and a
return, a jump to a label, or nothing. `CallTable` writes such a function as a
sequence of rows: what the call acquires and gives back, what it can come back
with, which results the test takes for errors, whether the test looks at this
result or at the variable left by an earlier call, and where it goes. `Routine`
runs one routine after another in any order the contracts allow, every call free
to fail each time.

| state | code |
|---|---|
| `at`, `row`, `turn` | the running function, its next call, turns of a retry loop |
| `sys`, `status` | `g_out->sys_err` or the local `status`; has an error been recorded |
| `kept` | what is open or allocated |
| `broke`, `refused` | history: the rows whose call failed; has a test of the data refused |

`HalTables` holds open, init, exit and close of the five back ends around `init()`
and `release()` of `tee_test.c`; `TaTables` the 40 operations of the four
platforms. A contract says what a routine needs to hold and holds when done; what a
finished routine leaves beyond it is lost to the caller. A caller may try a failed
init again, which `main` of `tee_test.c` does not do: it exits. What the TA's vendor
calls return is in no header of the repository and is read off the tests the code
makes of them. A call that gives something back and returns a result the code drops
(`mcCloseSession`, `tipc_close`, `dlclose`, `storage_end_transaction`, `close` and
their like) may fail like any other, `PutDropped`; what it was to give back is out of
the code's hands either way. `Put` is for those that return nothing (`free`,
`TEEC_CloseSession`, `TEE_CloseObject`) or whose type no header tells and no test
shows (`storage_close_file`, `storage_close_session`, `keymaster_close`).
`Leaky`, `Alarmist` and `Endless` name the routines, `Deaf` the single calls, and
`Hasty` the releases that are known to break a rule (section 5). The rules themselves
can be told from a table alone: `Balanced`, `Reporting`, `Grounded`, `Forward`,
`Ordered`, and `Secured`, which has no exceptions. The invariant `ExceptionsExact`
says that the lists name exactly what breaks a rule, and that all are `Secured`.

### TeeTest

| state | code |
|---|---|
| `pc`, `times` | where `main` is, rounds left |
| `cmd`, `status` | `g_in->cmd`, `g_out->status` |
| `cost`, `perf` | `time_cost`, `g_perf[]` |
| `reply`, `elapsed` | history: what `tee_cmd` delivered, how long the command took |
| `late` | the statuses that commands given up may yet be answered with |
| `printed` | lines of `print_data` |

`Send` is a `tee_cmd` that returns: with its own reply; with a late one to a command
given up before (Kinibi after a timeout, Trusty after an interrupted read, GP copying
out after a failed invocation); or with none. `Hang` is one that does not return, as
on Trusty (`trusty_answers`), from the loop or from RELEASE. `Signed` is `%d` of an
unsigned word (`tee_test.c:92`).
`tv_usec` counts modulo `Second` and `uint32_t` modulo `Word`. `g_perf` is assigned
nowhere: `hasPerf = FALSE` is the code, `hasPerf = TRUE` the test once `g_perf`
points to `perf` of `struct tee_client_device`, without which nothing behind the
first round could be looked at. Division by zero is undefined: the process may be
killed or go on.

## 3. Properties

| property | says |
|---|---|
| `QuietCallGetsOwnReply` | Kinibi, Trusty: a call that takes the mutex on a quiet link and returns 0 has its own complete answer, whatever timed out or was interrupted before |
| `OkCallGetsOwnReply` | Trusty, QSEE, ISEE, GP: any call that returns 0 has its own answer (Kinibi: refuted) |
| `QuietUntilAbandoned` | Kinibi: until a call is given up, every critical section leaves no notification and no running command behind |
| `ServedWhileOpen` | Trusty: what is in the port's buffer, in a command or on its way back has its caller waiting for it |
| `TciRaceFree`, `TciAlive` | Kinibi: client and TA never use the shared buffer at the same time; it is not freed under the TA (until a call is given up, and released after the calls as `tee_test` does) |
| `NoForeignAnswer` | QSEE, ISEE (GP copies what its shared memory still holds): `out` never holds the answer to another thread's request, whatever the call returned |
| `EveryCallReturns` | every call returns; on Trusty, where `read` has no timeout, unless the exchange of some caller lost its message or its answer in the TA |
| `ImplementsTeeCall` | the link is `TeeCall`: a request runs at most once, and 0 is returned only with its answer |
| `IInv` | Kinibi: the inductive invariant of the proofs |
| `TaStaysInside` | the TA stays inside the blocks it was given, whichever two builds meet; the one way out is the message Trusty copies before it looks at the length: a longer build's, which is then refused |
| `OneBuildAccepts` | two sides of one build never refuse each other |
| `AnswerInPlace` | in one block the answer is where the client looks for it |
| `OpenHandleHasDevice` | who holds a handle and has not released finds the block freed only on a resident instance, or after meeting another client there |
| `NoUseAfterRelease` | who uses or frees the block after `release()` freed it is never the one whose RELEASE that was |
| `NoTableOverrun` | `ta_router` stays inside the table |
| `MissingFromTheStart` | an instance whose `platform_init` found no memory has never answered a command: nobody meets the missing block later |
| `FileKeepsWrites` | whatever failed since, failed commits included: on Trusty the file is the data of one write, the last whole one or of a later one as far as it got; on QSEE each byte of the last whole write is there or replaced by a later one's (what follows may be older) |
| `OkWriteIsStored` | OK to a write that dropped no result means the data is in the file: alone on Trusty, at its beginning on QSEE |
| `OkReadIsComplete` | OK to a read that dropped no short count means the whole file and its length were returned |
| `RefusedOnce` | a read is refused for lack of room at most once in a row: the refusal hands back the size that is needed |
| `HandleBalance` | nothing stays open, whichever way a storage operation ends |
| `LosesNothing`, `HoldsPromise` | a routine that ends, whatever failed, leaves nothing open its caller does not know of, and holds what the next routine relies on |
| `NoBadRelease`, `NoOrphan` | nothing is given back twice or unopened, nor before what depends on it, but for `Hasty` |
| `FailureReported`, `SuccessReported` | a call that failed ends in an error unless it is one of the single calls in `Deaf`; an error has a failed call or refused data behind it |
| `ExceptionsExact` | the routines listed as leaking, alarmist or endless, the calls listed as deaf and the releases listed as hasty are exactly those that break the rule; no routine, the listed ones included, gives back what it may not hold |
| `Terminates` | a routine ends though every call keeps failing |
| `Advances` | each step of a routine not listed as endless leads on, out of it, or through a counted turn of a loop |
| `AverageBelowMax` | when the maximum `%d` prints is not negative, the average it prints beside it lies between 0 and it, though costs wrap around |
| `NoOldError` | an error the test reads was delivered by this very `tee_cmd`, as the command's reply or a late one; what nothing was delivered for reads OK |
| `ChargedOrWrapped` | a command shorter than a second is charged its time, or its time less a second in an unsigned word |
| `EndsInRelease` | the test sends RELEASE and closes its session, unless a `tee_cmd` does not return, `g_perf` is null, or a command was never run (a division by zero) |
| `Approaches` | each step of it, once it has its arguments, is nearer to the end of its rounds and lines |
| `NobodyStuck` | Kinibi, Trusty, QSEE, ISEE, GP: while a call is under way a thread or the TA can take a step (Trusty: or the caller in the mutex has lost its message or answer): no error path leaves `dev->mutex` locked, no notification and no message is overlooked |
| `SectionAdvances` | all links: each step between lock and unlock uses up part of a bounded amount left to do, or is another thread's call (Kinibi: until a call is abandoned) |
| `QuietCallRunsOnce` | Kinibi: the request of a call that found the link quiet and returned 0 has run exactly once, and never runs again |
| `StaysRecovered` | Kinibi: a free and quiet link, also one that is quiet again after a timeout, stays so until a call fails |
| `NoQuietStart` | Kinibi, doorbells deeper than one: after a call was abandoned no call starts on a quiet link again while the TA lives |
| `AnswerOnce` | Trusty: an answer is handed to one call at most, and only after its request has run |
| `OwnReplyOnlyIfQuiet` | Trusty: of the calls that return 0, those that found the channel quiet have their own answer and no others have |
| `OutOfStep`, `NoCallMatches` | Trusty: once something is under way that no reader waits for, it stays so, and no call that returns 0 has its own answer again |
| `ReadYourWrite` | a read answered OK that dropped nothing has lost nothing of the last whole write: on Trusty it is that write's data or a later one's, on QSEE byte by byte |

`TypeOK` of each module is proved (section 7) and not run again by TLC, which would
only add the same states; for Kinibi `IInv` contains it. The rows from
`Approaches` on, and `Advances`, are proved and checked by no run; they stand in the
modules of the proofs. `NobodyStuck`, `SectionAdvances`, `Advances` and `Approaches`
are what `EveryCallReturns`, `Terminates` and `EndsInRelease` rest on apart from
fairness.
`RunAtMostOnce` is proved too; where a link implements `TeeCall` it follows from
that.

## 4. Runs

| run | instance | states | shows |
|---|---|---|---|
| `kinibi_prompt` | 3 threads, 4 calls, none given up | 38,784 | the handshake is sound while no call is given up, and implements `TeeCall` |
| `kinibi_late` | 3 threads, 3 calls, timeouts and driver errors, doorbells of 1 | 373,275 | a call on a quiet link gets its own reply; `IInv`; every call returns although the TA is owed nothing |
| `ta_instance` | 4 platforms, 3 clients at once, 4 opens, `malloc` may fail | 145,216 | who can meet a device block that is freed or missing |
| `storage` | QSEE and Trusty, files up to 2, 3 writes lost, every failure | 1,549,688 | what the file keeps of the last whole write, when an OK answer is true, nothing stays open |
| `routines` | all 60 tables, every call with a result free to fail | 1,340 | which routines keep the rules, and that the listed exceptions are all: the premises of the theorems of `RoutineProofs` |
| `trusty_faults` | 3 threads, 4 calls, a rival, handler switched, all failures but an interrupted read | 243,745 | own reply, nothing stray, calls return, `TeeCall` |
| `trusty_signals` | the same and interrupted reads | 3,991,105 | own reply over a quiet channel |
| `sync` | 3 threads, 4 calls on each of QSEE, ISEE, GP | 224,730 | own reply, no other thread's, calls return, `TeeCall` |
| `test_counts` | 3 commands, 3 rounds, with and without `g_perf`, late replies, no return | 990,430 | what keeps the test from RELEASE, whose error it reads, which figures agree |
| `layout_builds` | 76 by 76 buffer lengths, 5 back ends | 115,520 | the accesses outside the blocks are Trusty's early copies; equal builds agree |
| `kinibi_stale` | 1 thread, 2 calls, timeouts | | **violation**: after a timeout the next call returns 0 with the previous reply |
| `trusty_answers` | the code, nothing fails | | **violation**: with the handler passed by value no message is taken and the first caller waits for good |

**Bounds.** Two threads meet at the mutex and three calls are the fewest in which a
call is abandoned, a second takes its reply and a third follows; the runs of the
links have three threads, and three or four calls. A doorbell of depth 2
(`kinibi_prompt`) tells a lost notification from one too many; with depth 1
(`kinibi_late`) the link can become quiet again after a timeout, so that calls on a
quiet link occur there before and after one (with more they do not, section 7).
Three clients share the one instance in `TaCore`; four opens let a released, a dead
and a faulted instance be followed by a fresh one, and a resident one by a client
that was never there before. Files of length 0, 1 and 2 have an empty, an equal, a
shorter and a longer rewrite; `MaxLost` = 3 lets three writes in a row be cut short.
Of the buffer lengths 71 in a row have every remainder of a word and of a block of
64, and five are about twice as long, so that a request alone exceeds `io_buf`. The
tables are the code's own and need no bound; `Tries` is the code's 10. Three
commands and three rounds let the test client run every command, one of them twice
or none; a second of 4 ticks and a word of 16 keep `Word` >= `Second`, which is all
the arithmetic uses, with costs of either sign when printed, and a latency of 4
covers a whole second. The proofs of section 7 do not depend on any of these.

**Fairness.** In `KinibiLink` a thread inside `kinibi_cmd` is scheduled
(`WF(ClientStep(t))`), which Android's scheduler gives, and, only when calls are
never given up, the TA is (`WF(TaStep)`); with `Timeouts` the TA is owed no step at
all, and calls return because `mcWaitNotification` gives up. In `TrustyLink` the TA
takes up each kind of event that stays pending, since `wait_any` returns pending
events in turn: `WF` for connections, for a rival's and for messages. Events of the
rival's own channel are left out. The one excuse of `EveryCallReturns` there,
`LostItsAnswer`, is an exchange whose message the TA failed to take or whose answer
it failed to send; all other failures, the death of the TA included, let calls
return. In `SyncLink` a thread inside `tee_cmd` goes on and the vendor call comes
back (`WF(Step(t))`), which a TA that does not end in a fault or an endless loop
(section 5) gives. In `Routine` a routine once entered runs on; in `TeeTest` the
single process does, and a `tee_cmd` that never returns is one of its steps
(`Hang`). Weak fairness suffices for the mutex because calls are bounded: when the
others are done it stays free. Nothing is assumed about how often a client calls.

**Deadlock.** Checked except in `ta_instance`, where the bound `MaxOpens`
ends every behaviour. The links have `Done`, when all calls are made, `TeeTest` has
`Over`.

## 5. Departures of the code

Two are refuted by a run, `kinibi_stale` and `trusty_answers`, and quoted under
"findings" in `PROJECT.json`. The others are where an assumption or an exception of a
model comes from; each is one step or one comparison, which a run would only repeat.

| code | what it does | in the models |
|---|---|---|
| `hw_core.c:49` | `release()` leaves `g_dev` and `g_in` dangling: a second client of the instance (`QSEEComAPI.h:138`), or any next one of a resident instance (`platform/isee/manifest.c:21`, Trusty's `main`), uses the freed block | `OpenHandleHasDevice` says who can meet it |
| `hw_core.c:34`, `:39` | the storage commands call `sfs_write`, `sfs_read`; `platform_init` of Kinibi assigns only `read`, `write` (`kinibi.c:174`) | `Faults`: "wild" |
| `hw_driver.c:20-22` | `hw_id` passes the byte `0xaa` where `spi_rw` takes an address | `Faults`: "address" |
| `isee.c:158` and the other `platform_init` | no memory: returns, and the entry points use `g_in` | `MissingFromTheStart` |
| `qsee.c:136` | opens without `O_TRUNC`: behind a shorter write the old tail stays | `FileKeepsWrites` lets it |
| `qsee.c:158`, `trusty.c:132` | a read takes `g_out->buf_len`, which the client clears (`tee_test.c:37`), for the room there is: the first one of a stored file is refused | `RefusedOnce`, not "never" |
| `trusty.c:112` | the result of the commit is dropped: a failed commit is answered OK | "commit" in `Failures`, `dropped`; `TaDeaf` |
| `trusty.c:52`, `isee.c:58` | `while(try > 0)` never counts down | `TaEndless` |
| `kinibi.c:136-137`, `:154-155` (TA) | the result of the transfer is dropped and the open's tested again | `TaDeaf` |
| `qsee.c:141`, `isee.c:127`, `trusty.c:109` and the reads of `isee.c`, `trusty.c` | a short count is not negative and passes | "short" in `Failures`, `dropped`; `TaDeaf` |
| `qsee.c:41`, `isee.c:45`, `trusty.c:42`, `kinibi.c:49-50` (HAL), `dlclose` | `tee_exit` and `release` return nothing: these results are dropped | `HalDeaf` |
| `kinibi.c:48-49` (HAL) | frees `g_mem` before the session that maps it is closed | `HalHasty`; `TciAlive` |
| `trusty.c:84`, `isee.c:123`, `:137` | the session or descriptor itself is tested for an error: one that is not 0 is reported and stays open | `TaLeaky`, `TaAlarmist` |
| `trusty.c:74` | tests a `sys_err` that `trusty_get_hmac` never sets | `TaAlarmist` |
| `kinibi.c:67` (TA) | compares a result code with the length 8 | `TaAlarmist` |
| `kinibi.c:61`, `:69`, `gp.c:79`, the `client_open` functions (HAL) | error exits leave device, files, buffers, sessions behind | `HalLeaky` |
| `tee_test.c:81` | `g_perf` is assigned nowhere: the first answered round faults, and RELEASE is never sent | `hasPerf` |
| `tee_test.c:91` | divides by a run count that may be 0 | `EndsInRelease` names it |
| `tee_test.c:92` | prints `uint32_t` figures with `%d`: a cost that wrapped shows as a negative number | `Signed` |
| `tee_test.c:103` | ignores `tee_cmd`: a command without an answer is counted as a success, one that gets a late reply by that | `NoOldError` |
| `tee_test.c:105` | leaves `tv_sec` out | `ChargedOrWrapped` |
| `qsee.c:32` (HAL) | the rounded lengths reach past the buffers of `struct tee_client_device` | `Layout` bounds the TA, not the vendor library |
| `trusty.c:186-189` (TA) | `read_msg` copies the message to `g_in` before its length is compared: one of a longer build can reach past `io_buf` | `copied`, `TaStaysInside` |
| `app_main.c:140` | the port is created for messages of 32,768 bytes, a request has 32,816 | not modelled: two constants |
| `gp.c:72` | shared memory beyond `TEEC_CONFIG_SHAREDMEM_MAX_SIZE` (`tee_client_api.h:34`) | not modelled: two constants |

Assumed of the surroundings: an instance that is not resident is unloaded with its
last handle, a notification is remembered, a vendor call that blocks comes back, and
the device is released after its calls (`tee_test.c:49-56`).

## 6. Mutations

Each property is broken by one definition changed as a plausible bug in the code
would: the mutex not taken, the error path that returns without unlocking, a
notification not consumed, a message read but not put back, a call made again after
its answer was lost, a copy made after the unlock, an off-by-one at the table's end,
a second RELEASE, an instance that stays loaded, a `platform_init` for each session,
a file opened without truncation, a result not looked at, a subtraction the wrong
way round, an early exit that skips the close, a jump to the wrong label, the wrong
one of two buffers freed, a device closed before its session, a retry loop without a
count, a test of one length instead of two, an alignment that rounds down. They
stand before the definition they change, marked "Mutation:", and no action uses
them.

## 7. Proofs

All for any number of threads, handles, calls and commands, any doorbell depth,
files and buffers of any length, under the named assumptions on the constants.

* **KinibiLinkProofs.** `IInv` is inductive: types; `MutexInv` (inside the critical
  section iff holding the mutex); `FreshInv` (a request not yet sent has been seen
  by nobody, and no two threads have the same); `ExitInv`; `HandshakeInv` and
  `PromptInv`. `HandshakeInv` carries the argument: for a thread that took the mutex
  on a quiet link, its request is in exactly one place at a time (rung for, being
  copied, in the command, answered, or lost with the TA), and in each the other
  notifications are absent. `PromptInv` adds that, until the first call is given up,
  every section starts and ends quiet. From these follow `TypeCorrect`, `Invariant`,
  `QuietCallOwnReply`, `StaysQuiet`, `AtMostOnce`, `NoTciRace`, `TciOutlivesWork`,
  and, assuming `~Timeouts`, `Refinement`: initial states map to initial states and
  each step to a step of `TeeCall` or a stutter. `NeverStuck` and `SectionEnds` are
  read off the same invariant: the places a request can be in are places somebody
  can take it on from, and each step moves it to a later one. Three theorems are
  about the time after a call was given up. `ExactlyOnce`: a request served over a
  quiet link has run once and is not run again by what later calls leave behind; the
  invariant `Settled` adds that the TA's copy no longer holds it and that nobody
  rings while the buffer still does. The other two depend on `NotifyCap`, which the
  driver decides. With doorbells of one ring the ring of a late answer can merge
  with the next one; then the link is quiet, and `RecoveryLasts` says that it works
  until the next call that fails. With deeper ones `NeverQuietAgain`: the invariant
  `OneTooMany` counts one ring more than there are calls waiting, which no step
  takes away while the TA lives.
* **TrustyLinkProofs.** In two layers, each for either value of `ByReference`. What
  holds whatever fails: `Base` is types, mutex and freshness as above, and
  `OnePlace`: a request that has not been run is with its caller, in the buffer or in
  `ta_router`, and in one of them only. It gives `NoSecondRun` and `SectionEnds`;
  with `Once` (an answer on its way back is there once, and nobody has had it)
  `DeliveredOnce`. `Alone` adds, for a thread that took the mutex on a quiet channel,
  that nothing but its own request is under way until it unlocks (in the buffer,
  taken, run, on its way back, or gone), hence `QuietCallOwnReply`, interrupted
  reads included.
  Its converse `OnlyQuietCallsMatch` assumes `AnswersSent` (`send_msg` does not
  fail): by `Shifted`, what a thread that found the channel in use can read next is
  another's. With it `OutOfStepForGood`: replies come in the order of the requests
  and nothing drains the channel, so what one interrupted read leaves behind shifts
  every later reply. Where `send_msg` may fail too, a lost answer makes up for an
  interrupted read and later calls match again: the assumption is needed.
  And what holds as long as no read is interrupted, under every other failure:
  `Ends` (when the channel is open), `Empty` (nobody reads, nothing is under way)
  and `Progress` say that each section starts as a quiet one does, hence
  `RepliesMatch`, `NothingStray` and `Refinement`. `NeverStuck` needs `ByReference`
  too: without it every caller waits for good, as `trusty_answers` shows.
* **SyncLinkProofs.** Under `Sound` (ISEE with contiguous buffers, QSEE without
  refusals): inside the mutex, what the shared memory, `g_in` and `out` hold at each
  step of the one thread is its own request, on ISEE because `g_cmd` points at it until
  the unlock: `OwnReply`, `Refinement`. Without
  `Sound`: `TypeCorrect` (with it, that no request runs twice); `NobodyElses`,
  since what QSEE and ISEE write to a thread's `out` is the request in `g_in` at that
  moment, which is the thread's own; `NeverStuck`; `SectionEnds`.
* **LayoutProofs.** Arithmetic lemmas on rounding to words and to blocks of 64; then
  `StaysInside`, `OneBuildWorks`, `AnswersFound` for every set of buffer lengths,
  and `AlwaysAligned`: the lengths told to QSEECom are whole blocks of 64, the
  fewest. The invariant records what `Call` declared, what `Accepts` let in, and that
  what was `copied` is what was accepted or, on Trusty, the whole message.
* **TaCoreProofs.** No assumption on how handles are used. `TypeCorrect`;
  `NeverOverruns`; `DeviceLives`, the invariant `DeviceInv`: the block is there from
  the load of an instance until a RELEASE; handles held at one time have their own
  numbers, and whoever holds one beside another is `shared`; a handle that is open
  has freed nothing, and if the block is freed it met the one that did, or the
  instance is resident. From it `HandleHasDevice`, `NeverDangles` and
  `MissingSinceLoad`.
* **SecureStorageProofs.** Lemmas on files first: a prefix of a file is a file,
  overwriting yields a file that starts with the data. `TypeCorrect`;
  `NothingStaysOpen`; from `ViewInv`, `ReadInv` and `RoomInv`, which tie the
  session's view, the local size and `g_out->buf_len` to the file,
  `ReadsAreComplete` and `SecondReadHasRoom`; from `WriteInv`, which says for each
  place of a write how far `file`, `view` and `marks` have come, `KeepsWholeWrites`
  and `OkWritesAreStored`, under all failures, those of the commit included.
  `ReadsGiveWrites` joins the two halves: what a client reads is what a client wrote.
* **RoutineProofs.** For any tables, not only those of this code, and any path of
  failures through them, from rules that can be told from a table alone. `Balanced`:
  nothing is left behind (`NothingLost`); the invariant `Holding` is that `kept` is
  at each row what the table says is held there when nothing failed on the way,
  because a failure leaves the straight path only to a row where the same is held.
  `Secured`, which a leaking routine can also keep: what the caller goes on to use
  is held (`PromisesHeld`), and nothing is given back that is not held
  (`ReleasesOwned`); the invariant `Covered` is that `kept` contains what the table
  says. With `HastyListed` as well, which compares `Ordered` with the list, nothing
  else is given back before what depends on it (`NothingOrphaned`). `Reporting`,
  call by call: the test of this call takes all its failures for errors
  (`FailuresReported`, from `DeafListed`). `Grounded`: no error without a failed
  call or refused data behind it (`ErrorsCaused`); the invariant `Founded` follows a
  failure through the variable `sys_err`, where a later test may find it, and
  through an exhausted loop. `Forward`: each row is passed a bounded number of times
  (`AlwaysAdvances`). The theorems name the rule for what is not listed as an
  exception; that the lists are exact for this code's tables, and that all of them
  are `Secured`, the run `routines` decides with `ExceptionsExact`.
* **TeeTestProofs.** `TypeCorrect` (each cost is reduced to its word);
  `FiguresAgree`: the total of a command is at most its run count times its maximum,
  so that an average has no sign either where the maximum has none; `OldStatusOk`:
  the loop goes on with status OK only; `CostsKnown`; `AlwaysOn`: rounds left,
  places within a round and lines not yet printed go down.

Only model-checked: `EveryCallReturns`, `Terminates` and `EndsInRelease`, since
liveness under fairness, and `ENABLED`, are out of the prover's reach; what is
proved is that their steps lead on (`AlwaysAdvances`, `AlwaysOn`, `SectionEnds`) and
that one can be taken (`NeverStuck`), where `CanStep` and `TaCanStep` spell out the
guards that `ENABLED` would read off the actions (TLC finds what `NobodyStuck` says
of a step equal to `ENABLED` on the instances of `kinibi_prompt`, `kinibi_late` and
`sync`, and sufficient for it on that of `trusty_faults`). And `ExceptionsExact`, a
statement about the code's own, fixed tables: a computation, which the run does and
no bound cuts short.

## 8. Not modelled

* `platform_init` and services of GP's TA: the repository has no such file.
* What ISEE's and Kinibi's storage holds: their control flow is in `TaTables`, but
  the headers that would say what their calls do are not in the repository.
* `hw_sleep` and `hw_wakeup`, which nothing calls and which make the call of
  `hw_id`; the fields of the SPI and I2C configurations; the bytes on the bus.
* The bytes of keys, digests and tokens. Two digests are equal or not.
* Width of `size_t` against `uint32_t` in `read_test`: the model is the 32-bit TA.
* A channel of Trusty that hangs up: neither handler deals with the event, and the
  repository does not say what the kernel then does with the port.
* A Kinibi device released while its calls are under way: `kinibi_exit` takes no
  mutex, and `tee_test` does not do it (the guard of `FreeMem`). Errors of the driver
  with a live TA are in the models where `Timeouts` is TRUE.
* The limits of the port and of shared memory (section 5).
* The parts of the vendor headers nothing uses, logging, build files.

Token, HMAC, key, encryption and I2C operations are modelled although no command of
`ta_cmd` calls them yet: they are entries of `struct platform_device`, there for the
commands a product adds.

## 9. State

Every module of section 2 is checked and proved as sections 4 and 7 say. Left to TLC:

* `EveryCallReturns`, `Terminates` and `EndsInRelease`. Their step parts are proved;
  joining them takes fairness, which the prover does not reason about.
* `ExceptionsExact`, about fixed tables: a computation, which a theorem could only
  restate row by row.
* For a Kinibi call that did not find the link quiet nothing is promised: its reply
  may be torn, another's (`kinibi_stale`) or, by chance, its own.
* On Trusty with interrupted reads and lost answers together, which calls have
  their own answer depends on how many of each there were.

Whoever changes the code starts at `PROJECT.json`, "map": it names, for each
definition, the lines it stands for. A changed error path is a changed row of
`HalTables` or `TaTables`, and `routines` tells which rule it breaks; a changed step
of a link is a changed action, and the lemma on the step of that action is the
proof that has to be looked at again.
