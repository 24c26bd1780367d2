# Verification of the BenchPod firmware

The BenchPod is a bench instrument: an STM32H563 with an iCE40 FPGA, an ESP32
for Wi-Fi, an ADC, a DAC, a debug probe and a set of buses, driven by clients on
the LAN, over USB and through a cloud service; a second ESP32 board, the Wi-Fi
bridge, can stand between a pod's cable and a radio. This directory models the
parts of the firmware (`stm32h563/src`, and `wifi-bridge` where the two talk)
whose correctness depends on the order in which things happen, checks them with
TLC on small instances, and proves with TLAPS what should hold for every
instance.

Paths below are relative to the root of the repository; where no directory is
given, the file is in `stm32h563/src`. `PROJECT.json` names, for the
definitions of a module, the lines they stand for; a helper whose lines lie within
those of the operation that uses it, and a step of the environment, are not listed.

## 1. The system

### Tasks and what they share

| Task | Runs | Touches |
|---|---|---|
| net task (`net_server.c`, `cloud_client.c`, `esp_wifi_ctrl.c`, `wifi_bridge*.c`) | lwIP, LAN server on port 5000 and its TLS twin, the cloud client and its tunnels, Ethernet, the Wi-Fi coprocessor, the bridge's control channel | connection slots, the drain side of the reply rings, the links |
| hardware worker (`hw_worker.c`, `command_handler*.c`) | every command of every client, in the order of one queue | all hardware, all per-client command state, the write side of the rings |
| console (`console.c`) | USB-CDC lines | hands lines to the worker |
| USB task (`usb_device.c`) | TinyUSB, USB network, CMSIS-DAP | its own endpoints |
| interrupts | CAN receive and bus-off, the ESP32's UART | the rings they share with the worker |

Nothing but the worker touches hardware, and nothing but the net task touches
lwIP. What passes between them:

* net to worker: a FreeRTOS queue of items (bytes of a client, closes of a
  connection, resets of a tunnel, console lines, cloud commands). It is bounded;
  a close that does not fit is *parked* as one bit per slot.
* worker to net: one single-producer single-consumer byte ring per slot
  (`conn_tx.c`), a single slot for a reply to the cloud, one bit per slot that
  asks for the connection to be closed, one that says a teardown is under way.
* worker to net, synchronously: `net_call_sync` runs a function on the net task
  while its caller waits (`net_server.c`).
* worker to net, deferred: `net_reload.c` asks for a link to be restarted after
  the reply of the command has left; a changed policy is a request the net and
  the usb task apply in their next pass (`pod_policy.c`).
* shared by three transports: one update session, staged in the PSRAM (`ota.c`);
  shared by the instruments: the heavy gate, the PSRAM bus, the pins.
* across resets: the record of the boot guard in `.noinit` RAM, the A/B stores
  in the last sectors of the internal flash, the blobs in the W25Q flash; and
  everything a reset of the MCU does not reset: the gateware, the power switches,
  the ESP32, the bridge.

### Components, their state and what makes them correct

| Component | State | Operations | Correct when |
|---|---|---|---|
| worker queue and teardown (`hw_worker.c`) | queue, `s_inflight`, parked bits, the item in hand | submit bytes, submit close or reset, receive, parked pass, poll | a client never meets the state of the slot's previous client; no close is lost; every close is handled in the end |
| LAN server (`net_server.c`) | pcb and ring per slot, close requests | accept, receive (with the retry loop), close, drain, poll | a slot is given away only when its last client is torn down; replies go to the client they answer |
| reply rings (`conn_tx.c`) | `head`, `tail`, 16 bits each, free running | write, peek, advance, reset | a bounded FIFO whose writes are atomic |
| calls onto the net task, deferred reload | ids of the call posted, taken, done; `s_bits` and three sequence numbers | post, wait, withdraw, take, finish; request, commit, take | a function runs only while its caller waits; no reload is lost or overtakes its reply |
| cloud connection (`cloud_client.c`, `cloud_rx.c`, `altcp_bp_proxy.c`) | state, back-off, login variant; accumulator, tunnels, pending reply; the layers of the link | poll, callbacks, reload; frames, commands, tunnel data; open, fail, close | it comes back; it logs in to the server it is connected to; a request is answered once with its own answer; layers are freed once |
| TLS transport (`altcp_tls_mbedtls_bp.c`) | window, loan and debt, record under way, pool; output buffer | segment, read, pass, recved; write, sent | the window is neither lost nor opened twice; what is reported as sent is; kept data is read in the end |
| LAN certificate (`lan_tls.c`, `lan_tls_pem.c`) | configurations with references; the stored record | install, regenerate, listener sync, collect, accept | freed only when nobody can reach it; a certificate always has its key |
| lease, policies (`lease_gate.c`, `pod_policy.c`, `cmd_gate.c`) | lease and its end; policies stored, in force, applied | frame, expire; set, load, apply | a lease lasts its term and no longer; a policy survives resets and is loosened by no plaintext client |
| A/B store, calibration, blobs | flash slots with header, sequence number, CRC; pairs of records; header, commit word, pages | load, save, clear, commit | an atomic register across power loss, wrap and flash that does not program; what loads is whole |
| update staging (`ota.c`), firmware writer (`ota_commit.c`) | state, owner, marks; sectors and their CRCs | begin, data, end, abort, commit, watchdog; pre-pass, write, retry | transports do not disturb each other; only whole, signed images are installed; a refused commit has erased nothing |
| boot guard (`boot_guard.c`, `boot_policy.c`, `fault.c`) | a `.noinit` record of failed boots, subsystems started, done and left out | begin, start, done, healthy, planned reset | a boot loop ends in safe mode; what never comes up is left out |
| Ethernet (`ethernetif.c`, `net_dhcp.c`) | receive buffers, descriptors, PHY, DHCP machine, route | frames, free, link check, DHCP tick, eth commands | no buffer is lost; the link heals itself |
| Wi-Fi coprocessor (`esp_wifi_ctrl.c`, `esp_rom_job.c`) | request under way, misses, back-off; loader phase | poll, scan, restart; sync, erase, write, verify | it joins in the end; what is reported as verified was written; one user of the straps at a time |
| Wi-Fi bridge (`wifi_bridge*.c`, `wifi-bridge/`) | keys, nonces, counters; station and its events; slots and trial state | requests, pairing, notices; join, park, retry; relay, confirm, roll back | both ends agree again after any reboot; nothing runs twice; a failed update leaves a working bridge |
| heavy gate and captures (`command_handler.c`, `command_handler_capture.c`) | owner of the gate, jobs, trigger wait, read-back, remembered capture | capture, dual, logic analyser, stream, read, poll, close | the gate is held exactly while its job runs; a reply belongs to its own capture; busy ends |
| analog outputs, traces, ADC range | levels, routes, limits, loop; pool and PSRAM traces, co-trigger; relays and fits | output commands, limits; load, replay, capture; range, calibrate | a limited output stays in its window; a replay plays what was loaded, when it was asked to |
| pins (`la_pins.c`) and their engines | table of functions, latches, pulls, bank voltage | gpio, step, start and stop of each engine, reload, close | one function per pin, in the table as in the fabric |
| gateware (`signal_engine.c`, `ice40_flash.c`) | images in slots and config flash, mirrors of registers | boot, recover, swap, update, reload | the firmware's picture is the gateware that runs |
| target engines: power, profiles, CAN, SWD, SPI, UART, GPS, sensors | see section 2 | | what clients are told is so; lines keep their order; an engine that stops comes back |
| SCPI (`scpi_server.c`) | source, trace, error queue, reply | lines, pacing | a reply leaves whole and cannot hold the worker for ever |

The remaining parts (drivers, encodings, board description, the FPGA's own
gateware, the host tools) are listed in `PROJECT.json` with the reason why they
are not modelled; section 7 sums them up.

### What is hard

* Interleavings without locks: the worker has a lower priority than the net
  task, so the net task can run between any two of its accesses; `conn_tx`,
  `net_reload`, `net_call_sync`, `s_inflight`, the parked bits, the CAN ring and
  the certificate's description depend on the order of single loads and stores.
* Slots that are reused: the bytes, the close and the replies of a client may be
  in flight when the next client gets its slot.
* Bounded resources: the queue is full when a FIN arrives; the ring, the pool,
  the accumulator or the single reply slot is full when something must be kept.
* Power loss between any two flash operations, and inside one; resets of one of
  two chips that must agree again.
* Messages lost, late or repeated: on the bridge's cable, on the ESP32's UART
  and from a coprocessor that restarts.
* Counters that wrap: ring indices, sequence numbers, the lease's tick.
* Mirrors: the firmware keeps copies of registers, relays, pulls and levels that
  something else can change.

## 2. Modules

| Module | Models | Composition |
|---|---|---|
| `PodSessions` | worker queue, teardown, LAN server, tunnels, replies | net task and worker composed in one specification |
| `PodSessionsProofs` | theorems about `PodSessions` | extends it and TLAPS |
| `ConnTx` | one reply ring, per access | implements `ByteFifo` |
| `ByteFifo` | a bounded FIFO of whole writes | abstract |
| `NetCall`, `NetReload` | the two hand-overs to the net task, per access | |
| `CloudLink` | the cloud client's states, login, back-off, reload | |
| `CloudTraffic` | commands, replies, tunnels and back-pressure on a connected link | net task and worker composed |
| `CloudStack` | the layers of the link: allocation, callbacks, frees | |
| `TlsRx`, `TlsTx` | receive and send side of the TLS layer | |
| `LanTls`, `LanCert` | references to the certificate's configurations; its loading, making and installing | |
| `LeaseGate`, `Access` | the lease; the policies and who may change them | |
| `EthNet` | Ethernet: buffers, MAC, PHY, DHCP, route | |
| `WifiCtrl` | the coprocessor's control requests and the users of its straps | net task, worker and coprocessor composed |
| `BridgeLink`, `BridgeWifi` | the bridge's control channel; its station | pod and bridge composed; three tasks of the bridge |
| `AbStore` | an A/B record store, per flash operation | implements `PowerSafeRegister` |
| `PowerSafeRegister` | a register that survives power loss | abstract |
| `AdcCal` | the pair of calibration records | extends `AbStore` |
| `BlobStore` | one blob slot, per flash operation | |
| `Ota` | update staging | |
| `OtaCommit` | the firmware writer, per sector operation | |
| `EspRom` | the flash of the ESP32, per frame | worker and ROM loader composed |
| `BridgeOta` | the bridge's update | relay and bridge composed |
| `BootGuard` | boot guard, deferred bring-up, fault record | |
| `Captures` | heavy gate, captures, trigger, read-back, uploads, PSRAM bus and region marks | worker, gateware and clients composed |
| `LaPins` | pins, pulls, bank voltage and the engines that claim them | |
| `AnalogOut`, `AdcRange` | outputs, routes, limits, control loop; range, relays, calibration commands | |
| `DacTrace` | traces, replay, co-trigger | worker and gateware composed |
| `Fabric` | the gateware's images and the mirrors of its registers | worker and iCE40 composed |
| `Scpi` | SCPI lines and the pacing of their replies | |
| `TargetPower`, `PowerProfile` | eFuses over an expander; current profiles | |
| `CanBus` | CAN core, interrupt, responder, worker | |
| `Dap` | one packet run transfer by transfer and as a batch | the second against the first |
| `SpiMaster` | SPI sessions and a NOR flash behind them | worker, fabric and part composed |
| `UartLines`, `SensorSim` | UART and GPS bytes; simulated I2C sensors | |
| `MCNet` | its theorems | extends `NetCall`; instances of `NetReload`, `EthNet`, `WifiCtrl`, `BridgeLink`, `BridgeWifi` |
| `MCLinks` | its theorems | extends `ConnTx`; instances of `CloudLink`, `CloudTraffic`, `CloudStack`, `TlsRx`, `TlsTx`, `LanTls`, `LeaseGate`, `Access` |
| `MCBench` | its theorems | instances of `Captures`, `LaPins`, `AnalogOut`, `AdcRange`, `DacTrace`, `Fabric`, `Scpi` |
| `MCTarget` | its theorems | instances of `TargetPower`, `PowerProfile`, `CanBus`, `Dap`, `SpiMaster`, `UartLines`, `SensorSim` |
| `MCStorage` | its theorems | instances of `AbStore` (twice), `AdcCal`, `BlobStore`, `LanCert`, `OtaCommit`, `EspRom`, `BridgeOta`, `BootGuard` |

An MC module puts into one run components that share no state, or of whose
shared state a component keeps its own, freely changing part (the heavy gate in
`DacTrace`, the lease in `Access`, the bus in `SpiMaster`). A rigid variable
`which` selects the component a behaviour exercises; the others keep an initial
state. The state space is the sum of those of the components, not the product,
and a property is the conjunction of what each component promises when it is the
one at work. What a conjunct says is stated, with the code it is about, where
the component's module defines it.

### PodSessions

A *session* is a number given to each client in turn (`nextG`); the code has no
such number, it is what the properties tell clients apart by. `pcb[id]` is the
session connected at slot `id` (0: none), `queue` is the worker queue,
`inflight` is `s_inflight`, `parked` is `s_parked`, `ring[id]` is the reply ring
as a sequence of sessions, `closeReq` the worker's close requests, `held[id]`
the session whose state the command handler keeps for the slot.

Net task: `Accept` (`srv_accept`), `Recv`, `SpinSubmit` and `SpinAbort` (the
retry loop of `srv_recv`, which sleeps and lets the worker run), `Closed`,
`TunnelOpen`, `TunnelReopen`, `TunnelData`, `TunnelClose`, and the poll: `Drain`,
`CloseRequest`, `PollEnd`. The worker runs only while the net task sleeps
(`WorkerRuns`): one core, and the net task has the higher priority. Worker:
`WReceive`, then one of `WConsole`, `WBytes` and the two steps of a teardown
(`WConnClosed`, `WTeardownDone`), `WBatchEnd`, then the parked pass `WApply`,
`WScanTake`, `WScanSkip`, `WScanEnd`. `WPollSend` is output of a job that started
earlier (a capture, a stream) and `WPollGiveUp` the close the worker asks for when
a ring stays full.

### ConnTx, NetCall, NetReload

Each step is one access of shared memory. `ConnTx` keeps the indices as numbers
modulo `IndexMod` (2^16 in the code) and the buffer as it is in memory, so that
the order of copy and publication matters. `NetCall` keeps the ids of the call
posted, taken and done; `waiting` and `taken` say whose stack frame the net
task is using. `NetReload` splits `net_reload_request` into its load, store and
increment, since `s_bits |= ...` is no atomic operation; `owed` and `loaded`
are what the properties compare with.

### CloudLink, CloudTraffic, CloudStack

`CloudLink` has one action per state of `cloud_client_poll` and one per lwIP
callback, which only sets flags. A server is its host; `Target` is the host or
the proxy the settings name, and `LinkIsOurs` compares the link and the login
with them across reloads in mid-connection. Faults (lookups that fail, refused
links, drops, a server that knows only the older login) are bounded by
`MaxFaults`, so that every behaviour ends in fair weather. `CloudTraffic` starts
where the link stands: frames wait in TLS, in the accumulator, in the worker's
queue and in the reply slot, each of which may be full; `answers` is what the
server got. `CloudStack` keeps which layers exist, what each points at and whose
callbacks are set (`k`), with failing allocations bounded by `MaxOom`.

### TlsRx, TlsTx, LanTls, LanCert

Bytes are counted, not named. `TlsRx` follows the window through the loan
(`bp_loaned`), the settling and the debt, with a pool of buffers that other
users empty; `TlsTx` follows a record through mbedTLS's output buffer and the
split of acknowledgements into overhead and payload. `LanTls` has the
configurations with their references, in the order of `net_poll`, and the
worker that reads the certificate's description under a sequence count.
`LanCert` is the life of the certificate itself: a record in the A/B store, an
upload in the PSRAM, which a PSRAM master may change after it was verified, and
jobs that run out of heap.

### LeaseGate, Access

`LeaseGate` keeps the tick modulo `W` and the lease's end as the code does;
`term` counts the ticks the lease still has, for the property. `Access` keeps
each policy three times: stored, in force, applied by the net or usb task. The
commands that change it run on the worker and may be preempted by the net task
between the save and the request.

### EthNet, WifiCtrl, BridgeLink, BridgeWifi

`EthNet` counts receive buffers where they are (armed, unread, held by lwIP,
free) and the DMA's position only as in or out of step (`desync`); the PHY may
wedge, the cable come and go. `WifiCtrl` keeps control, transport and
coprocessor in one record `wc`; a request may be answered, answered late,
refused or met by silence, and the coprocessor may crash, hang or lose its
association, `MaxTrouble` times. The worker's flash and wipe take its straps.
`BridgeLink` is both ends of the control channel with the frames between them
in order; a signature is the key, nonce and counter it was made with.
`BridgeWifi` has the bridge's three tasks with the event queue between them and
the driver, which reports what it did some time after it did it.

### AbStore, AdcCal, BlobStore

Flash is what a read would return: a slot's header is `Blank`, `Torn` or a
record, its body a value, `Blank` or `Torn`. `Valid` is the CRC. Each erase and
each program is a step, and `PowerLoss` may end the call at any of them with
the flash in any state the cut operation can leave. `Faulty` adds words that do
not program. `HasLegacy` adds the record of firmware before the A/B scheme.
`AdcCal` is two saves into one such store, and the choice of the record at boot.
In `BlobStore` a cut erase or program leaves its unit torn, and a torn header or
commit word fails its check, which is what `blob_store.c` relies on.

### Ota, OtaCommit

`psram` maps chunks to the image they come from, `s_expect` is the image whose
hash `begin` announced, so that a hash matches exactly when every chunk is of
that image. A manifest is good, missing or malformed. `Scribble` is a capture or
another user of the PSRAM writing to the staging area. Times are counted in
passes of the watchdog (`Takeover`, `StageIdle`, `VerifiedHold`). `DataFails` is
the write or read-back error. `OtaCommit` goes on from a verified image: the CRCs
through the HAL, the pre-pass over the raw read path, the point of no return,
then read, erase, program, check and retry of each sector; raw reads and flash
operations fail, power is cut, and a PSRAM master may write until the bus is
taken.

### EspRom, BridgeOta

In `EspRom` commands and answers keep their order on the UART; one may be lost
or damaged, and an answer may come after its command was given up, which is why
an answer says only its operation. `BridgeOta` composes the relay on the pod
with the bridge's two slots, its trial boot, its confirmation by a pod that
speaks to it and its rollback; the image may not work (`good`), requests and
answers are lost and the bridge restarts, `MaxTrouble` times.

### BootGuard

`failed`, `started`, `done`, `off` are the fields of the record. `broken` are
the subsystems whose bring-up always ends in a reset; chance crashes, planned
resets, refused commits and power-ons are bounded by `MaxEvents`. `row` counts
failed boots in a row, for the properties.

### Captures

An action is one handler, or one part of `command_handler_poll` that found
something to do. `caps` are the active ones of `v2cap`, `lacap` and `dualcap`,
`chgscan` and `bulk` the scan and the read-back; each names its connection.
`heavy_owner`, `trigwait`, `trig_reply`, `last_cap`, `loaded_hold` keep their
names. The gateware is `fabric` (idle, parked on a trigger, running, done) and
`fabric_trig`; `Fire` and `Complete` are its steps and need no fairness. The PSRAM is
three cells: the LA region, the ADC region and the top, where a capture of
changes puts the ADC and an upload its waveform. `data` are the cells that still
hold the last capture, which no variable of the code says; `track` and `stale`
are what the code thinks of it (`psram_regions.c`). A read-back waits for room:
`full` is what its stall timer sees, `tight` is enough for some frames only.
An action that meets one of four deviations (section 6) notes it in `met`, and
the properties it breaks are claimed until then. Depths and rates are left out
(an admission failure is `ArmFails`), and so is the speed test.

### LaPins, AnalogOut, AdcRange, DacTrace, Fabric, Scpi

`LaPins` has the table (`s_pin`), what the fabric's engines run on (`fab`), the
GPIO latches, the pulls with an expander whose writes may fail, and every
command and event that claims or releases a pin. In `AnalogOut` a DAC code is
what it gives on the limited output: 0 V, inside the window, outside it, or the
code a power-up leaves; the board has one channel behind a multiplexer or four.
`AdcRange` has the relays, the low range, the records being stored step by step
and the announcement the net task may send between two steps. In `DacTrace` a
trace is the order in which it was put there, in the pool or at the top of the
PSRAM; `play` is what the fabric plays or has staged. `Fabric` has the boot's
stages, the config flash, the slots, swap, update, reload and a reset of the MCU
between any two steps, which leaves the iCE40 as it is. In `Scpi` a line is
executed whole and its reply written in parts into a ring whose client may stop
reading.

### TargetPower, PowerProfile, CanBus, Dap, SpiMaster, UartLines, SensorSim

`TargetPower` keeps the expander's registers, which outlive the MCU, beside what
the firmware believes and what clients were told. In `PowerProfile` a sample is
its weight, so that a bin that mixes weights shows. `CanBus` has the interrupt,
which may cut the worker short at any step, with the FIFOs, ring and
responder's rule. `Dap` runs one packet in both ways against the same target and
compares acknowledgement, count, words and wire. `SpiMaster` has the part's own
state (write enable, busy, protection, memory) and a fabric that may reset
between two commands. `UartLines` numbers bytes in both directions.
`SensorSim` has the register image the DUT reads and writes by itself beside the
worker that reloads it.

## 3. Runs

| Run | Shows |
|---|---|
| `PodSessions_safety` | with a LAN slot and a tunnel slot on one queue: `NoInheritedState`, `StaleStateHasTeardown`, and the inductive invariant `SessionsSeparated` of the proofs |
| `PodSessions_liveness` | three clients in turn on one slot: `ReplyIsolation`, and `TeardownCompletes` under `FairSpec` |
| `MCNet` | `CallSound`: a function runs on the net task only while its caller waits, and the answer is true for good. `NetSound`: no reload is lost (`NeverLost`), no receive buffer is lost and no MAC reads behind its DMA (`RxSound`), credentials stay out of the coprocessor's flash (`CredsInRam`), a signed request runs once and if reported done it ran (`NoReplay`, `DoneIsDone`), the bridge is on the air as its pod only, or its station task is about to be told (`OnAirAsPod`). `ReloadReplyFirst`. `NetComesUp`: calls return, reloads happen, Ethernet gets its address again, the coprocessor joins, pod and bridge agree again, the station settles on the newest credentials |
| `MCLinks` | `RefinesFifo`: the ring implements `ByteFifo`. `StreamsIntact`: requests answered once (`Accounted`), no tunnel chunk skipped (`NoGap`), window exact (`WindowTrue`), FIN last, sent is sent (`SentIsTrue`, `NothingLost`). `StacksSound`: layers freed once, configurations outlive their users. `OnlyAuthorised`: `LeaseTrue`, `PolicyDurable`, `LinkIsOurs`. `NeverLoosened`: and `altcp_sndbuf` is honest. `LinksComeBack` |
| `MCBench` | `GateSafe` (`GateOwnsJob`, `NoLeak`, `BusPaired`, `NoOrphan`, `ParkedIsWatched`), `DataIntact` (own data and trigger, captures that were written, traces, SCPI replies), `PinsSafe` (pins, pulls, limits, quad supply, loop, announced fit), `FabricKnown` (mirrors, image, wear, bus, boot), `StartsInOrder` (bank voltage, deferred starts), `BusyEnds` |
| `MCTarget` | `ToldIsTrue` (rails, profiles, sensor codes), `LinesInOrder` (CAN, UART, GPS), `WireAgrees` (SWD batch against single transfers, SPI flash), `KeptThrough` (profiles, DUT registers), `EnginesEnd` |
| `MCStorage` | `ConfigAtomic`: the store implements `PowerSafeRegister`. `StoresWhole` (calibration, blobs, certificate), `UpdatesTrue` (firmware writer, ESP32, bridge, boot loop), `UpdatesEnd` |
| `Ota` | `UpdateSound`, `SessionProtected`, `NotBusyForever` |
| `PodSessions_order`, `AdcCal_power`, `CanBus_answers` | counterexamples, see section 6 |

### Bounds

* `QueueDepth = 2` (16 in the code): a full queue needs one item, a close that
  overtakes needs two; the proofs cover every depth. `RingCap = 1` reply makes
  overflow common. `MaxSession = 3`: a session, its successor, and the one that
  meets what the double teardown leaves behind. `MaxSegs = 2`: a pbuf of which
  one segment is queued and the other is not.
* `Size = 4`, `IndexMod = 8` in `ConnTx`: the indices wrap at twice the size of the
  buffer, as 2^16 does at a multiple of it; writes straddle the end.
* `MaxCalls = 5`: a call that runs out of time, is withdrawn and is followed by
  calls with other ids. `MaxRequests = 3` reloads of two links.
* `Hosts = {h1, h2}`, one that knows only the older login, a proxy, two faults
  and a reload: a reload during each state, a refusal followed by another server.
* `QDepth = RxCap = 1`, two requests, two chunks: each queue of the cloud's path
  is full with one item in it.
* `Wnd = 3`, `BufSize = 2`, `Pool = 2`: a record larger than a buffer and as large
  as the window, and a pool another user can empty. `SndBuf = 6`, writes of 1
  and 3 with an expansion of 2: a record that does not fit at once.
* `W = 16` ticks with `LeaseMax = 5`: a lease across the wrap, a check that comes
  `MaxLag` late.
* `HalfSeq = 2`, that is sequence numbers modulo 4: the signed comparison is
  tested at every distance two adjacent records can have, and wraps within a
  run.
* `RxCnt = 3` buffers on `RxDesc = 2` descriptors: all of them can be held.
  `Rekick` and `Escalate` at 2 failures: one restart of DHCP, one of the PHY.
* Coprocessor, bridge and station: `MaxTrouble = 1`, `MaxFaults = 2`: a failure at
  any point, and one more while the first is repaired; `CMax = 4` counters.
* `Size = 2` chunks, one image and junk, two LAN connections, the cloud and USB:
  the adoption of an orphan needs two connections, interference another
  transport.
* `Sectors = 3`, two tries: a sector before, one at and one after the failing
  one, and a retry that fails too. `Blocks = Chunks = 2`: a duplicate of the
  block before the last.
* `SafeAfter = 2` and `MaxEvents = 6`: two rows of failures with a healthy boot,
  a planned reset and a refused commit between them.
* `MaxOps = 4` commands of two connections, one trigger condition,
  `MaxChunks = 2`: a capture, what disturbs it, what resumes it and one that
  meets what is left; a read-back with a chunk before its last.
* Pins: three channels (with a pull up, with a pull down, with none), three
  commands and two events (close, reload, failed expander write). Outputs,
  gateware and range: one fault at any operation. Three traces.
* Target engines: rings and FIFOs of 2 with 3 to 5 items, one fault, one swap;
  `QBytes = 7`, `RecMax = 3`: batches that end by bytes, by reads and by ops;
  a flash of 16 bytes with pages of 2, sectors of 4 and blocks of 8, starts and
  lengths off their borders.

`CHECK_DEADLOCK FALSE` stands where a bound (sessions, calls, requests, events)
ends the behaviours.

### Fairness

* `FairSpec` of `PodSessions`: weak fairness of the net task's own steps once a
  poll has begun, strong fairness of the worker, which runs whenever the net task
  sleeps; the net task does so in every round (`vTaskDelay` in its loop, and in
  the retry loop of `srv_recv`). Clients need do nothing.
* `NetCall`: the worker polls for the answer; the net task finishes what it has
  taken. That the net task takes a call is *not* assumed: in safe mode it does
  not run.
* `NetReload`: the net task polls, time passes, the worker finishes the request
  it is in. That a request is committed is not assumed (`MaxWait` covers it).
* Links: `net_poll` runs every part of its round again and again. Of the other
  side only this is assumed, and only after the last of the bounded faults: a
  server answers, a resolver answers, a DHCP server that is asked infinitely
  often grants (strong, since requests are separated by restarts), a
  coprocessor or bridge that is up serves what it received. Strong fairness of
  the resend and of the kick after a refusal: the net task tries in every round,
  and room comes and goes with the client's reading. A client that keeps
  refusing is not assumed away by more than weak fairness of its making room.
* `Captures`: every pass of the worker runs every part of the poll, and every
  timer runs out (capture deadline, trigger, stalled read-back, stalled upload,
  hold); an upload is finite, so it completes or stalls. Neither the gateware
  nor a client need do anything. `Scpi`: the worker's wait loop goes round.
* Target engines: the worker polls; the CAN core raises its interrupts and a
  bus that is idle lets it rejoin; the UART's line sends.
* `Ota`: the watchdog pass runs again and again (`command_handler_poll`). No
  transport need do anything.
* Writers: the worker's step, the ROM's and the bridge's answer to what arrived;
  a bridge whose image does not work restarts by its own timer.
* `BootGuard`: the boot goes on by itself, a bring-up that is broken does end in a
  reset (the watchdog sees to it).

### Variants

Beside a definition a module may have a variant of it: what a plausible slip in
that code would amount to (a guard left out, an index off by one, a reset
forgotten, two steps swapped). Put in the place of the definition, each of them
makes TLC find a violation; that is how we know that a conjunct of a composed
property is not idle. `PROJECT.json` names one for each property of each passing
run; the table has all the others with the property that catches them.

- `AbStore`: `SuccSeq` as `SuccSeqNoWrap` (TypesOK); `Valid` as `ValidNoCrc` (ConfigAtomic); `Target` as `TargetNewest` (ConfigAtomic)
- `Access`: `Load` as `LoadRaw` (TypesOK); `Save` as `SaveAnyway` (OnlyAuthorised); `Closes` as `ClosesNothing` (LinksComeBack)
- `AdcCal`: `Pick` as `PickNewestOnly` (StoresWhole); `Pick` as `PickV2Only` (StoresWhole)
- `AdcRange`: `Shadow` as `ShadowSilent` (PinsSafe); `Announce` as `AnnounceNever` (PinsSafe)
- `AnalogOut`: `ParkCode` as `ParkAtZero` (PinsSafe); `QuadBoot` as `QuadBootAnyway` (PinsSafe); `RouteOK` as `AnyRoute` (PinsSafe); `LoopRegs` as `KeepsOldMap` (PinsSafe)
- `BlobStore`: `Loaded` as `AnyHeader` (TypesOK); `Erase` as `EraseHeaderLast` (StoresWhole); `Hash` as `HashSkipped` (StoresWhole); `ProgramHeader` as `ProgramHeaderEarly` (StoresWhole)
- `BootGuard`: `PlannedReset` as `PlannedResetForgives` (UpdatesTrue)
- `BridgeLink`: `Learn` as `LearnOnce` (NetComesUp); `Replay` as `RepeatedCounter` (NetSound)
- `BridgeOta`: `Confirmed` as `ConfirmedSoon` (UpdatesTrue); `Confirm` as `ConfirmLater` (UpdatesTrue); `HashMatches` as `AnyHash` (UpdatesTrue)
- `BridgeWifi`: `RightMac` as `AnyMac` (NetSound); `RightNetwork` as `AnyNetwork` (NetComesUp); `RetriesLeave` as `NeverRetries` (NetComesUp)
- `CanBus`: `Mask` as `MaskNothing` (LinesInOrder); `Recover` as `RecoverNothing` (EnginesEnd)
- `Captures`: `TriggerDone` as `TriggerDoneLeavesOn` (GateSafe); `Take` as `TakeKeeps` (DataIntact); `HoldFreed` as `HoldForgotten` (GateSafe); `ClosedHolds` as `ClosedHoldsNoScan` (GateSafe); `AbortOf` as `AbortForgets` (GateSafe)
- `CloudLink`: `DropLink` as `DropLinkKeepsLink` (OnlyAuthorised); `Verified` as `VerifiedAnyway` (OnlyAuthorised); `AuthAfterRefusal` as `AuthAfterRefusalSticks` (LinksComeBack)
- `CloudStack`: `Unref` as `UnrefNothing` (StacksSound); `ReloadLink` as `ReloadConfOnly` (StacksSound); `FailSetup` as `FailSelf` (StacksSound); `ProxyAbort` as `ProxyAbortTwice` (StacksSound)
- `CloudTraffic`: `TunnelFail` as `TunnelGoesOn` (StreamsIntact); `OneAtATime` as `TakesAnother` (StreamsIntact)
- `DacTrace`: `Consume` as `ConsumeForgets` (DataIntact); `ReachesTop` as `ReachesAlways` (DataIntact); `Active` as `ActiveNever` (DataIntact)
- `Dap`: `Store` as `StoreStays` (WireAgrees)
- `EspRom`: `SumsAgree` as `SumsAgreeAlways` (UpdatesTrue); `NextAttempt` as `UncountedAttempt` (UpdatesEnd)
- `EthNet`: `FreeBuffer` as `FreeUnnoticed` (NetComesUp); `Escalates` as `NeverEscalates` (NetComesUp)
- `Fabric`: `DivFor` as `DivForBuild` (FabricKnown); `Resync` as `MirrorsKept` (FabricKnown); `SlotGood` as `SlotGoodAnyway` (TypesOK); `ImageFor` as `ImageForAny` (FabricKnown); `Damaged` as `DamagedAnyway` (FabricKnown); `SetBases` as `SetBasesEarly` (FabricKnown); `Stamp` as `StampNothing` (DataIntact)
- `LaPins`: `CheckClaim` as `ClaimIgnoresPulls` (PinsSafe); `MayChangeVoltage` as `MayChangeUnderSession` (StartsInOrder); `UartEnd` as `UartEndKeepsPull` (StartsInOrder); `ReleasedByReload` as `ReleasedByReloadButSwd` (PinsSafe)
- `LanCert`: `Regenerates` as `RegeneratesNever` (StoresWhole)
- `LanTls`: `Sync` as `SyncKeepsRef` (StacksSound); `Read` as `ReadTorn` (StacksSound)
- `LeaseGate`: `CappedTerm` as `UncappedTerm` (OnlyAuthorised)
- `NetCall`: `Finish` as `FinishLatest` (NetComesUp)
- `NetReload`: `StoreBits` as `StoreOnly` (NetSound); `Due` as `DueWhenIdle` (NetComesUp)
- `Ota`: `RefusalCleared` as `RefusalKept` (UpdateSound)
- `OtaCommit`: `Grab` as `GrabLater` (UpdatesTrue); `Refused` as `RefusedStaysPlanned` (UpdatesTrue); `SectorHolds` as `FlashHolds` (UpdatesTrue)
- `PowerProfile`: `Add` as `AddThenPush` (ToldIsTrue); `MayStart` as `MayStartAnyway` (ToldIsTrue)
- `Scpi`: `Take` as `TakeNothing` (DataIntact); `Abort` as `AbortGoesOn` (DataIntact); `WaitMs` as `WaitOn` (BusyEnds)
- `SensorSim`: `Better` as `BetterLast` (ToldIsTrue); `Loaded` as `LoadedWhole` (KeptThrough); `Moved` as `MovedByOne` (EnginesEnd)
- `SpiMaster`: `ClosesFrame` as `KeepsFrame` (WireAgrees); `EraseStep` as `EraseStepUnaligned` (WireAgrees); `ProgramStep` as `ProgramStepLong` (WireAgrees); `EnableStuck` as `EnableUnchecked` (WireAgrees)
- `TargetPower`: `Enable` as `EnableAssumed` (ToldIsTrue); `Sampled` as `SampledOnce` (EnginesEnd)
- `TlsRx`: `Settle` as `SettleForgets` (StreamsIntact); `PeerFin` as `FinAtOnce` (StreamsIntact); `Lend` as `LendNothing` (LinksComeBack)
- `TlsTx`: `SndbufFor` as `SndbufBelow` (NeverLoosened); `MayWrite` as `MayWriteAnyway` (StreamsIntact); `OverheadDue` as `OverheadSeen` (StreamsIntact)
- `UartLines`: `MayPump` as `MayPumpAnyway` (LinesInOrder); `ReadRoom` as `ReadAll` (LinesInOrder); `GpsRearm` as `GpsRearmGoesOn` (LinesInOrder)
- `WifiCtrl`: `StorageConfirmed` as `StorageAnswered` (NetSound); `BackoffOver` as `BackoffResumes` (NetComesUp); `RssiMissed` as `RssiShrug` (NetComesUp)

## 4. Proofs

`PodSessionsProofs` proves, for any sets of connection and tunnel slots, any
queue depth, ring size and number of sessions allowed by the assumptions of
`PodSessions`:

* `TypeCorrect`: `Spec => []TypeOK`; among other things the queue never exceeds
  its depth, and the retry loop always works on a slot with a connection.
* `SeparationInvariant`: `Spec => []SessionsSeparated`.
* `NoInheritance`: `Spec => []NoInheritedState`.
* `NoTeardownLost`: `Spec => []StaleStateHasTeardown`.

`NoInheritedState` speaks only of the item in the worker's hand and the state it
meets; it is not inductive, since nothing in it says what is still queued.
`SessionsSeparated` follows a slot's traffic along the path it takes - the state
held by the handler, the item in hand, the queue from front to back, the parked
bit, the connection - and says that wherever two places on that path belong to
different sessions, a teardown of the slot lies between them. Submitting bytes
preserves it because a slot with a parked close accepts none; submitting a close
because it goes behind everything of its session, in the queue or in the parked
bit; the parked pass because the queue was empty when it started, except for
slots in `overtook`, which the statement leaves out (section 6). The proof has
one step per action, and lemmas for what appending to and removing from the
queue do to "a teardown lies between".

* `RepliesIsolated`: `Spec => []ReplyIsolation`. `ReplyInv` says of each slot outside
  `overtook` and `twice` that at most one teardown of it is on its way
  (`OneTeardown`), that the bit in `s_inflight` is set for as long as one is
  (`Covered`), and that a session that is connected has no teardown coming and only
  its own replies in its ring (`OwnReplies`).

`Ota` and `AbStore` hold the theorems about themselves; those about the
other components, and what a run states of several together, are in the MC module
that composes them, and stated of its specification. All of them hold under the
module's `ConstantsOK` (`Assumptions` of the MC module, which TLC evaluates),
that is for every number of actors, size, bound and fault the module can be
given.

| Module | Theorem | States |
|---|---|---|
| `Ota` | `OtaTypes`, `UpdatesSound`, `SessionsProtected` | `[]TypeOK`, `[]UpdateSound`, the action property `SessionProtected` |
| `AbStore` | `OldKept`, `StoreIsAtomic` | the old record stands until the new one's commit word; each flash operation, cut or not, is a step of `PowerSafeRegister` or a stutter |
| `MCStorage` | `ConfigIsAtomic` | `MCSpec => ConfigAtomic`, both configurations of the store |
| `MCStorage` | `StoresAreWhole`, `UpdatesAreTrue`, `StorageTypes` | `[]StoresWhole`, `[]UpdatesTrue`, `[]TypesOK`, from the invariant of each part |
| `MCNet` | `CallTypes`, `CallsSound`, `ReloadsNeverLost`, `RepliesBeforeReloads`, `PairingSound`, `StationAsPod`, `ReceiverSound`, `CredentialsSafe`, `NetIsSound` | `[]CallSound`, the conjuncts of `NetSound`, `ReloadReplyFirst`, and `MCSpec => []NetSound` whole |
| `MCBench` | `GateIsSafe`, `PinsAreSafe`, `DataIsIntact`, `FabricIsKnown`, `BenchTypes` | `[]GateSafe`, `[]PinsSafe`, `[]DataIntact`, `[]FabricKnown`, `[]TypesOK` |
| `MCBench` | `StartsAreInOrder` | the action property `StartsInOrder` |
| `MCTarget` | `ReportsAreTrue`, `LinesAreInOrder`, `WireIsRight`, `EngineTypes` | `[]ToldIsTrue`, `[]LinesInOrder`, `[]WireAgrees`, `[]TypesOK` |
| `MCTarget` | `ResultsAreKept` | the action property `KeptThrough` |
| `MCLinks` | `RingIsFifo` | `MCSpec => RefinesFifo`: each access of the ring is a step of `ByteFifo` or a stutter |
| `MCLinks` | `LeaseIsTrue`, `PoliciesDurable`, `LoginsAreOurs`, `AccessIsAuthorised` | the conjuncts of `OnlyAuthorised`, and `[]OnlyAuthorised` |
| `MCLinks` | `NothingLoosens` | the action property `NeverLoosened` |
| `MCLinks` | `ReceivesAreTrue`, `SendsAreTrue`, `TrafficIntact`, `StreamsAreIntact` | the conjuncts of `StreamsIntact`, and `[]StreamsIntact` |
| `MCLinks` | `LayersFreedOnce`, `CertificatesLast`, `StacksAreSound` | the conjuncts of `StacksSound`, and `[]StacksSound`, for `"recv" \notin CloseFails` |

The inductive invariants, and what each adds to the property:

* `CallInv` (`MCNet`): a pending call is the one its caller waits for and has not
  run (`PendingIsFresh`), a call that is done has run and is not the one running
  (`DoneHasRun`), ids are given once (`IdsGiven`). `CallSound` alone says nothing
  of a call before the net task takes it.
* `RingInv` (`MCLinks`): at most `Mask` bytes are used; what the writer has copied
  lies beyond `head`, in order (`WriterInv`); what the reader has seen begins at
  `tail` and is no longer than what is used (`ReaderInv`). The refinement maps the
  buffer between the two indices to the FIFO; that `IndexMod` is a multiple of
  `Size` is what makes positions agree after a wrap.
* `OtaInv` (`Ota`): a live session has an owner, and only a frame of the cloud leaves
  a refusal for its sender (`OwnersKnown`); what the manifest and the checks at the
  end have established stays so until the commit, since a call that changes any of it
  ends the session (`Vetted`).
* `StoreInv` (`AbStore`): two valid slots have adjacent sequence numbers
  (`Adjacent`), so the signed comparison picks the newer one at any width; during
  a call the other slot stands as it was (`CallInv`). `StoreIsAtomic` has the
  hypothesis `~(HasLegacy /\ Faulty)`: with a legacy record and flash that does not
  program, a clear whose tombstone fails erases the slots before the legacy
  sector, and a power loss between brings the older value back (section 6); TLC
  refutes the refinement there. The run has one configuration of each kind.
* `ReloadInv` (`MCNet`): the three sequence numbers of `NetReload` are ordered, and a link
  that is owed a reload is latched in `s_bits` or in the hand of the request that
  is storing it (`OwedLatched`), between any two accesses.
* `PairInv` (`MCNet`): what the bridge has carried out under its present key and
  nonce is covered by the counter it last accepted (`CounterCovers`), and a signed
  answer on the cable that says OK was carried out (`AnswersTrue`). Both are needed
  since frames repeat and outlive a reboot of either end.
* `StationInv` (`MCNet`): a join, or credentials loaded for one, implies a started
  station, a pod and its MAC, or the change of MAC still in the station task's queue
  (`MacRight`).
* `EthInv` (`MCNet`): the number of buffers is conserved over the places a buffer
  can be, the descriptors bound what the ring holds, and the driver is never
  behind its DMA.
* `CtrlInv` (`MCNet`): `WireInv` speaks of every state: an answer that confirms RAM
  storage comes from a coprocessor that has it, credentials are on the wire only to
  such a coprocessor, and nothing is left of an earlier start. `PhaseInv` says per state of
  the control what has been asked since the start; in the states after storage the
  coprocessor keeps its settings in RAM. `CredsInRam` alone does not exclude that
  credentials wait behind an `init` that makes the coprocessor forget where they go.

* `LeaseInv` (`MCLinks`): while no lease is held `term` is 0; while one is, the deadline is
  `term` ticks ahead of `now` modulo `W`, or `now` is at most the poll's lag past it. The lease's
  length and the lag are each below half of `W`, so the sign of the difference is right at any width.
* `PolicyInv` (`MCLinks`): a record that is stored or about to be is the one in force but for what the
  command may change (`Tightens`), and a stored one loads as itself.
* `CloudInv` (`MCLinks`): an address that is waited for has been given, and in the state that waits for the
  challenge the peer is the configured host.
* `RxInv` (`MCLinks`): besides the window's equation (`WindowTrue`), where `handle_rx_appldata` is and what it has in
  hand (`RxPlace`), that a loan is no longer than what was read (`RxCounts`), and that nothing is lent or owed
  before the handshake is done (`RxPhase`).
* `TxInv` (`MCLinks`): `overhead_bytes_adjust` is what TCP holds beyond what the application still waits for, and no
  more overhead has been acknowledged than there was.
* `AccountInv` (`MCLinks`): each request is in exactly one of the places it can be - unsent, in the net task's queue,
  kept by TLS, with the worker, waiting to be sent, answered (`Counted`) - and of commands the worker has one at a
  time, queued, in hand or announced (`OneCommand`). `OrderInv`: from the chunk the worker expects, over its queue
  and the frames not handled yet, to the server's next chunk, none is missing (`Chain`).
* `CertInv` (`MCLinks`): the slots of `lan_tls.c` know different configurations, each counts its holders and the
  listener (`RefsCounted`), and they and those given up are the ones allocated (`LiveKnown`). `ReaderTrue`: a reader
  whose counter still stands has copied the description that stands.
* `StackShape` (`MCLinks`): between two events the layers of the link all stand, with their callbacks set, or are all
  gone. The lemmas before it say of each close, abort and error callback what it leaves of a stack that is built, or
  of the base alone. A close that fails in the receive path leaks (section 6), so the theorem assumes it does not.
* `CalInv` (`MCStorage`): `StoreInv` does not serve `AdcCal`, whose commit is two saves of different versions. Per
  flash operation it says what the slot being written holds (`CalCall`), and between calls that the newest
  record has the zero of the one a boot takes (`AtRest`): a commit that fails before its header then falls back to a
  record with the zero in use. `PickFacts` says which record `pick_record` takes of two slots.
* `BlobInv` (`MCStorage`): from its first erase to its commit word a write leaves the slot without one, and it gets
  one only over data that was hashed.
* `CommitInv` (`MCStorage`): behind the sector at hand every sector is new, or there was more trouble than a
  sector's retries (`Outlasted`); nothing is erased before the pre-pass is through.
* `RomInv` (`MCStorage`): commands keep their order, so when an answer to the MD5 is there, what is still on its way
  to the loader writes nothing (`LateAnswers`, `AllLate`), however late the answers to earlier ones are.
* `BridgeInv` (`MCStorage`): the slot that runs, the one a restart boots and the one it would go back to are whole,
  and while an image is being written the slot it fills is none of these (`SlotsWhole`); a version that was reported stays (`Kept`).
* `GuardInv` (`MCStorage`): a boot's count of failed ones before it is at least the row of them, and the record for
  the next holds that count plus this boot until it is healthy.
* `GateInv` (`MCBench`): of captures, scans, read-backs there is one in all at any time (`SingleJob`), also after a hold
  expired under an upload, when an upload and another client's job can coexist; a trigger timeout runs for the capture
  there is and for whatever condition the gateware has (`TriggersFollow`), so a condition of an earlier capture cannot
  park a later one; and as long as no hold expired under an upload, only the owner of the gate is in `PROTO_LOAD`
  (`JobsOwned`), which is why a claim meets no upload. `GateSafe` says none of the three.
* `PinsInv` (`MCBench`): a pin's latch holds what its function drives, the train's direction apart (`LatchFits`); an engine
  runs on the pins the table gives its session, or waits to be armed again (`UartFits`, `ProbeFits`, `SimsFit`); the pull a
  UART session closed belongs to a session that is there, on a bank at 3.3 V (`PullHeld`). `OneFunction` compares the
  engines only with the table; what a close or an image swap leaves behind needs the sessions' own memory.
* `OutputInv` (`MCBench`): at most one of the quad's voltage outputs is off its park level, +-14 V is on only behind a
  parked +-12 V channel (`Levels`), and an output off its level is live (`Wired`), also while limits are being applied or a
  write of the mux fails; once settled the output is inside its window (`Held`).
* `RangeInv` (`MCBench`): between the check of a calibration record and the end of its save, a record the server is not told
  of has the same fit as the one it replaces (`StoredSoFar`), so giving up the save changes nothing for the server.
* `ReadInv` (`MCBench`), beside `GateInv`: until a hold ends under another job, the regions of the capture under way hold
  what it will have written, and what `capture_read` may resume is there and marked in `psram_regions` (`DataKept`); the
  trigger watched is that of the capture there is, and an outcome waits only while the changes of its capture are
  scanned (`TriggerKept`). `ReadsOwnData` and `ReplyHasItsTrigger` speak of a read-back once it has begun. Each step that
  writes the PSRAM or starts a reply is shown to run behind the gate, which is where `GateInv` comes in.
* `TraceInv` (`MCBench`): a trace that plays from the top of the PSRAM has marked the region, and an upload that writes
  there is known to write over what plays (`RegionMarked`).
* `ScpiInv` (`MCBench`): the generations of the SCPI trace and of the JSON trace are never the same, and while the JSON
  trace's is the pool's every cell of it is its own (`JsonKept`); a reply's parts are still to come, in the buffer or
  sent (`ReplyCounted`).
* `ImageInv` (`MCBench`): per stage of the boot, swap and reload, what the mirrors and the PSRAM's mode are
  (`BasesInv`), that nothing captures or reads (`RegionsInv`), that what is being written is a good slot
  (`WritesInv`), and that a boot that wrote the flash has left nothing to write (`WearInv`); the flash holds what runs
  or has lost it, and it takes two faults to part a version from its gateware (`VersionInv`). The properties speak of
  an idle pod only. In proving it three steps of `Fabric` were brought closer to the code: the idle check pings a fabric
  that runs, an ESD hit that loses the configuration takes the reader with it, and `MirrorsAgree` needs no self-test
  that passed. `KnowsGateware` was found to need its `fFaults < 2` (section 6).
* `ProfileInv` (`MCTarget`): while a profile is measured every bin of the store is full and the rest of the readings is in
  the accumulator (`Filling`); once it is finished only the last bin may be short (`Full`); the store's capacity is even,
  or 1 with bins no run fills. So a halving, which adds bins in pairs, loses no reading.
* `CanInv` (`MCTarget`): over the frames read, the ring's and the core's the numbers ascend (`Ordered`), the one
  being read counted in both places until the tail moves; what was lost is the difference the overflow counter shows
  (`CanCounts`).
* `UartInv` (`MCTarget`): ring, FIFO and line hold consecutive bytes (`UpRuns`), and so do those of the way back unless a
  flag says otherwise (`DownRuns`); the FIFO of the simulated receiver ends where the stage has got to (`GpsRuns`). None
  holds while an image swap waits to be noticed.
* `SensorInv` (`MCTarget`): the registers in the worker and in the fabric are images a model builds. That `FindAdc`
  returns the nearest code (`FindAdcNearest`) is shown by induction over the windows of the bisection, on a set of widths
  for which it would fail (`LeastNat`), since the library's induction theorems take an operator.
* `SpiInv` (`MCTarget`): a flash job stands within what it was asked for and, erasing, at a multiple of the sector
  (`SpiPlace`); behind that place the part holds what the job will report, ahead of it and around it what it held
  before (`SpiDone`); a job owns the bus while its frame is open, and one that does not hold it leaves none open
  (`SpiFrames`).
* `DapInv` (`MCTarget`): the one-by-one loop is k transfers ahead of the queue, each of which will go through, and what
  it has stored is what they will store; the transfer behind them is not recorded yet, or is lost and the loop stopped
  with what its entry says (`Ahead`). The places of the recorded reads are apart (`Apart`), and the response has room
  for what the request under way still reads (`DapRoom`). A run of the queue then only changes k: the bytes it took
  give back the number of transfers before the one that stopped it (`DoneIsBefore`), wherever the queue was cut
  (`ChunkIs`). `Off` counts the bytes by the reads and writes before a transfer, so that this needs no recursion.

TLC checked each of these as an invariant before it was proved, with larger
bounds than those of the run where the instance allows. `StationInv` was first
stated without its exceptions, passed within the run's bounds and could not be
proved: that is how the case in section 6 (*Late disconnect*) was found.

A step of a composed specification is a step of the component `which` names and
leaves the variables of the others alone (`Rest`). So `MCInit` gives the initial states
of each part, `[MCNext]_mcVars` gives `[Next]` of each part, and a part's
invariant carries over; the composed theorem puts them together.

What stays with TLC:

* Liveness under fairness, and `ENABLED` (`TeardownCompletes`, `NetComesUp`,
  `LinksComeBack`, `BusyEnds`, `EnginesEnd`, `UpdatesEnd`,
  `NotBusyForever`), and induction over recursive definitions; none of the modules
  uses a `RECURSIVE` operator.
* The type invariants `TypesOK` of `MCNet` and `MCLinks` as a whole: those of the
  parts above are proved with their invariants.

## 5. Abstractions

* Client bytes are an item with the number of their session; what a command does
  is a reply, or none, and state kept for the slot.
* Hashes and signatures do not collide; a CRC fails on torn data.
* The contents of records, replies and samples are model values or the order in
  which they came; encodings are not modelled.
* One tick of a modelled clock is the smallest difference the properties tell
  apart.
* State of another component that a module needs (the gate, the lease, the bus)
  changes freely in it, within what the other allows.

## 6. Where the code does less than its comments say

The first three have a run. For the others the module says how far a property is
claimed, or leaves the promise out.

Sessions, stores, updates:

* *Parked close overtakes bytes* (`PodSessions_order`, `hw_worker.c:145`). The
  parked pass looks at the queue once; a client whose bytes and close arrive
  after that look has its close applied first. `overtook` is the set of slots
  this has happened to; the safety properties exclude them.
* *Calibration and power loss* (`AdcCal_power`, `adc_cal.c:191`): a cut during a
  later commit falls back to the offset alone.
* *Responder and a full ring* (`CanBus_answers`, `can_bus.c:385`): a frame that
  finds the software ring full is dropped before the rules are looked at.
* *Two teardowns, one bit* (`hw_worker.c:140`). The worker's close request can be
  submitted for a slot whose FIN was; the first one handled frees the slot, and
  two clients later a reply reaches the wrong connection. `twice` marks such
  slots; `ReplyIsolation` excludes them.
* *Late reply on a reused tunnel* (`cloud_client.c:191`): a tunnel opened on a slot
  that is still busy can receive the late reply of the one before it.
* *Half a pair and older firmware* (`adc_cal.c:451`): a half-written pair
  on which older firmware then saves passes for a whole pair; `mixed` marks it.
* *Safe mode without a row* (`boot_guard.c:118`, `boot_guard.h:37` "failed boots in
  a row"): a planned reset, or a refused commit, of a boot that had become healthy
  writes back the failures from before it.
* *Clear on flash that fails* (`config_store.c:260`): when the tombstone
  does not program, the slots are erased one by one, the legacy record last; a
  power loss between can bring an older value back. The refinement of
  `PowerSafeRegister` leaves out faulty flash with a legacy record.
* *Take within a second request* (`net_reload.c`): a take between the
  load and the store of the next request's bits repeats a reload; it loses none.
* *Cloud frames on an abandoned session* (`ota.c:491`): data, end and
  commit frames of the cloud put a session that another transport abandoned into
  the error state; `SessionProtected` protects sessions until they count as
  abandoned.
* *Release of a bridge request* (`wifi_bridge_net.c`, `run_call`): when the call
  that takes the answer does not reach the net task, the request is not released.

Captures and instruments:

* *Hold and second upload* (`command_handler_dac.c:153`): the
  hold of a finished upload releases the gate of the next upload of the same
  connection; `"upload"` in `met`.
* *Refused first chunk* (`command_handler_dac.c:370`): `load` claims the
  gate before it looks at its data, and a chunk it then refuses leaves the gate
  claimed with no hold to end it until the connection closes; `"leak"`.
* *Moved base* (`command_handler_capture.c:1126`): `capture_dual` sets
  the ADC base before the arm that may fail (more than `ADC_CAP_MAX_SAMPLES`);
  the earlier capture stays resumable and is then read at the new base;
  `"moved"`.
* *Trigger outcome of another* (`command_handler_capture.c:249`, "a
  previous capture's outcome must never ride this reply"): a connection that
  closes during the change scan leaves the outcome for the next reply that starts
  with `bulk_begin`, and a request the gate refuses clears the one a scan still
  needs; `"reply"`.
* *Trigger of a waiting capture* (`command_handler_capture.c:243`, "the
  fabric latches the trigger at the arm"): the gateware latches that it waits
  (`ice40/src/top_v2.v:418`), and compares with the live channel and polarity, so
  a triggered request that the gate refuses changes the condition another
  client's capture waits for.
* *Stall timer* (`command_handler_capture.c:506`): it restarts at every
  pass with 96 bytes of room, while a frame of edges needs 200; a client that
  leaves the room between the two keeps the gate. `Unseen` excludes it.
* *Swaps that do not park* (`dac_limits.h`): a failed image swap and the console's
  reflash leave the output unparked; SCPI's output off stops without parking.
  `WindowKept` speaks of outputs parked since the last reconfiguration.
* *Loop source after a reset of the MCU*: the mirror says "adc", the fabric keeps
  its register. *`measure_psram_start`* does not clear `dac_timed`.
* *Calibration in use*: `adc_cal_clear` takes it out of use even when the erase
  fails; the net task may announce a record that `apply` is only trying.
* *Start on a capture*: asked for while a triggered capture waits, it leaves
  `s_cotrig_pending` set after t0. A `load` with an offset keeps the leading
  bytes another client put into the pool.
* *Image 1 without an image* (`signal_engine.c`): `fpga_image 1` with an empty
  slot writes image 0 again; a failed swap reports a wedge though image 0 runs.
* *Version after two faults* (`hw_worker.c:333`): a write that fails after its last
  page leaves another version in the flash, and a later reload that reports failure
  though the iCE40 configures is not pinged, so version and rate stay those of
  the gateware before until the next idle check. `KnowsGateware` claims them for
  fewer than two faults (`fFaults`).
* *Pulls*: `la_pullups_all_off` ignores expander writes that fail. A step train on
  a gpio output keeps running when `gpio off` frees its pin. The teardown of a
  connection that once had the UART ends the session of the one that has it now.
* *SCPI*: `*RST` stops the DAC without the gate of safe mode; `OUTPut?` does not
  see what JSON commands did.

Target engines:

* *Power* (`target_power.c`): an immediate order does not cancel a scheduled one; a
  scheduled one that fails is lost silently; a bring-up that fails leaves the pins
  inputs and later orders report success.
* *Profile*: a start that fails leaves the profile's ADC configuration.
* *CAN*: frames between the enabled interrupt and the reset of the ring at the end
  of `can_configure` are lost uncounted; a bus-off before `s_enabled` waits for a
  poll.
* *SWD*: in a batch a match mask written after a transfer that fails still takes
  effect.
* *SPI flash*: a part that sets write enable and ignores the erase is reported
  erased; a read does not look at the busy bit.
* *UART*: bytes in the TX ring at an image swap are dropped.
* *Sensors*: `sensor_sim_poll` takes over the write count before a reload that may
  fail; a write of the DUT during the arm is taken for seen (`EarlyWrites`).

Links:

* *Efuse events* (`cloud_client.c`): `pending` is cleared before a send whose
  failure is ignored. *A newer response replaces one still waiting*: `replaced`
  counts those, `Accounted` allows them.
* *Policies* (`pod_policy.c`): an unknown stored value loads as locked, the comment
  says the strictest.
* *TLS pool empty*: the comment says the read is tried again from `poll` or
  `recv`; no poll is armed, the next segment or a kick does it.
* *TLS and proxy layers*: a failed handshake whose close fails aborts and reports
  ERR_OK; a FIN before the handshake ignores a failing close; with a close that
  fails in the receive path a layer is leaked (`CloudStack` with
  `CloseFails = {"recv"}`). A configuration with only the roots can be cached when
  the CA did not load.
* *Ethernet*: the link check may start an interface a command has just stopped.
* *Coprocessor*: a response is matched by its message id only, so a late refusal
  of one request can end the next; new credentials reload the control during a
  flash.
* *Bridge*: a rejection recorded by the client need not be that of its last
  request; a station whose driver reports a leave while it joins may settle on the
  network before (`LeavesIn`).
* *Late disconnect* (`wifi-bridge/main/wifi.c:391`): a disconnect that belongs to
  the link before ends the join under way (`s_connecting`). Are the credentials
  then cleared, the apply finds nothing to leave (`wifi.c:164`), the join goes
  on with the MAC it began with, and stays so when another pod is plugged in, until
  credentials are stored again. `OnAirAsPod` claims the pod's MAC for bridges that
  have credentials.
* *Certificate*: an apply that fails after the save reports an error and is used
  after the next boot; a stored certificate that fails to load for want of heap
  is replaced.

## 7. Not modelled

* Register-level drivers (QSPI, SPI flash commands, I2C, USB class drivers, the
  HAL): what an operation can leave behind is in the modules that use it.
* Encodings and text: JSON, base64, SCPI units, NMEA, WebSocket frames, console
  output; the arithmetic of calibration, waveforms, rates and sizes.
* Cryptography and mbedTLS: a signature is the knowledge of its key.
* The gateware itself and the motor emulator: hardware descriptions with their
  own test benches; the firmware's view of them is in the modules as external.
* The EMI test, module EEPROMs, board tables, indicator LEDs, the recovery
  button: no state that two actors share.
* Host tools, calibration scripts, the ESP32 slave image.

## 8. Plan

The components are in place; what is left is to prove more about them. In the
order of their value:

1. `TypesOK` of `MCNet` and `MCLinks`: what the inductive invariants above leave of it.
