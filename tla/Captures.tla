------------------------------- MODULE Captures --------------------------------
(***************************************************************************)
(* The heavy gate and what runs behind it: captures and their paced        *)
(* read-back (command_handler_capture.c), waveform uploads                 *)
(* (command_handler_dac.c), holds on the shared PSRAM bus and the capture  *)
(* that capture_read can resume.  All of it runs on the hardware worker:   *)
(* an action is one handler, or one part of command_handler_poll that      *)
(* found something to do (a part may find nothing in a pass, so the parts  *)
(* need no order).  The gateware and the client that reads the reply run   *)
(* beside the worker.                                                      *)
(***************************************************************************)
EXTENDS Naturals, FiniteSets

CONSTANTS
    Conns, NoConn,
    Triggers, Off,     \* conditions of SET_TRIGGER, and its mode 0
    Requests,          \* the capture requests clients send
    MaxOps,            \* bound on commands
    MaxChunks          \* bound on the chunks of a read-back

\* A request: the command, its trigger, the streams it captures, and whether the LA records
\* changes instead of samples.
RequestType == [cmd : {"capture", "stream", "measure", "la_capture", "capture_dual"},
                trig : Triggers \cup {Off}, adc : BOOLEAN, la : BOOLEAN, chg : BOOLEAN]

ConstantsOK ==
    /\ Requests \subseteq RequestType
    /\ \A r \in Requests : /\ r.cmd \in {"stream", "measure"} => r.trig = Off
                           /\ r.chg => r.la
                           /\ r.adc \/ r.la
    /\ MaxOps \in Nat /\ MaxChunks \in Nat \ {0}
    /\ NoConn \notin Conns /\ Off \notin Triggers

VARIABLES
    heavy_owner,      \* the connection that holds the gate, NoConn for -1
    caps,             \* the active ones of v2cap, lacap and dualcap
    trigwait,         \* the capture whose trigger timeout runs: a set of at most one
    trig_reply,       \* the capture whose trigger outcome waits for its reply, 0 for none
    chgscan, bulk,    \* the scan and the read-back under way: sets of at most one
    last_cap,         \* the capture capture_read resumes
    track, stale,     \* psram_regions: the cells it occupies, whether one was written since
    data,             \* the cells that hold the data of the last capture armed
    adc_base,         \* s_adc_cap_base, as a cell
    bus,              \* holds on the shared bus (the depth of bus_owner)
    fabric,           \* what the producers of the gateware do
    fabric_trig,      \* the condition SET_TRIGGER left in the gateware
    dac,              \* the waveform of a measure plays
    load, raw,        \* the load_bin upload (at most one); the connections in PROTO_LOAD
    loaded_hold,      \* loaded_hold_conn
    ota,              \* an update is being received or waits for its commit
    ops,              \* commands so far; numbers the captures
    met               \* deviations met so far (see the properties)

trigger == <<trigwait, trig_reply>>
regions == <<last_cap, track, stale, data, adc_base>>
gateware == <<fabric, fabric_trig, dac>>
upload == <<load, raw, loaded_hold>>
vars == <<heavy_owner, caps, trigger, chgscan, bulk, regions, bus, gateware, upload, ota, ops, met>>

PsramCells == 0 .. 2                 \* the LA region, the ADC region, the top of the PSRAM
Rooms == {"full", "tight", "free"}   \* send room: below 96 bytes, below a frame, more

Init ==
    /\ heavy_owner = NoConn /\ caps = {} /\ trigwait = {} /\ trig_reply = 0
    /\ chgscan = {} /\ bulk = {}
    /\ last_cap = [valid |-> FALSE, adc |-> FALSE, la |-> FALSE]
    /\ track = {} /\ stale = FALSE /\ data = {} /\ adc_base = 1
    /\ bus = 0
    /\ fabric = "idle" /\ fabric_trig = Off /\ dac = FALSE
    /\ load = {} /\ raw = {} /\ loaded_hold = NoConn
    /\ ota = FALSE /\ ops = 0 /\ met = {}

(***************************************************************************)
(* The gate, the bus and the regions.                                      *)
(***************************************************************************)
Busy == caps \cup chgscan \cup bulk # {}          \* capture_busy
HeavyInFlight == Busy \/ ota                      \* heavy_in_flight
MayClaim(c) == heavy_owner \in {NoConn, c}        \* heavy_try_claim

\* The gate without its look at what is in flight.
BeginClaims(c) == MayClaim(c)
\* heavy_begin, command_handler_acquire_adc
Begin(c) == ~HeavyInFlight /\ MayClaim(c)

Released(c) == IF heavy_owner = c THEN NoConn ELSE heavy_owner   \* heavy_release

\* A client sends a command; in PROTO_LOAD its bytes are no commands.
Command(c) ==
    /\ ops < MaxOps
    /\ c \notin raw
    /\ ops' = ops + 1

Acquire == bus' = bus + 1
Holds(jobs) == Cardinality({j \in jobs : j.psram})
Release(jobs) == bus' = IF bus >= Holds(jobs) THEN bus - Holds(jobs) ELSE 0
\* psram_bus_handover: the iCE40 gets the bus, whatever holds were left are dropped.
Handover == bus' = 0

\* The write alone, not named to psram_regions.
WrittenSilently(where) == data' = data \ where /\ UNCHANGED stale
\* psram_regions_dirty, then the write.
Written(where) ==
    /\ data' = data \ where
    /\ stale' = (stale \/ where \cap track # {})

(***************************************************************************)
(* Arming a capture.                                                       *)
(***************************************************************************)
HasTrigger(r) == r.cmd \in {"capture", "la_capture", "capture_dual"}
Deep(r) == r.cmd \in {"la_capture", "capture_dual"}   \* read back from PSRAM, not through RAM

\* psram_plan packs the ADC behind the LA; above a change stream it goes to the top.
BaseFor(r) ==
    IF r.cmd # "capture_dual" THEN adc_base ELSE IF r.chg THEN 2 ELSE IF r.la THEN 1 ELSE 0

\* What the capture writes; a change stream may use everything.
CellsFor(r) ==
    IF r.chg THEN PsramCells
    ELSE (IF r.adc THEN {BaseFor(r)} ELSE {}) \cup (IF r.la THEN {0} ELSE {})

\* capture_trigger_begin: the previous outcome is forgotten.
Forgotten(r) == IF HasTrigger(r) THEN 0 ELSE trig_reply

\* The gate refuses.  capture_trigger_begin has run before it is asked, so the condition in the
\* gateware is overwritten and capture_trigger_cancel turns it off.
ArmRefused(c, r) ==
    /\ Command(c)
    /\ HasTrigger(r) /\ ~Begin(c)
    /\ trig_reply' = 0
    /\ fabric_trig' = IF r.trig # Off THEN Off ELSE fabric_trig
    /\ met' = met \cup (IF trig_reply # 0 THEN {"reply"} ELSE {})
    /\ UNCHANGED <<heavy_owner, caps, trigwait, chgscan, bulk, regions, bus, fabric, dac, upload,
                   ota>>

\* The gate is won and the arm fails (SPI, an ADC deeper than its region): the bases are set
\* already, and the regions may be marked.
ArmFails(c, r) ==
    /\ Command(c)
    /\ Begin(c)
    /\ heavy_owner' = NoConn
    /\ trig_reply' = Forgotten(r)
    /\ fabric_trig' = IF r.trig # Off THEN Off ELSE fabric_trig
    /\ adc_base' = BaseFor(r)
    /\ stale' \in {stale, stale \/ CellsFor(r) \cap track # {}}
    /\ met' = met \cup (IF last_cap.valid /\ adc_base' # adc_base THEN {"moved"} ELSE {})
    /\ UNCHANGED <<caps, trigwait, chgscan, bulk, last_cap, track, data, bus, fabric, dac, upload,
                   ota>>

\* handle_capture, handle_stream, handle_measure, handle_la_capture and handle_capture_dual: the
\* capture is armed.  A job of the same command would be overwritten.
Arm(c, r) ==
    /\ Command(c)
    /\ Begin(c)
    /\ heavy_owner' = c
    /\ trig_reply' = Forgotten(r)
    /\ fabric_trig' = IF r.trig # Off THEN r.trig ELSE fabric_trig
    /\ fabric' = IF fabric_trig' # Off THEN "parked" ELSE "running"
    /\ caps' = {j \in caps : j.req.cmd # r.cmd} \cup {[conn |-> c, id |-> ops', req |-> r]}
    /\ trigwait' = IF r.trig # Off THEN {[conn |-> c, id |-> ops']} ELSE trigwait
    /\ adc_base' = BaseFor(r)
    /\ data' = CellsFor(r)
    /\ stale' = (stale \/ CellsFor(r) \cap track # {})
    /\ last_cap' = [last_cap EXCEPT !.valid = FALSE]
    /\ dac' = (dac \/ r.cmd = "measure")
    /\ Handover
    /\ UNCHANGED <<chgscan, bulk, track, upload, ota, met>>

\* The gateware: the condition it now has is seen; the producers are done.
Fire ==
    /\ fabric = "parked"
    /\ fabric' = "running"
    /\ UNCHANGED <<heavy_owner, caps, trigger, chgscan, bulk, regions, bus, fabric_trig, dac,
                   upload, ota, ops, met>>

Complete ==
    /\ fabric = "running"
    /\ fabric' = "done"
    /\ UNCHANGED <<heavy_owner, caps, trigger, chgscan, bulk, regions, bus, fabric_trig, dac,
                   upload, ota, ops, met>>

(***************************************************************************)
(* The end of a capture.                                                   *)
(***************************************************************************)
\* capture_trigger_done without the SET_TRIGGER that turns the condition off.
TriggerDoneLeavesOn == trigwait' = {} /\ UNCHANGED fabric_trig
\* capture_trigger_done; what it leaves in trig_reply is Outcome.
TriggerDone ==
    /\ trigwait' = {}
    /\ fabric_trig' = IF trigwait # {} THEN Off ELSE fabric_trig

Outcome == IF trigwait # {} THEN (CHOOSE t \in trigwait : TRUE).id ELSE trig_reply

\* dac_stop for a capture with stop_dac.
DacAfter(jobs) == dac /\ \A j \in jobs : j.req.cmd # "measure"

\* bulk_take_trigger, the outcome left where it is.
TakeKeeps(outcome) == trig_reply' = outcome
\* bulk_take_trigger
Take(outcome) == trig_reply' = 0

\* bulk_begin and its variants: a reply of some chunks, whose frames may need more than 96 bytes
\* of room (narrow).  trig is the outcome it carries, own the one its capture had.
Starts(conn, psram, adc, la, trig, own) ==
    \E n \in 1 .. MaxChunks, narrow \in BOOLEAN, room \in Rooms :
        bulk' = {[conn |-> conn, psram |-> psram, adc |-> adc, la |-> la, trig |-> trig,
                  own |-> own, left |-> n, narrow |-> narrow, room |-> room]}

StartsFor(j, psram, outcome) ==
    Starts(j.conn, psram, j.req.adc, j.req.la, outcome, IF j.req.trig # Off THEN j.id ELSE 0)

\* capture_poll: the samples of a shallow capture were read into RAM.
CaptureDone(j) ==
    /\ fabric = "done" /\ ~Deep(j.req)
    /\ fabric' = "idle"
    /\ TriggerDone
    /\ caps' = caps \ {j}
    /\ dac' = DacAfter({j})
    /\ StartsFor(j, FALSE, Outcome)
    /\ Take(Outcome)
    /\ UNCHANGED <<heavy_owner, chgscan, regions, bus, upload, ota, ops, met>>

\* capture_poll: a deep capture of samples; the bus is taken for the read-back and capture_read
\* may resume it.
DeepDone(j) ==
    /\ fabric = "done" /\ Deep(j.req) /\ ~j.req.chg
    /\ fabric' = "idle"
    /\ TriggerDone
    /\ caps' = caps \ {j}
    /\ Acquire
    /\ last_cap' = [valid |-> TRUE, adc |-> j.req.adc, la |-> j.req.la]
    /\ track' = CellsFor(j.req)
    /\ stale' = FALSE
    /\ StartsFor(j, TRUE, Outcome)
    /\ Take(Outcome)
    /\ UNCHANGED <<heavy_owner, chgscan, data, adc_base, dac, upload, ota, ops, met>>

\* capture_poll: a capture of changes; its stream is scanned first.
ChangesDone(j) ==
    /\ fabric = "done" /\ j.req.chg
    /\ fabric' = "idle"
    /\ TriggerDone
    /\ trig_reply' = Outcome
    /\ caps' = caps \ {j}
    /\ Acquire
    /\ last_cap' = [last_cap EXCEPT !.valid = FALSE]
    /\ chgscan' = {[conn |-> j.conn, id |-> j.id, req |-> j.req, psram |-> TRUE]}
    /\ UNCHANGED <<heavy_owner, bulk, track, stale, data, adc_base, dac, upload, ota, ops, met>>

\* capture_poll: the deadline passed, the producers overflowed, or the samples cannot be read or
\* were never written.  While the trigger's own time runs the deadline lies behind it.
CaptureFails(j) ==
    /\ fabric = "parked" => trigwait = {}
    /\ fabric' = "idle"
    /\ trigwait' = {} /\ fabric_trig' = Off
    /\ trig_reply' = 0
    /\ caps' = caps \ {j}
    /\ dac' = DacAfter({j})
    /\ heavy_owner' = Released(j.conn)
    /\ UNCHANGED <<chgscan, bulk, regions, bus, upload, ota, ops, met>>

\* capture_poll: the trigger did not come in time (a status that cannot be read counts as not
\* fired).  fpga_capture_abort turns the condition off.
TriggerTimeout ==
    \E t \in trigwait :
        /\ trigwait' = {}
        /\ fabric' = "idle" /\ fabric_trig' = Off
        /\ caps' = {j \in caps : j.conn # t.conn}
        /\ heavy_owner' = Released(t.conn)
        /\ UNCHANGED <<trig_reply, chgscan, bulk, regions, bus, dac, upload, ota, ops, met>>

\* chgscan_step: END was found and the stream is whole, or was cut early.
ScanEnds ==
    \E s \in chgscan :
        /\ chgscan' = {}
        /\ StartsFor(s, TRUE, trig_reply)
        /\ Take(trig_reply)
        /\ UNCHANGED <<heavy_owner, caps, trigwait, regions, bus, gateware, upload, ota, ops, met>>

\* chgscan_fail
ScanFails ==
    \E s \in chgscan :
        /\ chgscan' = {}
        /\ Release(chgscan)
        /\ trig_reply' = 0
        /\ heavy_owner' = Released(s.conn)
        /\ UNCHANGED <<caps, trigwait, bulk, regions, gateware, upload, ota, ops, met>>

(***************************************************************************)
(* The read-back (bulk_pump) and the handlers that start one.              *)
(***************************************************************************)
CanSend(b) == b.room = "free" \/ (b.room = "tight" /\ ~b.narrow)

\* One frame too many.
MoreOffByOne(b) == b.left >= 1
\* bulk.sent < bulk.total after this frame
More(b) == b.left > 1

BulkSend(b) ==
    /\ CanSend(b) /\ More(b)
    /\ \E room \in Rooms : bulk' = {[b EXCEPT !.left = b.left - 1, !.room = room]}
    /\ UNCHANGED <<heavy_owner, caps, trigger, chgscan, regions, bus, gateware, upload, ota, ops,
                   met>>

\* The bus and the gate are given back.
BulkOver(b) ==
    /\ bulk' = {}
    /\ Release({b})
    /\ heavy_owner' = Released(b.conn)
    /\ UNCHANGED <<caps, trigger, chgscan, regions, gateware, upload, ota, ops, met>>

\* The last frame is queued, or a read or a send fails.
BulkEnds(b) == CanSend(b) /\ BulkOver(b)

\* No stall timer: a client that does not read is waited for.
BulkWaits(b) == FALSE /\ BulkOver(b)
\* No room for BULK_STALL_MS: the send is ended and the connection dropped.
BulkStall(b) == b.room = "full" /\ BulkOver(b)

\* The client reads.
Drain(b) ==
    /\ b.room # "free"
    /\ \E room \in Rooms \ {"full", b.room} : bulk' = {[b EXCEPT !.room = room]}
    /\ UNCHANGED <<heavy_owner, caps, trigger, chgscan, regions, bus, gateware, upload, ota, ops,
                   met>>

\* handle_test, handle_sensor_regs, handle_sensor_la: the reply comes from RAM.
RamRead(c) ==
    /\ Command(c)
    /\ Begin(c)
    /\ heavy_owner' = c
    /\ Starts(c, FALSE, FALSE, FALSE, trig_reply, 0)
    /\ Take(trig_reply)
    /\ UNCHANGED <<caps, trigwait, chgscan, regions, bus, gateware, upload, ota, met>>

\* handle_capture_read; an offset at the end only claims and releases the gate (Brief).
CaptureRead(c) ==
    /\ Command(c)
    /\ last_cap.valid /\ ~stale
    /\ Begin(c)
    /\ heavy_owner' = c
    /\ Acquire
    /\ Starts(c, TRUE, last_cap.adc, last_cap.la, 0, 0)
    /\ UNCHANGED <<caps, trigger, chgscan, regions, gateware, upload, ota, met>>

\* A handler that claims and releases the gate in one go: a capture of SCPI or the console, which
\* writes the region of its stream, an SPI stream, a measurement that needs the ADC.
Brief(c, where) ==
    /\ Command(c)
    /\ Begin(c)
    /\ heavy_owner' = NoConn
    /\ Written(where)
    /\ Handover
    /\ UNCHANGED <<caps, trigger, chgscan, bulk, last_cap, track, adc_base, gateware, upload, ota,
                   met>>

\* command_handler_on_gateware_reconfigured and its counterpart in signal_engine.c, run by an
\* image switch behind the gate.
GatewareReload(c) ==
    /\ Command(c)
    /\ Begin(c)
    /\ heavy_owner' = NoConn
    /\ stale' = (stale \/ track # {})
    /\ data' = {}
    /\ adc_base' = 1
    /\ trigwait' = {} /\ trig_reply' = 0
    /\ fabric' = "idle" /\ fabric_trig' = Off /\ dac' = FALSE
    /\ Handover
    /\ UNCHANGED <<caps, chgscan, bulk, last_cap, track, upload, ota, met>>

(***************************************************************************)
(* Uploads and updates.                                                    *)
(***************************************************************************)
\* handle_load: the first chunk claims the gate, later ones need it.  A chunk that is refused
\* after the claim leaves the gate claimed and no hold to end it.
Load(c, first, good) ==
    /\ Command(c)
    /\ ~HeavyInFlight
    /\ IF first THEN MayClaim(c) ELSE heavy_owner = c
    /\ heavy_owner' = c
    /\ loaded_hold' = IF good THEN c ELSE loaded_hold
    /\ met' = met \cup (IF loaded_hold' # c THEN {"leak"} ELSE {})
    /\ UNCHANGED <<caps, trigger, chgscan, bulk, regions, bus, gateware, load, raw, ota>>

\* handle_load_bin: an upload under way would be overwritten.
LoadBin(c, psram) ==
    /\ Command(c)
    /\ Begin(c)
    /\ heavy_owner' = c
    /\ load' = {[conn |-> c, psram |-> psram]}
    /\ raw' = raw \cup {c}
    /\ IF psram THEN Acquire /\ Written({2}) ELSE UNCHANGED <<bus, data, stale>>
    /\ UNCHANGED <<caps, trigger, chgscan, bulk, last_cap, track, adc_base, gateware, loaded_hold,
                   ota, met>>

\* load_bin_receive with more to come: the bytes go to the upload under way, whoever sends them.
LoadBytes(c) ==
    /\ c \in raw
    /\ load # {}
    /\ IF Holds(load) > 0 THEN Written({2}) ELSE UNCHANGED <<data, stale>>
    /\ UNCHANGED <<heavy_owner, caps, trigger, chgscan, bulk, last_cap, track, adc_base, bus,
                   gateware, upload, ota, ops, met>>

\* load_bin_receive at the end: the gate stays claimed for the replay.
LoadEnds(c) ==
    /\ c \in raw
    /\ raw' = raw \ {c}
    /\ loaded_hold' = c
    /\ Release(load)
    /\ load' = {}
    /\ UNCHANGED <<heavy_owner, caps, trigger, chgscan, bulk, regions, gateware, ota, ops, met>>

\* dac_poll: the upload got no bytes for LOAD_BIN_TIMEOUT_MS.
LoadStall ==
    \E l \in load :
        /\ heavy_owner' = Released(l.conn)
        /\ raw' = raw \ {l.conn}
        /\ Release(load)
        /\ load' = {}
        /\ UNCHANGED <<caps, trigger, chgscan, bulk, regions, gateware, loaded_hold, ota, ops, met>>

\* The hold ends and the gate stays claimed.
HoldForgotten == heavy_owner
\* The gate, when the hold of a finished upload ends.
HoldFreed == IF HeavyInFlight THEN heavy_owner ELSE Released(loaded_hold)

\* dac_poll: LOADED_HOLD_MS have passed without a replay.
HoldExpires ==
    /\ loaded_hold # NoConn
    /\ loaded_hold' = NoConn
    /\ heavy_owner' = HoldFreed
    /\ met' = met \cup (IF heavy_owner' # heavy_owner /\ load # {} THEN {"upload"} ELSE {})
    /\ UNCHANGED <<caps, trigger, chgscan, bulk, regions, bus, gateware, load, raw, ota, ops>>

\* handle_replay; whether there is a trace to replay is not tracked.
Replay(c) ==
    /\ Command(c)
    /\ Begin(c)
    /\ heavy_owner' = NoConn
    /\ loaded_hold' = IF loaded_hold = c THEN NoConn ELSE loaded_hold
    /\ Handover
    /\ UNCHANGED <<caps, trigger, chgscan, bulk, regions, gateware, load, raw, ota, met>>

\* ota_begin of a client, staging of a chunk at the bottom of the PSRAM, and the end of the
\* session (module Ota has its states).
OtaBegin(c) ==
    /\ Command(c)
    /\ ~ota /\ ~Busy /\ heavy_owner = NoConn /\ load = {}    \* capture_or_upload_busy
    /\ ota' = TRUE
    /\ UNCHANGED <<heavy_owner, caps, trigger, chgscan, bulk, regions, bus, gateware, upload, met>>

OtaData ==
    /\ ota
    /\ Written({0})
    /\ UNCHANGED <<heavy_owner, caps, trigger, chgscan, bulk, last_cap, track, adc_base, bus,
                   gateware, upload, ota, ops, met>>

OtaEnd ==
    /\ ota
    /\ ota' = FALSE
    /\ UNCHANGED <<heavy_owner, caps, trigger, chgscan, bulk, regions, bus, gateware, upload, ops,
                   met>>

(***************************************************************************)
(* A connection closes (command_handler_conn_closed).                      *)
(***************************************************************************)
Of(jobs, c) == {j \in jobs : j.conn = c}

\* The scan of the connection is forgotten without its hold.
ClosedHoldsNoScan(c) == Of(bulk, c) \cup (IF c \in raw THEN load ELSE Of(load, c))
\* What gives its hold on the bus back: scan, read-back and upload of the connection.
ClosedHolds(c) ==
    Of(chgscan, c) \cup Of(bulk, c) \cup (IF c \in raw THEN load ELSE Of(load, c))

\* The capture is forgotten, the gateware goes on.
AbortForgets(c) == UNCHANGED <<fabric, fabric_trig>>
\* fpga_capture_abort for a capture of the connection.
AbortOf(c) ==
    /\ fabric' = IF Of(caps, c) \cup Of(trigwait, c) # {} THEN "idle" ELSE fabric
    /\ fabric_trig' = IF Of(caps, c) \cup Of(trigwait, c) # {} THEN Off ELSE fabric_trig

\* trig_reply and loaded_hold_conn are left as they are.
ConnClosed(c) ==
    /\ AbortOf(c)
    /\ caps' = caps \ Of(caps, c)
    /\ trigwait' = trigwait \ Of(trigwait, c)
    /\ chgscan' = chgscan \ Of(chgscan, c)
    /\ bulk' = bulk \ Of(bulk, c)
    /\ load' = IF c \in raw THEN {} ELSE load \ Of(load, c)
    /\ raw' = raw \ {c}
    /\ Release(ClosedHolds(c))
    /\ dac' = DacAfter(Of(caps, c))
    /\ heavy_owner' = Released(c)
    /\ met' = met \cup (IF Of(chgscan, c) # {} /\ trig_reply # 0 THEN {"reply"} ELSE {})
    /\ UNCHANGED <<trig_reply, regions, loaded_hold, ota, ops>>

CapturePoll == \E j \in caps : CaptureDone(j) \/ DeepDone(j) \/ ChangesDone(j) \/ CaptureFails(j)
BulkPoll == \E b \in bulk : BulkSend(b) \/ BulkEnds(b) \/ BulkStall(b)

Next ==
    \/ \E c \in Conns, r \in Requests : ArmRefused(c, r) \/ ArmFails(c, r) \/ Arm(c, r)
    \/ Fire
    \/ Complete
    \/ CapturePoll
    \/ TriggerTimeout
    \/ ScanEnds
    \/ ScanFails
    \/ BulkPoll
    \/ \E b \in bulk : Drain(b)
    \/ \E c \in Conns : RamRead(c)
    \/ \E c \in Conns : CaptureRead(c)
    \/ \E c \in Conns, where \in {{}, {adc_base}, {0}} : Brief(c, where)
    \/ \E c \in Conns : GatewareReload(c)
    \/ \E c \in Conns, first \in BOOLEAN, good \in BOOLEAN : Load(c, first, good)
    \/ \E c \in Conns, psram \in BOOLEAN : LoadBin(c, psram)
    \/ \E c \in Conns : LoadBytes(c) \/ LoadEnds(c)
    \/ LoadStall
    \/ HoldExpires
    \/ \E c \in Conns : Replay(c)
    \/ \E c \in Conns : OtaBegin(c)
    \/ OtaData
    \/ OtaEnd
    \/ \E c \in Conns : ConnClosed(c)

\* Every pass of the worker runs every part of command_handler_poll, and every timeout ends.  An
\* upload is finite: it completes or gets no more bytes.
Fairness ==
    /\ WF_vars(CapturePoll) /\ WF_vars(TriggerTimeout)
    /\ WF_vars(ScanEnds \/ ScanFails) /\ WF_vars(BulkPoll)
    /\ WF_vars(LoadStall) /\ WF_vars(HoldExpires)

Spec == Init /\ [][Next]_vars /\ Fairness

(***************************************************************************)
(* Properties.  Four deviations of the code are recorded in met: "upload", *)
(* a hold that expires takes the gate from a later upload; "leak", a       *)
(* refused first chunk keeps the gate; "moved", a failed capture_dual      *)
(* moves the ADC base of the capture that can be resumed; "reply", an      *)
(* outcome is lost to or left for another reply.  A property that one of   *)
(* them breaks is claimed until it happens.                                *)
(***************************************************************************)
Jobs == caps \cup chgscan \cup bulk \cup load

\* Every variable keeps to its type, and a read-back never announces a chunk it does not have.
TypeOK ==
    /\ heavy_owner \in Conns \cup {NoConn} /\ loaded_hold \in Conns \cup {NoConn}
    /\ caps \subseteq [conn : Conns, id : 1 .. MaxOps, req : Requests]
    /\ trigwait \subseteq [conn : Conns, id : 1 .. MaxOps]
    /\ trig_reply \in 0 .. MaxOps
    /\ chgscan \subseteq [conn : Conns, id : 1 .. MaxOps, req : Requests, psram : {TRUE}]
    /\ bulk \subseteq [conn : Conns, psram : BOOLEAN, adc : BOOLEAN, la : BOOLEAN,
                       trig : 0 .. MaxOps, own : 0 .. MaxOps, left : 1 .. MaxChunks,
                       narrow : BOOLEAN, room : Rooms]
    /\ last_cap \in [valid : BOOLEAN, adc : BOOLEAN, la : BOOLEAN]
    /\ track \subseteq PsramCells /\ data \subseteq PsramCells /\ adc_base \in PsramCells /\ stale \in BOOLEAN
    /\ bus \in 0 .. MaxOps
    /\ fabric \in {"idle", "parked", "running", "done"} /\ fabric_trig \in Triggers \cup {Off}
    /\ load \subseteq [conn : Conns, psram : BOOLEAN] /\ raw \subseteq Conns
    /\ dac \in BOOLEAN /\ ota \in BOOLEAN /\ ops \in 0 .. MaxOps
    /\ met \subseteq {"upload", "leak", "moved", "reply"}

\* heavy_begin: one job at a time uses the shared buffers, and its connection holds the gate
\* from the arm to the last chunk, whatever other clients ask for and whichever poll ends what.
GateOwnsJob ==
    "upload" \notin met =>
        /\ Cardinality(Jobs) <= 1
        /\ \A j \in Jobs : j.conn = heavy_owner
        /\ ota => Jobs = {}

\* heavy_release: a claimed gate has a reason that ends by itself, a job or the hold of a
\* finished upload.
NoLeak ==
    (heavy_owner # NoConn /\ met \cap {"leak", "upload"} = {}) =>
        loaded_hold = heavy_owner \/ \E j \in Jobs : j.conn = heavy_owner

\* psram_bus_acquire, psram_bus_release: the holds on the bus are exactly those of the scan, the
\* read-back and the upload under way, so the bus is never given back under one of them nor kept
\* after it, on any way a job can end.
BusPaired == "upload" \notin met => bus = Holds(chgscan \cup bulk \cup load)

\* fpga_capture_abort: the producers run or wait only for a capture that someone polls, so no
\* later user of the bus meets a gateware that still writes.
NoOrphan == fabric \in {"parked", "running"} => caps # {}

\* capture_trigger_done: a capture that waits in the gateware for a condition has a trigger
\* timeout; a condition of an earlier capture never parks one that asked for none.
ParkedIsWatched == fabric = "parked" => trigwait # {}

\* psram_regions, handle_capture_read: what a read-back sends from the PSRAM was written by the
\* capture it is sent for, whatever wrote to the PSRAM since.
ReadsOwnData ==
    met \cap {"moved", "upload"} = {} =>
        \A b \in bulk : b.psram => (b.adc => adc_base \in data) /\ (b.la => 0 \in data)

\* capture_trigger_begin, bulk_take_trigger: a reply carries the outcome of the trigger of its
\* own capture, and none if that had no trigger.
ReplyHasItsTrigger == "reply" \notin met => \A b \in bulk : b.trig = b.own

\* A read-back that waits for room which its stall timer does not see: at least 96 bytes, and
\* less than a frame needs.
Unseen == \E b \in bulk : b.narrow /\ b.room = "tight"

\* BULK_STALL_MS, LOADED_HOLD_MS, LOAD_BIN_TIMEOUT_MS, trigger_timeout_ms: the gate is free
\* again in the end, also when the client does nothing, unless a read-back waits unseen.
GateFree == heavy_owner = NoConn \/ Unseen \/ met \cap {"leak", "upload"} # {}
BusyEnds == []<>GateFree
====
