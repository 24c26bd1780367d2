-------------------------------- MODULE WifiCtrl --------------------------------
(***************************************************************************)
(* esp_wifi_ctrl.c, esp_hosted_spi.c, esp_hosted_pump.c and the users of    *)
(* the C3's straps in hw_worker.c, console.c, net_server.c: the net task    *)
(* takes the ESP32-C3 through the esp-hosted requests to an association,    *)
(* probes it, scans, restarts it; the worker flashes or wipes it.  The C3   *)
(* crashes, hangs, drops its association, answers late or not at all.       *)
(***************************************************************************)
EXTENDS Naturals, Sequences, SequencesExt

CONSTANTS TxRoom,          \* frames the TX ring holds (TX_SLOTS - 1)
          RssiMaxMisses,   \* RSSI_MAX_MISSES
          ScanReadMax,     \* SCAN_READ_MAX
          MaxAps,          \* access points a scan finds at most
          MaxTrouble,      \* crashes, hangs, drops, refusals, failed sends, early timeouts, failed flashes
          MaxScans, MaxSets \* scan requests; settings, installs and console commands

ConstantsOK == /\ {TxRoom, RssiMaxMisses, ScanReadMax} \subseteq Nat \ {0}
               /\ {MaxAps, MaxTrouble, MaxScans, MaxSets} \subseteq Nat

VARIABLES
    wc,         \* the control, its SPI transport and the C3: a record, see TypeOK
    scanReq,    \* s_scan_req_id
    slot,       \* the W25Q holds an ESP image
    flashReq,   \* WK_ESP_FLASH: none, queued, deferred
    job,        \* who has the C3's straps: none, auto, console (esp_rom_flash), hold (wipe or sync)
    sets

wcVars == <<wc, scanReq, slot, flashReq, job, sets>>

Requests == {"init", "storage", "mode", "cfg", "start", "connect", "mac", "rssi", "scan", "num", "rec", "clear"}
Scanning == {"scan", "num", "rec", "clear"}
States == {"down", "ready", "flashing", "assoc", "up", "backoff"} \cup Requests
Frames == [kind : Requests \cup {"boot", "conn", "disc"}, ok : BOOLEAN, n : 0 .. MaxAps]
FreshC3 == [inited |-> FALSE, ram |-> FALSE, assoc |-> "no"]

TypeOK ==
    /\ wc \in [ st : States, cfg : BOOLEAN, started : BOOLEAN,        \* s_state, s_configured, s_started
                await : Requests \cup {"none"}, resp : BOOLEAN, ok : BOOLEAN,  \* s_await_resp, s_resp_ready, s_resp_status
                evc : BOOLEAN, evd : BOOLEAN,                         \* s_evt_connected, s_evt_disconnected
                tried : BOOLEAN, fdone : {"no", "ok", "failed"},      \* s_flash_tried, s_flash_done with s_flash_ok
                paused : BOOLEAN, misses : 0 .. RssiMaxMisses,
                run : 0 .. MaxScans, done : 0 .. MaxScans,            \* s_scan_run_id, s_scan_done_id
                only : BOOLEAN, waiting : BOOLEAN, num : 0 .. MaxAps, read : 0 .. MaxAps,
                running : BOOLEAN, ready : BOOLEAN, rebooted : BOOLEAN,  \* s_running, s_ready, s_slave_reset
                wire : Seq(Requests), out : Seq(Frames),              \* the TX ring; what the C3 has to say
                c3 : {"reset", "boot", "run", "rom", "dead"}, img : {"app", "none"},
                c3w : [inited : BOOLEAN, ram : BOOLEAN, assoc : {"no", "trying", "yes"}],
                nvs : BOOLEAN,                                        \* credentials in the C3's flash
                link : BOOLEAN, tr : 0 .. MaxTrouble ]
    /\ scanReq \in 0 .. MaxScans /\ slot \in BOOLEAN /\ sets \in 0 .. MaxSets
    /\ flashReq \in {"none", "queued", "deferred"} /\ job \in {"none", "auto", "console", "hold"}

Init ==
    /\ wc \in { [ st |-> "down", cfg |-> c, started |-> FALSE, await |-> "none", resp |-> FALSE, ok |-> TRUE,
                  evc |-> FALSE, evd |-> FALSE, tried |-> FALSE, fdone |-> "no", paused |-> FALSE, misses |-> 0,
                  run |-> 0, done |-> 0, only |-> FALSE, waiting |-> FALSE, num |-> 0, read |-> 0,
                  running |-> FALSE, ready |-> FALSE, rebooted |-> FALSE, wire |-> <<>>, out |-> <<>>,
                  c3 |-> "reset", img |-> i, c3w |-> FreshC3, nvs |-> FALSE, link |-> FALSE, tr |-> 0 ]
                : c \in BOOLEAN, i \in {"app", "none"} }
    /\ scanReq = 0 /\ slot \in BOOLEAN /\ flashReq = "none" /\ job = "none" /\ sets = 0

Trouble(w) == IF w.tr < MaxTrouble THEN {[w EXCEPT !.tr = @ + 1]} ELSE {}
--------------------------------------------------------------------------------
(* The transport. *)

\* EN low: the C3 forgets all but its flash.
HeldInReset(w) == [w EXCEPT !.c3 = "reset", !.c3w = FreshC3, !.out = <<>>]

\* esp_hosted_spi_stop.
Stop(w) == [HeldInReset(w) EXCEPT !.running = FALSE, !.ready = FALSE, !.rebooted = FALSE, !.wire = <<>>]

\* EN high with BOOT high: the image, if there is one.
Released(w) == [w EXCEPT !.c3 = IF w.img = "app" THEN "boot" ELSE "dead", !.c3w = FreshC3, !.out = <<>>]

\* esp_hosted_spi_start.
StartC3(w) ==
    IF w.running THEN w
    ELSE [Released(w) EXCEPT !.running = TRUE, !.ready = FALSE, !.rebooted = FALSE, !.wire = <<>>]

\* send_req, esp_hosted_spi_send: the request is queued and awaited; not ("unsent") when the transport is
\* stopped or full. The caller leaves "unsent" in the same step.
Send(w, q) ==
    LET armed == [w EXCEPT !.resp = FALSE, !.ok = TRUE, !.await = q, !.st = "unsent"]
    IN  (IF w.running /\ Len(w.wire) < TxRoom THEN {[armed EXCEPT !.wire = Append(@, q), !.st = q]} ELSE {armed})
        \cup Trouble(armed)

\* Nothing that answers q is on its way.
Silent(w, q) ==
    ~ /\ w.running /\ w.c3 = "run"
      /\ Contains(w.wire, q) \/ \E i \in DOMAIN w.out : w.out[i].kind = q

\* time_reached: the deadline passes when nothing comes, or before it comes.
Late(w, silent) == (IF silent THEN {w} ELSE {}) \cup Trouble(w)
--------------------------------------------------------------------------------
(* The scan. *)

ScanPublish(w) == [w EXCEPT !.done = w.run, !.run = 0, !.waiting = FALSE]

\* scan_finish.
ScanFinish(w) ==
    LET u == [ScanPublish(w) EXCEPT !.await = "none"]
    IN  IF w.only THEN [Stop(u) EXCEPT !.only = FALSE, !.started = FALSE, !.st = "down"] ELSE [u EXCEPT !.st = "up"]

\* As if a failure of the link forgot the scan that runs.
ToBackoffForgets(w) == [w EXCEPT !.await = "none", !.st = "backoff", !.only = FALSE, !.waiting = FALSE]

\* to_backoff.
ToBackoff(w) ==
    LET u == IF w.run > 0 THEN ScanFinish(w) ELSE w
    IN  IF w.run > 0 /\ w.only THEN u ELSE [u EXCEPT !.await = "none", !.st = "backoff"]

OrBackoff(us) == { IF u.st = "unsent" THEN ToBackoff(u) ELSE u : u \in us }
WaitOrBackoff(w, silent) == {w} \cup { ToBackoff(u) : u \in Late(w, silent) }

\* scan_send_start, scan_send_record.
OrFinish(us) == { IF u.st = "unsent" THEN ScanFinish(u) ELSE u : u \in us }
ScanSendStart(w) == OrFinish(Send(w, "scan"))
ScanSendRecord(w) == { [u EXCEPT !.read = IF u.st = "rec" THEN @ + 1 ELSE @] : u \in OrFinish(Send(w, "rec")) }

\* scan_intake: joined, a scan alongside; with no link to keep, a C3 started for the scan; else it waits.
ScanIntake(w) ==
    LET u == [w EXCEPT !.run = scanReq]
        idle == ~w.cfg \/ w.st = "backoff" \/ (w.st = "down" /\ ~w.started)
        alone == [IF w.started THEN Stop(u) ELSE u EXCEPT !.only = TRUE, !.await = "none"]
    IN  CASE w.run > 0 \/ scanReq = w.done -> {w}
          [] w.paused \/ job \in {"auto", "console"} \/ w.st = "flashing" -> {ScanPublish(u)}
          [] w.st = "up" -> ScanSendStart([u EXCEPT !.only = FALSE])
          [] w.st # "up" /\ idle -> {[StartC3(alone) EXCEPT !.started = TRUE, !.st = "ready"]}
          [] ~w.waiting -> {[w EXCEPT !.waiting = TRUE]}
          [] OTHER -> {w} \cup {ScanPublish(v) : v \in Trouble(u)}

\* esp_wifi_ctrl_scan_request.
ScanRequest ==
    /\ scanReq < MaxScans
    /\ scanReq' = IF scanReq # wc.done THEN scanReq ELSE scanReq + 1
    /\ scanReq' # scanReq
    /\ UNCHANGED <<wc, slot, flashReq, job, sets>>
--------------------------------------------------------------------------------
(* The states of esp_wifi_ctrl_poll. *)

\* slave_lost: the link down now, the C3 into reset, and a backoff.
SlaveLost(w) == ToBackoff([Stop(w) EXCEPT !.link = FALSE, !.misses = 0, !.evc = FALSE, !.evd = FALSE])

\* As if unanswered probes were only logged.
RssiShrug(w) == [w EXCEPT !.await = "none", !.st = "up"]

\* rssi_missed.
RssiMissed(w) ==
    LET u == [w EXCEPT !.await = "none", !.st = "up", !.misses = @ + 1]
    IN  IF u.misses < RssiMaxMisses THEN u ELSE SlaveLost(u)

\* esp_wifi_ctrl_reconnect_if_dropped.
Reconnect(w) ==
    { [u EXCEPT !.st = IF @ = "connect" THEN "assoc" ELSE @] :
        u \in OrBackoff(Send([w EXCEPT !.evd = FALSE, !.link = FALSE], "connect")) }

\* WC_WAIT_READY without a boot event in time: one flash per configuration, handed to the worker.
NoBootEvent(w) ==
    LET off == [Stop(w) EXCEPT !.started = FALSE, !.tried = TRUE, !.fdone = "no"]
    IN  IF ~w.only /\ ~w.tried /\ slot
        THEN {[off EXCEPT !.st = "flashing"]} \cup {ToBackoff(u) : u \in Trouble(off)}
        ELSE {ToBackoff(w)}

WaitReady(w) ==
    IF w.ready THEN OrBackoff(Send([w EXCEPT !.evc = FALSE, !.evd = FALSE], "init"))
    ELSE (UNION { NoBootEvent(u) : u \in (IF w.c3 \in {"boot", "run"} THEN {} ELSE {w}) \cup Trouble(w) }) \cup {w}

\* The steps of the connect: the answer sends the next request, its absence backs off.
ThenSend(w, q) == IF w.resp THEN OrBackoff(Send(w, q)) ELSE WaitOrBackoff(w, Silent(w, w.st))

\* As if any answer to SetStorage would do.
StorageAnswered(w) == ThenSend(w, "mode")

\* WC_SETSTORAGE: the one answer whose code is looked at.
StorageConfirmed(w) == IF w.resp /\ ~w.ok THEN {ToBackoff(w)} ELSE ThenSend(w, "mode")

\* WC_GETMAC.
GotMac(w) ==
    IF w.resp THEN {[w EXCEPT !.await = "none", !.st = "assoc"]} ELSE WaitOrBackoff(w, Silent(w, "mac"))

\* WC_WAIT_ASSOC.
WaitAssoc(w) ==
    LET coming == /\ w.running /\ w.c3 = "run"
                  /\ Contains(w.wire, "connect") \/ w.c3w.assoc = "trying" \/ w.out # <<>>
    IN  CASE w.evc -> {[w EXCEPT !.evc = FALSE, !.link = TRUE, !.misses = 0, !.st = "up"]}
          [] ~w.evc /\ w.evd -> {ToBackoff(w)}
          [] OTHER -> WaitOrBackoff(w, ~coming)

\* WC_UP, WC_UP_RSSI.
Up(w) == IF w.evd THEN Reconnect(w)
         ELSE {w} \cup { IF u.st = "rssi" THEN u ELSE RssiMissed(u) : u \in Send(w, "rssi") }
UpRssi(w) ==
    CASE w.evd -> Reconnect(w)
      [] ~w.evd /\ w.resp -> {[w EXCEPT !.await = "none", !.misses = 0, !.st = "up"]}
      [] OTHER -> {w} \cup { RssiMissed(u) : u \in Late(w, Silent(w, "rssi")) }

\* WC_SCAN_START, WC_SCAN_NUM, WC_SCAN_REC, WC_SCAN_CLEAR.
ScanStep(w) ==
    CASE ~w.resp -> {w} \cup { ScanFinish(u) : u \in Late(w, Silent(w, w.st)) }
      [] w.resp /\ w.st = "scan" ->
            IF w.ok THEN { [u EXCEPT !.num = IF u.st = "num" THEN 0 ELSE @] : u \in OrFinish(Send(w, "num")) }
            ELSE {ScanFinish(w)}
      [] w.resp /\ w.st = "num" -> IF w.num > 0 THEN ScanSendRecord([w EXCEPT !.read = 0]) ELSE {ScanFinish(w)}
      [] w.resp /\ w.st = "rec" ->
            CASE w.read < w.num /\ w.read < ScanReadMax -> ScanSendRecord(w)
              [] w.read < w.num /\ w.read >= ScanReadMax -> OrFinish(Send(w, "clear"))
              [] OTHER -> {ScanFinish(w)}
      [] w.resp /\ w.st = "clear" -> {ScanFinish(w)}

\* As if the backoff ended without a restart of the C3.
BackoffResumes(w) == [w EXCEPT !.st = "down", !.link = FALSE]

\* WC_BACKOFF's end: a full restart of the C3.
BackoffOver(w) == [Stop(w) EXCEPT !.started = FALSE, !.link = FALSE, !.st = "down"]

Step(w) ==
    CASE w.st = "down" -> {[w EXCEPT !.st = "ready"]}
      [] w.st = "ready" -> WaitReady(w)
      [] w.st = "init" -> ThenSend(w, "storage")
      [] w.st = "storage" -> StorageConfirmed(w)
      [] w.st = "mode" -> ThenSend(w, IF w.only THEN "start" ELSE "cfg")
      [] w.st = "cfg" -> ThenSend(w, "start")
      [] w.st = "start" -> IF w.resp /\ w.only THEN ScanSendStart(w) ELSE ThenSend(w, "connect")
      [] w.st = "connect" -> ThenSend(w, "mac")
      [] w.st = "mac" -> GotMac(w)
      [] w.st = "assoc" -> WaitAssoc(w)
      [] w.st = "up" -> Up(w)
      [] w.st = "rssi" -> UpRssi(w)
      [] w.st \in Scanning -> ScanStep(w)
      [] w.st = "backoff" -> {w, BackoffOver(w)}

\* WC_FLASHING: until the worker reports back.
Flashing(w) ==
    CASE w.fdone = "no" -> {w}
      [] w.fdone = "ok" -> {[w EXCEPT !.fdone = "no", !.st = "down"]}
      [] w.fdone = "failed" -> {ToBackoff([w EXCEPT !.fdone = "no"])}

\* A boot announce later than the first: the C3 reset itself.
Rebooted(w) ==
    LET u == [w EXCEPT !.rebooted = FALSE]
    IN  IF w.st \notin {"down", "ready", "flashing", "backoff"} THEN {SlaveLost(u)} ELSE Step(u)

\* esp_wifi_ctrl_poll, after the intake.
PollRest(w) ==
    CASE w.paused \/ job \in {"auto", "console"} -> {w}
      [] ~(w.paused \/ job \in {"auto", "console"}) /\ ~w.cfg /\ ~w.only ->
            {IF w.started THEN [Stop(w) EXCEPT !.started = FALSE, !.st = "down"] ELSE w}
      [] ~(w.paused \/ job \in {"auto", "console"}) /\ (w.cfg \/ w.only) /\ w.st = "flashing" -> Flashing(w)
      [] OTHER ->
            LET u == IF w.started THEN w ELSE [StartC3(w) EXCEPT !.started = TRUE, !.st = "ready"]
            IN  IF u.rebooted THEN Rebooted(u) ELSE Step(u)

Poll ==
    /\ \E u \in ScanIntake(wc) : wc' \in PollRest(u)
    /\ wc' # wc
    /\ flashReq' = IF wc'.st = "flashing" /\ wc.st # "flashing" THEN "queued" ELSE flashReq
    /\ UNCHANGED <<scanReq, slot, job, sets>>
--------------------------------------------------------------------------------
(* What comes from the C3, and the C3 itself. *)

\* handle_rx_frame's boot announce, on_serial_frame: an answer sets its code, and counts when it is the awaited one.
OnFrame(w, f) ==
    CASE f.kind = "boot" -> [w EXCEPT !.rebooted = @ \/ w.ready, !.ready = TRUE]
      [] f.kind = "conn" -> [w EXCEPT !.evc = TRUE]
      [] f.kind = "disc" -> [w EXCEPT !.evd = TRUE]
      [] OTHER -> [w EXCEPT !.ok = @ /\ f.ok, !.num = IF f.kind = "num" THEN f.n ELSE @,
                   !.resp = @ \/ f.kind = w.await]

\* The slave's answer to a request; it keeps its settings in its flash until SetStorage(RAM).
C3Serves(w, q) ==
    LET answer(ok, n) == [w EXCEPT !.out = Append(@, [kind |-> q, ok |-> ok, n |-> n])]
        refuses == {[u EXCEPT !.out = Append(@, [kind |-> q, ok |-> FALSE, n |-> 0])] : u \in Trouble(w)}
    IN  CASE q = "init" -> {[answer(TRUE, 0) EXCEPT !.c3w.inited = TRUE]}
          [] q # "init" /\ ~w.c3w.inited -> {answer(FALSE, 0)}
          [] w.c3w.inited /\ q = "storage" -> {[answer(TRUE, 0) EXCEPT !.c3w.ram = TRUE]} \cup refuses
          [] w.c3w.inited /\ q = "cfg" -> {[answer(TRUE, 0) EXCEPT !.nvs = @ \/ ~w.c3w.ram]}
          [] w.c3w.inited /\ q = "connect" -> {[answer(TRUE, 0) EXCEPT !.c3w.assoc = "trying"]}
          [] w.c3w.inited /\ q = "scan" -> {answer(TRUE, 0)} \cup refuses
          [] w.c3w.inited /\ q = "num" -> {answer(TRUE, n) : n \in 0 .. MaxAps}
          [] OTHER -> {answer(TRUE, 0)}

\* esp_hosted_pump, esp_do_xact: one full-duplex transaction: a queued request out, a frame of the C3 in.
Exchange ==
    /\ wc.running /\ wc.c3 = "run" /\ (wc.wire # <<>> \/ wc.out # <<>>)
    /\ LET u == IF wc.out = <<>> THEN wc ELSE OnFrame([wc EXCEPT !.out = Tail(@)], Head(wc.out))
       IN  wc' \in IF wc.wire = <<>> THEN {u} ELSE C3Serves([u EXCEPT !.wire = Tail(@)], Head(wc.wire))
    /\ UNCHANGED <<scanReq, slot, flashReq, job, sets>>

C3Step(new) == wc' = new /\ UNCHANGED <<scanReq, slot, flashReq, job, sets>>
Event(w, k) == [w EXCEPT !.out = Append(@, [kind |-> k, ok |-> TRUE, n |-> 0])]

C3Boots == wc.c3 = "boot" /\ C3Step([Event(wc, "boot") EXCEPT !.c3 = "run"])
C3Joins == wc.c3 = "run" /\ wc.c3w.assoc = "trying" /\ C3Step([Event(wc, "conn") EXCEPT !.c3w.assoc = "yes"])
C3Dropped ==
    /\ wc.c3 = "run" /\ wc.c3w.assoc # "no"
    /\ \E u \in Trouble(wc) : C3Step([Event(u, "disc") EXCEPT !.c3w.assoc = "no"])
\* A crash, a brown-out, esp-reset-pulse; a hang.
C3Resets == wc.c3 = "run" /\ \E u \in Trouble(wc) : C3Step(Released(u))
C3Hangs == wc.c3 = "run" /\ \E u \in Trouble(wc) : C3Step([u EXCEPT !.c3 = "dead", !.out = <<>>, !.c3w = FreshC3])
--------------------------------------------------------------------------------
(* The worker and the console. *)

\* esp_rom_flash_start: into the ROM loader; esp_rom_flash_busy from here.
FlashStarts(who) ==
    IF slot THEN job' = who /\ wc' = [HeldInReset(wc) EXCEPT !.c3 = "rom"]
            ELSE job' = job /\ wc' = IF who = "auto" THEN [wc EXCEPT !.fdone = "failed"] ELSE wc

\* WK_ESP_FLASH: at once, or deferred while a capture, an upload or an update has the bus.
TakeFlash ==
    /\ flashReq = "queued" /\ job # "hold"
    /\ \/ job = "none" /\ flashReq' = "none" /\ FlashStarts("auto")
       \/ /\ flashReq' = "deferred" /\ UNCHANGED job
          /\ IF job = "none" THEN wc' \in Trouble(wc) ELSE UNCHANGED wc
    /\ UNCHANGED <<scanReq, slot, sets>>
RunDeferred ==
    /\ flashReq = "deferred" /\ job = "none" /\ flashReq' = "none" /\ FlashStarts("auto")
    /\ UNCHANGED <<scanReq, slot, sets>>

\* esp_wifi_ctrl_reload.
Reload(w) ==
    LET u == IF w.run > 0 THEN ScanPublish(w) ELSE w
    IN  [IF w.started THEN Stop(u) ELSE u EXCEPT !.only = FALSE, !.started = FALSE, !.tried = FALSE,
         !.link = FALSE, !.st = "down"]

\* net_wifi_hold_for_flash.
Hold(w) == Stop([w EXCEPT !.paused = TRUE])
Unhold(w) == Reload([w EXCEPT !.paused = FALSE])

\* esp_rom_flash_poll's end: the flashed C3 is booted, else left in reset; flash_esp32_done lets the control go on.
FlashEnds ==
    /\ job \in {"auto", "console"}
    /\ \E ok \in BOOLEAN :
          LET written == [wc EXCEPT !.img = IF ok THEN "app" ELSE "none"]
              left == IF ok THEN Released(written) ELSE HeldInReset(written)
          IN  /\ ok => wc.c3 = "rom"
              /\ \E u \in IF ok \/ wc.c3 # "rom" THEN {left} ELSE Trouble(left) :
                    wc' = IF job = "auto" THEN [u EXCEPT !.fdone = IF ok THEN "ok" ELSE "failed"] ELSE Unhold(u)
    /\ job' = "none"
    /\ UNCHANGED <<scanReq, slot, flashReq, sets>>

Command == sets < MaxSets /\ sets' = sets + 1

\* wifi-set, wifi-clear: the settings are stored, the control reloads (net_wifi_reload_after_reply).
WifiSet ==
    /\ Command /\ job # "hold"
    /\ \E c \in BOOLEAN : wc' = [Reload(wc) EXCEPT !.cfg = c]
    /\ UNCHANGED <<scanReq, slot, flashReq, job>>

\* flash-esp32.
ConsoleFlash ==
    /\ Command /\ job = "none" /\ slot
    /\ job' = "console" /\ wc' = [HeldInReset(Hold(wc)) EXCEPT !.c3 = "rom"]
    /\ UNCHANGED <<scanReq, slot, flashReq>>

\* net_wifi_wipe_c3, flash-esp32-sync: the worker holds the C3 in its ROM loader and waits.
HoldC3 ==
    /\ Command /\ job = "none" /\ job' = "hold" /\ wc' = [Hold(wc) EXCEPT !.c3 = "rom"]
    /\ UNCHANGED <<scanReq, slot, flashReq>>
ReleaseC3 ==
    /\ job = "hold" /\ job' = "none"
    /\ \E wiped \in BOOLEAN : wc' = [HeldInReset(Unhold(wc)) EXCEPT !.nvs = @ /\ ~wiped]
    /\ UNCHANGED <<scanReq, slot, flashReq, sets>>

\* blob_store_on_installed, esp_wifi_ctrl_image_installed.
InstallImage ==
    /\ Command /\ job = "none" /\ slot' = TRUE /\ wc' = [wc EXCEPT !.tried = FALSE]
    /\ UNCHANGED <<scanReq, flashReq, job>>

Next ==
    \/ ScanRequest \/ Poll \/ Exchange \/ C3Boots \/ C3Joins \/ C3Dropped \/ C3Resets \/ C3Hangs
    \/ TakeFlash \/ RunDeferred \/ FlashEnds \/ WifiSet \/ ConsoleFlash \/ HoldC3 \/ ReleaseC3 \/ InstallImage

\* The net task polls, the worker runs, a C3 that runs boots, answers and associates.
Fairness ==
    /\ WF_wcVars(Poll) /\ WF_wcVars(Exchange) /\ WF_wcVars(C3Boots) /\ WF_wcVars(C3Joins)
    /\ WF_wcVars(TakeFlash) /\ WF_wcVars(RunDeferred) /\ WF_wcVars(FlashEnds) /\ WF_wcVars(ReleaseC3)

Spec == Init /\ [][Next]_wcVars /\ Fairness
--------------------------------------------------------------------------------
(* Properties. *)

\* The credentials never reach the C3's flash: the control sends them only to a C3 that confirmed RAM storage since
\* its last start, also when the C3 restarts, answers late or refuses in between.
CredsInRam == ~wc.nvs

\* A scan that was asked for is answered, whatever happens to the link, the C3, the settings or a flash meanwhile.
ScanAnswered == []<>(scanReq = wc.done)

\* A link that lwIP routes into is one the C3 has, or it is taken down: a C3 that died, restarted or lost its
\* association is noticed.
LinkTrue == ~wc.link \/ wc.c3w.assoc = "yes"
LinkTold == []<>LinkTrue

\* A pod that stays configured is connected again and again, or its C3 has no image and cannot get one.
Joined == wc.st \in {"up", "rssi"} \cup Scanning \/ (wc.img = "none" /\ (wc.tried \/ ~slot))
Joins == []<>(wc.cfg => Joined)

================================================================================
