--------------------------------- MODULE LaPins ---------------------------------
(***************************************************************************)
(* The logic-analyzer pins (la_pins.c) and everything that takes them: the *)
(* gpio and step commands (command_handler_pins.c), the UART proxy, the    *)
(* debug probe, the SPI master, the emulated sensor and GPS receiver       *)
(* (command_handler_uart.c, _dap.c, _spi.c, _gps.c; sensor_sim.c,          *)
(* gps_sim.c), with the gateware's engines (signal_engine.c), the pull     *)
(* resistors (i2c_bus.c), the bank voltage, and gateware reloads.  All of  *)
(* it runs on the hardware worker; a connection is closed under it.        *)
(***************************************************************************)
EXTENDS Naturals, FiniteSets

CONSTANTS
    LaSet, UpPins, DownPins,   \* the pins; those with a pull-up, with a pull-down resistor
    SpiWidth,                  \* signals of an SPI session (four in the code)
    Conns, NoConn, NoPin,
    MaxCmds,                   \* commands
    MaxEvents                  \* reloads, closes, I2C failures

ConstantsOK ==
    /\ UpPins \subseteq LaSet /\ DownPins \subseteq LaSet \ UpPins
    /\ NoPin \notin LaSet /\ NoConn \notin Conns
    /\ SpiWidth \in Nat \ {0} /\ MaxCmds \in Nat /\ MaxEvents \in Nat

VARIABLES
    s_pin,                 \* pin -> function, with the mode and level of a gpio
    latch,                 \* pin -> what GPIO_SET drives: 0, 1, or 2 for high-Z
    fab,                   \* engine of the fabric -> the pins it runs on
    uart2_gw,              \* this gateware has the SPI master and UART2
    swd_armed_local, spi_armed_local, uart_armed_local,
    sensor, sensor_rearm,  \* the active sensor's pins (none: not active), and its flag
    gps, gps_rearm,        \* s_active with its pin, s_rearm
    s_step,                \* the train the firmware watches: the pins it claimed for it
    conn_proto, closing,   \* what a connection's bytes are; closed, its teardown not run yet
    uart_proxy_conn, uart_pins, uart_rearm_conn,
    uart_plus_pending,     \* "+++" seen, its trailing guard not over
    uart_rx_pu_ch, uart_rx_pu_prev,
    pulls,                 \* s_la_pu_shadow: the resistors engaged
    s_la_vccio_mv,
    i2c_failed,            \* a write to the expander failed
    p_cmds, p_events

tableVars == <<s_pin, latch>>
fabVars == <<fab, uart2_gw>>
swdVars == <<swd_armed_local, spi_armed_local>>
simVars == <<sensor, sensor_rearm, gps, gps_rearm>>
uartVars == <<uart_armed_local, uart_proxy_conn, uart_pins, uart_rearm_conn, uart_plus_pending,
              uart_rx_pu_ch, uart_rx_pu_prev>>
connVars == <<conn_proto, closing>>
bankVars == <<pulls, s_la_vccio_mv, i2c_failed>>
lpVars == <<tableVars, fabVars, swdVars, simVars, s_step, uartVars, connVars, bankVars, p_cmds, p_events>>

Gpio == {"in", "out0", "out1", "od0", "od1"}
Fns == {"none", "uart", "swd_clk", "swd_dio", "i2c", "step", "step_dir", "spi", "gps"} \cup Gpio
Engines == {"uart", "swd", "spi", "i2c", "gps", "step"}
NoStep == [active |-> FALSE, step |-> NoPin, dir |-> NoPin]

Init ==
    /\ s_pin = [p \in LaSet |-> "none"] /\ latch = [p \in LaSet |-> 2]
    /\ fab = [e \in Engines |-> {}] /\ uart2_gw = TRUE
    /\ swd_armed_local = FALSE /\ spi_armed_local = FALSE /\ uart_armed_local = FALSE
    /\ sensor = {} /\ sensor_rearm = FALSE /\ gps = NoPin /\ gps_rearm = FALSE /\ s_step = NoStep
    /\ conn_proto = [c \in Conns |-> "json"] /\ closing = {}
    /\ uart_proxy_conn = NoConn /\ uart_pins = {} /\ uart_rearm_conn = NoConn /\ uart_plus_pending = FALSE
    /\ uart_rx_pu_ch = NoPin /\ uart_rx_pu_prev = FALSE
    /\ pulls = {} /\ s_la_vccio_mv = "unset" /\ i2c_failed = FALSE
    /\ p_cmds = 0 /\ p_events = 0
--------------------------------------------------------------------------------
\* pull_down_reason: what cannot share its line with an engaged pull-down.
IdlesHigh(fn) == fn \in {"od0", "od1", "uart", "gps", "i2c", "swd_dio"}

\* As if a claim did not look at the resistors.
ClaimIgnoresPulls(fn, ps, free) == \A p \in ps : s_pin[p] \in free \cup {"none"}

\* la_pins_check_claim (la_claim_or_error): every pin free, or of a function the caller replaces.
CheckClaim(fn, ps, free) ==
    /\ \A p \in ps : s_pin[p] \in free \cup {"none"}
    /\ IdlesHigh(fn) => ps \cap DownPins \cap pulls = {}

\* la_pins_check_pull_enable.
CheckPull(p) == ~(p \in DownPins /\ IdlesHigh(s_pin[p]))

\* la_pins_claim, la_pins_release_fn.
Claim(t, fn, ps) == [p \in LaSet |-> IF p \in ps THEN fn ELSE t[p]]
ReleaseFn(t, fns) == [p \in LaSet |-> IF t[p] \in fns THEN "none" ELSE t[p]]

\* la_pins_drive: what GPIO_SET gets for a pin.
Drive(fn) == CASE fn \in {"out0", "od0"} -> 0 [] fn = "out1" -> 1 [] OTHER -> 2

\* As if only gpio pins held the voltage.
MayChangeUnderSession(mv) == mv = s_la_vccio_mv \/ \A p \in LaSet : s_pin[p] \notin Gpio

\* la_pins_check_voltage_change.
MayChangeVoltage(mv) == mv = s_la_vccio_mv \/ \A p \in LaSet : s_pin[p] = "none"

\* A JSON command of an open connection, the bank's voltage chosen (require_la_voltage).
Cmd(c) ==
    /\ conn_proto[c] = "json" /\ c \notin closing
    /\ p_cmds < MaxCmds /\ p_cmds' = p_cmds + 1 /\ UNCHANGED p_events
LaCmd(c) == Cmd(c) /\ s_la_vccio_mv # "unset"

Event == p_events < MaxEvents /\ p_events' = p_events + 1 /\ UNCHANGED p_cmds
--------------------------------------------------------------------------------
\* la_gpio_req_parse: pins with a mode and its level, with a level alone, or off.
GpioRequests ==
    [las : (SUBSET LaSet) \ {{}}, fn : Gpio \cup {"none"}] \cup [las : (SUBSET LaSet) \ {{}}, level : {0, 1}]

\* la_pins_check_level: a level is for outputs and open drains.
Levelled(fn, v) == IF fn \in {"out0", "out1"} THEN IF v = 1 THEN "out1" ELSE "out0"
                                             ELSE IF v = 1 THEN "od1" ELSE "od0"

\* la_pins_gpio_apply: for pins that are free or gpios, all of them or none.
GpioApply(r) ==
    IF "level" \in DOMAIN r
    THEN /\ \A p \in r.las : s_pin[p] \in Gpio \ {"in"}
         /\ s_pin' = [p \in LaSet |-> IF p \in r.las THEN Levelled(s_pin[p], r.level) ELSE s_pin[p]]
    ELSE CheckClaim(r.fn, r.las, Gpio) /\ s_pin' = Claim(s_pin, r.fn, r.las)

\* As if the table changed and the wire did not follow.
GpioTableOnly(c) ==
    /\ LaCmd(c) /\ \E r \in GpioRequests : GpioApply(r)
    /\ UNCHANGED <<latch, fabVars, swdVars, simVars, s_step, uartVars, connVars, bankVars>>

\* handle_gpio, and command_handler_dig_output for one output: the wire follows the table
\* (la_pins_drive_mask).
GpioSet(c) ==
    /\ LaCmd(c)
    /\ \E r \in GpioRequests :
          GpioApply(r) /\ latch' = [p \in LaSet |-> IF p \in r.las THEN Drive(s_pin'[p]) ELSE latch[p]]
    /\ UNCHANGED <<fabVars, swdVars, simVars, s_step, uartVars, connVars, bankVars>>

\* step_finish: the claims of the train are given back, the direction line is let go.
Finished(t, l) ==
    /\ s_pin' = [p \in LaSet |-> IF (p = s_step.step /\ t[p] = "step")
                                    \/ (p = s_step.dir /\ t[p] = "step_dir") THEN "none" ELSE t[p]]
    /\ latch' = [p \in LaSet |-> IF p = s_step.dir /\ t[p] = "step_dir" THEN 2 ELSE l[p]]

\* la_pins_plan_step: a free pin is claimed, a gpio output is pulsed in place.
StepPin(p) == s_pin[p] \in {"none", "out0", "out1"}

\* la_step_begin: the direction first, then the train.
StepBegin(c) ==
    /\ LaCmd(c) /\ ~s_step.active /\ fab["step"] = {}
    /\ \E p \in LaSet, d \in LaSet \cup {NoPin}, v \in {0, 1} :
          /\ p # d /\ StepPin(p) /\ (d # NoPin => StepPin(d))
          /\ fab' = [fab EXCEPT !["step"] = {p}]
          /\ s_step' = [active |-> TRUE, step |-> IF s_pin[p] = "none" THEN p ELSE NoPin,
                        dir |-> IF d # NoPin /\ s_pin[d] = "none" THEN d ELSE NoPin]
          /\ s_pin' = [q \in LaSet |->
                CASE q = p /\ s_pin[p] = "none" -> "step"
                  [] q = d -> (CASE s_pin[d] = "none" -> "step_dir" [] v = 1 -> "out1" [] OTHER -> "out0")
                  [] OTHER -> s_pin[q]]
          /\ latch' = IF d = NoPin THEN latch ELSE [latch EXCEPT ![d] = v]
    /\ UNCHANGED <<uart2_gw, swdVars, simVars, uartVars, connVars, bankVars>>

\* The train ends in the fabric.
TrainEnds ==
    /\ fab["step"] # {} /\ fab' = [fab EXCEPT !["step"] = {}]
    /\ UNCHANGED <<tableVars, uart2_gw, swdVars, simVars, s_step, uartVars, connVars, bankVars, p_cmds, p_events>>

\* la_step_poll.
StepPoll ==
    /\ s_step.active /\ fab["step"] = {}
    /\ Finished(s_pin, latch) /\ s_step' = NoStep
    /\ UNCHANGED <<fabVars, swdVars, simVars, uartVars, connVars, bankVars, p_cmds, p_events>>

\* pca9555_set_la_pullup: only at 3.3 V; a failed write leaves the switch and its shadow.
SetPull(p, on, ok) == pulls' = IF ~ok THEN pulls ELSE IF on THEN pulls \cup {p} ELSE pulls \ {p}

\* handle_la with "pullup".
PullCmd(c) ==
    /\ LaCmd(c)
    /\ \E p \in UpPins \cup DownPins, on \in BOOLEAN :
          /\ on => CheckPull(p) /\ s_la_vccio_mv = "3v3"
          /\ SetPull(p, on, TRUE)
    /\ UNCHANGED <<tableVars, fabVars, swdVars, simVars, s_step, uartVars, connVars, s_la_vccio_mv, i2c_failed>>

\* handle_la: the fields tell a step train from a pull.
LaCommand(c) == StepBegin(c) \/ PullCmd(c)

\* la_pullups_all_off: what the expander does not take stays closed, and is not reported.
PullupsAllOff == pulls' \in SUBSET pulls /\ i2c_failed' = (i2c_failed \/ pulls' # {})

\* la_vccio_set_mv: the pulls go off before the bank drops to 1.8 V.
SetMv(mv) ==
    /\ s_la_vccio_mv' = mv
    /\ IF mv = "1v8" THEN PullupsAllOff ELSE UNCHANGED <<pulls, i2c_failed>>

\* handle_la_voltage.
VoltageCmd(c) ==
    /\ Cmd(c)
    /\ \E mv \in {"1v8", "3v3"} : MayChangeVoltage(mv) /\ SetMv(mv)
    /\ UNCHANGED <<tableVars, fabVars, swdVars, simVars, s_step, uartVars, connVars>>
--------------------------------------------------------------------------------
\* fpga_i2c_sensor_config: two different pins.
SensorConfigOK(sda, scl) == sda # scl

\* sensor_sim_start: a running sensor is stopped, then the new one armed; what it returns.
SensorSimStart(sda, scl) ==
    /\ sensor_rearm' = FALSE
    /\ LET ps == IF SensorConfigOK(sda, scl) THEN {sda, scl} ELSE {}
       IN  sensor' = ps /\ fab' = [fab EXCEPT !["i2c"] = ps]

\* handle_sensor_start: the pins of a sensor that started move to it.
SensorStart(c) ==
    /\ LaCmd(c)
    /\ \E sda \in LaSet, scl \in LaSet :
          /\ CheckClaim("i2c", {sda, scl}, {"i2c"})
          /\ SensorSimStart(sda, scl)
          /\ s_pin' = IF SensorConfigOK(sda, scl) THEN Claim(ReleaseFn(s_pin, {"i2c"}), "i2c", {sda, scl})
                                                   ELSE s_pin
    /\ UNCHANGED <<latch, uart2_gw, swdVars, gps, gps_rearm, s_step, uartVars, connVars, bankVars>>

\* handle_sensor_stop.
SensorStop(c) ==
    /\ Cmd(c) /\ sensor' = {} /\ sensor_rearm' = FALSE
    /\ fab' = [fab EXCEPT !["i2c"] = IF sensor # {} THEN {} ELSE @]
    /\ s_pin' = ReleaseFn(s_pin, {"i2c"})
    /\ UNCHANGED <<latch, uart2_gw, swdVars, gps, gps_rearm, s_step, uartVars, connVars, bankVars>>

\* gps_sim_start over fpga_uart2_config: a running receiver is replaced.
GpsSimStart(p) == gps' = p /\ gps_rearm' = FALSE /\ fab' = [fab EXCEPT !["gps"] = {p}]

\* handle_gps_start.
GpsStart(c) ==
    /\ LaCmd(c) /\ uart2_gw
    /\ \E p \in LaSet :
          /\ CheckClaim("gps", {p}, {"gps"})
          /\ GpsSimStart(p)
          /\ s_pin' = Claim(ReleaseFn(s_pin, {"gps"}), "gps", {p})
    /\ UNCHANGED <<latch, uart2_gw, swdVars, sensor, sensor_rearm, s_step, uartVars, connVars, bankVars>>

\* handle_gps_stop.
GpsStop(c) ==
    /\ Cmd(c) /\ gps' = NoPin /\ gps_rearm' = FALSE
    /\ fab' = [fab EXCEPT !["gps"] = {}] /\ s_pin' = ReleaseFn(s_pin, {"gps"})
    /\ UNCHANGED <<latch, uart2_gw, swdVars, sensor, sensor_rearm, s_step, uartVars, connVars, bankVars>>

\* sensor_poll and gps_poll after a reload: armed again on the new fabric, or given up when the
\* gateware lacks UART2.
RearmPoll ==
    /\ sensor_rearm \/ gps_rearm
    /\ sensor_rearm' = FALSE /\ gps_rearm' = FALSE
    /\ LET lost == gps_rearm /\ ~uart2_gw
       IN  /\ gps' = IF lost THEN NoPin ELSE gps
           /\ s_pin' = IF lost THEN ReleaseFn(s_pin, {"gps"}) ELSE s_pin
           /\ fab' = [fab EXCEPT !["i2c"] = IF sensor_rearm THEN sensor ELSE @,
                                 !["gps"] = IF gps_rearm /\ ~lost THEN {gps} ELSE @]
    /\ UNCHANGED <<latch, uart2_gw, swdVars, sensor, s_step, uartVars, connVars, bankVars, p_cmds, p_events>>
--------------------------------------------------------------------------------
\* As if a pull the session engaged stayed.
UartEndKeepsPull ==
    /\ fab' = [fab EXCEPT !["uart"] = {}] /\ uart_armed_local' = FALSE
    /\ s_pin' = ReleaseFn(s_pin, {"uart"})
    /\ uart_rx_pu_ch' = NoPin /\ uart_proxy_conn' = NoConn /\ uart_plus_pending' = FALSE /\ UNCHANGED pulls

\* uart_proxy_end (conn_proto apart): the soft UART off, the RX pull as it was, the pins free.
UartEnd ==
    /\ fab' = [fab EXCEPT !["uart"] = {}] /\ uart_armed_local' = FALSE
    /\ s_pin' = ReleaseFn(s_pin, {"uart"})
    /\ uart_rx_pu_ch' = NoPin /\ uart_proxy_conn' = NoConn /\ uart_plus_pending' = FALSE
    /\ IF uart_rx_pu_ch # NoPin THEN SetPull(uart_rx_pu_ch, uart_rx_pu_prev, TRUE) ELSE UNCHANGED pulls

\* fpga_uart_config: one session, two different pins.
UartConfig(rx, tx) ==
    /\ ~uart_armed_local /\ rx # tx
    /\ uart_armed_local' = TRUE /\ fab' = [fab EXCEPT !["uart"] = {rx, tx}]

\* handle_uart_proxy_start: the pins are claimed and the UART armed; unless the FPGA answers both are
\* undone; RX is held high by its pull-up where it has one.
UartStart(c) ==
    /\ LaCmd(c)
    /\ \E rx \in LaSet, tx \in LaSet :
          /\ CheckClaim("uart", {rx, tx}, {}) /\ UartConfig(rx, tx)
          /\ LET hold == rx \in UpPins /\ s_la_vccio_mv = "3v3"
             IN  /\ uart_rx_pu_ch' = IF hold THEN rx ELSE NoPin
                 /\ uart_rx_pu_prev' = (hold /\ rx \in pulls)
                 /\ pulls' = IF hold THEN pulls \cup {rx} ELSE pulls
          /\ s_pin' = Claim(s_pin, "uart", {rx, tx})
          /\ uart_proxy_conn' = c /\ uart_pins' = {rx, tx} /\ uart_plus_pending' = FALSE
    /\ conn_proto' = [conn_proto EXCEPT ![c] = "uart"]
    /\ UNCHANGED <<latch, uart2_gw, swdVars, simVars, s_step, uart_rearm_conn, closing, s_la_vccio_mv, i2c_failed>>

\* uart_proxy_receive: a connection in UART mode writes to the DUT; the bytes may be an escape.
UartReceive(c) ==
    /\ conn_proto[c] = "uart" /\ c \notin closing
    /\ uart_plus_pending' = ~uart_plus_pending
    /\ UNCHANGED <<tableVars, fabVars, swdVars, simVars, s_step, uart_armed_local, uart_proxy_conn, uart_pins,
                   uart_rearm_conn, uart_rx_pu_ch, uart_rx_pu_prev, connVars, bankVars, p_cmds, p_events>>

\* uart_proxy_poll: a client that is gone ends the session and is closed; the escape's guard time
\* ends it and the connection is back to JSON.
UartPoll ==
    /\ uart_proxy_conn # NoConn /\ UartEnd
    /\ \/ closing' = closing \cup {uart_proxy_conn} /\ Event /\ UNCHANGED conn_proto
       \/ /\ uart_plus_pending /\ conn_proto' = [conn_proto EXCEPT ![uart_proxy_conn] = "json"]
          /\ UNCHANGED <<closing, p_cmds, p_events>>
    /\ UNCHANGED <<latch, uart2_gw, swdVars, simVars, s_step, uart_pins, uart_rearm_conn, uart_rx_pu_prev,
                   s_la_vccio_mv, i2c_failed>>

\* uart_rearm_poll: the soft UART on the new fabric, or the session ended and its connection closed.
UartRearm ==
    /\ uart_rearm_conn # NoConn /\ uart_rearm_conn' = NoConn
    /\ \/ /\ uart_proxy_conn # uart_rearm_conn
          /\ UNCHANGED <<s_pin, fab, uart_armed_local, uart_proxy_conn, uart_plus_pending, uart_rx_pu_ch,
                         pulls, closing>>
       \/ /\ uart_proxy_conn = uart_rearm_conn
          /\ uart_armed_local' = TRUE /\ fab' = [fab EXCEPT !["uart"] = uart_pins]
          /\ UNCHANGED <<s_pin, uart_proxy_conn, uart_plus_pending, uart_rx_pu_ch, pulls, closing>>
       \/ uart_proxy_conn = uart_rearm_conn /\ UartEnd /\ closing' = closing \cup {uart_rearm_conn}
    /\ UNCHANGED <<latch, uart2_gw, swdVars, simVars, s_step, uart_pins, uart_rx_pu_prev, conn_proto,
                   s_la_vccio_mv, i2c_failed, p_cmds, p_events>>
--------------------------------------------------------------------------------
\* swd_disarm_and_release; fpga_swd_disarm does nothing unless armed.
SwdEnd ==
    /\ swd_armed_local' = FALSE
    /\ fab' = [fab EXCEPT !["swd"] = IF swd_armed_local THEN {} ELSE @]
    /\ s_pin' = ReleaseFn(s_pin, {"swd_clk", "swd_dio"})

\* fpga_swd_arm, fpga_spi_arm: one engine for both.
EngineFree == ~swd_armed_local /\ ~spi_armed_local

\* handle_dap_start.
DapStart(c) ==
    /\ LaCmd(c) /\ EngineFree
    /\ \E clk \in LaSet : \E dio \in LaSet \ {clk} :
          /\ CheckClaim("swd_clk", {clk}, {}) /\ CheckClaim("swd_dio", {dio}, {})
          /\ fab' = [fab EXCEPT !["swd"] = {clk, dio}]
          /\ s_pin' = Claim(Claim(s_pin, "swd_clk", {clk}), "swd_dio", {dio})
    /\ swd_armed_local' = TRUE /\ conn_proto' = [conn_proto EXCEPT ![c] = "dap"]
    /\ UNCHANGED <<latch, uart2_gw, spi_armed_local, simVars, s_step, uartVars, closing, bankVars>>

\* dap_proxy_receive: a zero-length frame leaves, a reader that stalls is closed (dap_dead_conn).
DapFrame(c) ==
    /\ conn_proto[c] = "dap" /\ c \notin closing
    /\ \/ SwdEnd /\ conn_proto' = [conn_proto EXCEPT ![c] = "json"] /\ UNCHANGED closing
       \/ closing' = closing \cup {c} /\ UNCHANGED <<s_pin, fab, swd_armed_local, conn_proto>>
    /\ UNCHANGED <<latch, uart2_gw, spi_armed_local, simVars, s_step, uartVars, bankVars, p_cmds, p_events>>

\* fpga_swd_poll and dap_poll: an idle session is disarmed and its pins freed.
DapIdle ==
    /\ Event /\ swd_armed_local /\ SwdEnd
    /\ UNCHANGED <<latch, uart2_gw, spi_armed_local, simVars, s_step, uartVars, connVars, bankVars>>

\* handle_spi_start.
SpiStart(c) ==
    /\ LaCmd(c) /\ uart2_gw /\ EngineFree
    /\ \E ps \in {q \in SUBSET LaSet : Cardinality(q) = SpiWidth} :
          /\ CheckClaim("spi", ps, {})
          /\ fab' = [fab EXCEPT !["spi"] = ps] /\ s_pin' = Claim(s_pin, "spi", ps)
    /\ spi_armed_local' = TRUE
    /\ UNCHANGED <<latch, uart2_gw, swd_armed_local, simVars, s_step, uartVars, connVars, bankVars>>

\* handle_spi_stop over spi_session_end.
SpiStop(c) ==
    /\ Cmd(c) /\ spi_armed_local' = FALSE
    /\ fab' = [fab EXCEPT !["spi"] = {}] /\ s_pin' = ReleaseFn(s_pin, {"spi"})
    /\ UNCHANGED <<latch, uart2_gw, swd_armed_local, simVars, s_step, uartVars, connVars, bankVars>>
--------------------------------------------------------------------------------
\* As if a reload left the debug probe's claims.
ReleasedByReloadButSwd == {"spi", "step", "step_dir"}

\* The functions whose engines do not survive a reload.
ReleasedByReload == {"swd_clk", "swd_dio", "spi", "step", "step_dir"}

\* command_handler_on_gateware_reconfigured: the fabric and its latches start over; gpio lines are
\* driven again, the UART, the sensor and the GPS receiver wait for the next poll.
Reconfigured ==
    /\ Event /\ uart2_gw' \in BOOLEAN
    /\ fab' = [e \in Engines |-> {}]
    /\ s_pin' = ReleaseFn(s_pin, ReleasedByReload)
    /\ latch' = [p \in LaSet |-> IF s_pin[p] \in Gpio THEN Drive(s_pin[p]) ELSE 2]
    /\ swd_armed_local' = FALSE /\ spi_armed_local' = FALSE /\ s_step' = NoStep
    /\ sensor_rearm' = (sensor # {}) /\ gps_rearm' = (gps # NoPin)
    /\ uart_rearm_conn' = uart_proxy_conn
    /\ UNCHANGED <<sensor, gps, uart_armed_local, uart_proxy_conn, uart_pins, uart_plus_pending,
                   uart_rx_pu_ch, uart_rx_pu_prev, connVars, bankVars>>

\* The peer or the net task closes a connection.
Closes(c) ==
    /\ Event /\ c \notin closing /\ closing' = closing \cup {c}
    /\ UNCHANGED <<tableVars, fabVars, swdVars, simVars, s_step, uartVars, conn_proto, bankVars>>

\* uart_proxy_conn_closed and dap_conn_closed, in the worker's teardown; the slot is free again.
ConnClosed(c) ==
    /\ c \in closing /\ closing' = closing \ {c} /\ conn_proto' = [conn_proto EXCEPT ![c] = "json"]
    /\ \/ /\ conn_proto[c] = "uart" \/ uart_proxy_conn = c
          /\ UartEnd /\ UNCHANGED swd_armed_local
       \/ /\ conn_proto[c] = "dap" /\ uart_proxy_conn # c
          /\ SwdEnd /\ UNCHANGED <<uart_armed_local, uart_proxy_conn, uart_plus_pending, uart_rx_pu_ch, pulls>>
       \/ /\ conn_proto[c] = "json" /\ uart_proxy_conn # c
          /\ UNCHANGED <<s_pin, fab, swd_armed_local, uart_armed_local, uart_proxy_conn,
                         uart_plus_pending, uart_rx_pu_ch, pulls>>
    /\ UNCHANGED <<latch, uart2_gw, spi_armed_local, simVars, s_step, uart_pins, uart_rearm_conn, uart_rx_pu_prev,
                   s_la_vccio_mv, i2c_failed, p_cmds, p_events>>

Next ==
    \/ \E c \in Conns :
          \/ GpioSet(c) \/ LaCommand(c) \/ VoltageCmd(c) \/ SensorStart(c) \/ SensorStop(c)
          \/ GpsStart(c) \/ GpsStop(c) \/ UartStart(c) \/ UartReceive(c) \/ DapStart(c) \/ DapFrame(c)
          \/ SpiStart(c) \/ SpiStop(c) \/ Closes(c) \/ ConnClosed(c)
    \/ TrainEnds \/ StepPoll \/ RearmPoll \/ UartPoll \/ UartRearm \/ DapIdle \/ Reconfigured

Spec == Init /\ [][Next]_lpVars
--------------------------------------------------------------------------------
\* The types of the pins' state.
TypeOK ==
    /\ s_pin \in [LaSet -> Fns] /\ latch \in [LaSet -> 0..2] /\ fab \in [Engines -> SUBSET LaSet]
    /\ conn_proto \in [Conns -> {"json", "uart", "dap"}] /\ closing \subseteq Conns
    /\ uart_proxy_conn \in Conns \cup {NoConn} /\ gps \in LaSet \cup {NoPin} /\ sensor \subseteq LaSet
    /\ pulls \subseteq UpPins \cup DownPins /\ s_la_vccio_mv \in {"unset", "1v8", "3v3"}

OwnFns == [uart |-> {"uart"}, swd |-> {"swd_clk", "swd_dio"}, spi |-> {"spi"}, i2c |-> {"i2c"}, gps |-> {"gps"}]
Coming(e) == CASE e = "i2c" -> sensor_rearm
               [] e = "gps" -> gps_rearm
               [] e = "uart" -> uart_rearm_conn # NoConn
               [] OTHER -> FALSE

\* la_pins.h, "gives every pin exactly ONE function": through starts, stops, closes and reloads an
\* engine of the fabric runs only on pins the table shows as its own, a pin shows a session only
\* while that session's engine runs or waits to be armed again, and a free or gpio pin is driven as
\* the table says.
OneFunction ==
    /\ \A e \in DOMAIN OwnFns : \A p \in fab[e] : s_pin[p] \in OwnFns[e]
    /\ \A e \in DOMAIN OwnFns \ {"i2c"}, p \in LaSet :
          s_pin[p] \in OwnFns[e] => p \in fab[e] \/ Coming(e)
    /\ \A p \in LaSet : s_pin[p] \in Gpio \cup {"none"} => latch[p] = Drive(s_pin[p])

\* la_pins.c and i2c_bus.c: no function that idles high has a pull-down on its line; at 1.8 V a 3.3 V
\* pull is closed only if the expander failed; a pull the UART session closed is open after it.
PullsFit ==
    /\ \A p \in DownPins \cap pulls : ~IdlesHigh(s_pin[p])
    /\ s_la_vccio_mv = "1v8" /\ pulls # {} => i2c_failed
    /\ (uart_rx_pu_ch # NoPin) => uart_proxy_conn # NoConn

\* handle_la_voltage: the bank is never switched under a session, whatever closed, was reloaded or
\* was started in between; and a session's end puts the RX pull back.
BankChanges ==
    /\ s_la_vccio_mv' # s_la_vccio_mv => \A e \in DOMAIN OwnFns : fab[e] = {}
    /\ uart_rx_pu_ch # NoPin /\ uart_rx_pu_ch' = NoPin => (uart_rx_pu_ch \in pulls') = uart_rx_pu_prev
BankSteady == [][BankChanges]_lpVars

================================================================================
