------------------------------- MODULE UartLines -------------------------------
(* The bytes of the UART proxy and of the simulated GPS receiver: the TX staging *)
(* ring and the soft UART wrappers of signal_engine.c, the polls of              *)
(* command_handler_uart.c and gps_sim.c.  The fabric holds a TX FIFO that drops  *)
(* what is written while it is full and reports only full and empty, an RX FIFO  *)
(* with a sticky overflow bit that every status read clears, and UART2's TX FIFO.*)
(* Bytes are numbered: the n-th byte accepted from the client, the n-th byte the *)
(* DUT sent, the n-th byte of the staged GPS epoch.                              *)
EXTENDS Naturals, Sequences

CONSTANTS Ring,      \* UART_TX_RING
          TxFifo,    \* UART_TX_FIFO
          RxFifo,    \* FPGA_UART_RX_FIFO
          Fifo2,     \* FPGA_UART2_FIFO
          Epoch,     \* the bytes of one GPS epoch
          ClientRoom,      \* what the connection's ring takes
          MaxBytes, MaxDut, MaxEpochs, MaxSwaps

ConstantsOK ==
    /\ {Ring, TxFifo, RxFifo, Fifo2, Epoch, ClientRoom, MaxBytes, MaxDut, MaxEpochs, MaxSwaps} \subseteq Nat
    /\ 0 \notin {Ring, TxFifo, RxFifo, Fifo2, Epoch, ClientRoom}

VARIABLES
    s_utx, s_utx_head, s_utx_count,  \* the staging ring
    taken,          \* bytes taken from the client into the ring
    txf,            \* the fabric's TX FIFO
    onLine,         \* the last byte of the session the DUT received
    rxf, rxOvf,     \* the fabric's RX FIFO and its sticky overflow
    s_uart_rx_ovf,
    dutSent, toClient, rxLost,   \* rxLost: history, bytes were lost outside an upload
    roomLeft,
    uploading, uart_upload_suspended,
    rearm,          \* the fabric was reconfigured: uart_rearm_conn and s_rearm
    s_stage_off, s_stage_len, txf2, onLine2,
    epochs, swaps

utVars == <<s_utx, s_utx_head, s_utx_count, taken, txf, onLine, rxf, rxOvf, s_uart_rx_ovf, dutSent,
            toClient, rxLost,
            roomLeft, uploading, uart_upload_suspended, rearm, s_stage_off, s_stage_len, txf2, onLine2,
            epochs, swaps>>
ulVars == <<s_utx, s_utx_head, s_utx_count, taken, txf, onLine>>
rxVars == <<rxf, dutSent, toClient, rxLost, roomLeft, uploading, uart_upload_suspended>>
gpsVars == <<s_stage_off, s_stage_len, txf2, onLine2, epochs>>

Init ==
    /\ s_utx = [i \in 0..(Ring - 1) |-> 0] /\ s_utx_head \in {0, Ring - 1} /\ s_utx_count = 0
    /\ taken = 0 /\ txf = <<>> /\ onLine = 0
    /\ rxf = <<>> /\ rxOvf = FALSE /\ s_uart_rx_ovf = FALSE /\ dutSent = 0 /\ toClient = 0 /\ rxLost = FALSE
    /\ roomLeft = ClientRoom /\ uploading = FALSE /\ uart_upload_suspended = FALSE
    /\ rearm = [uart |-> FALSE, gps |-> FALSE]
    /\ s_stage_off = 0 /\ s_stage_len = 0 /\ txf2 = <<>> /\ onLine2 = 0 /\ epochs = 0 /\ swaps = 0

Least(a, b) == IF a < b THEN a ELSE b
Upto(m, n) == [i \in 1..(n - m + 1) |-> m + i - 1]

--------------------------------------------------------------------------------
(* fpga_uart_status: the read cleared the sticky overflow, so it is latched whoever asked *)
StatusLatches == rxOvf' = FALSE /\ s_uart_rx_ovf' = (s_uart_rx_ovf \/ rxOvf)

(* The ring: fpga_uart_write takes what fits and drops the rest. *)
(* broken: no check for a full ring *)
FitsAll(n) == n
Fits(n) == Least(n, Ring - s_utx_count)
Queued(n) == [i \in 0..(Ring - 1) |->
                LET d == (i + Ring - s_utx_head) % Ring IN IF d < Fits(n) THEN taken + d + 1 ELSE s_utx[i]]

(* fpga_uart_tx_pump: up to the FIFO's depth, in runs that do not cross the ring's end *)
Pumped(ring, head, count) ==
    LET n == Least(count, TxFifo)
        tail == (head + Ring - count) % Ring
    IN  [i \in 1..n |-> ring[(tail + i - 1) % Ring]]
Into(f, s, depth) == IF Len(f) >= depth THEN f ELSE SubSeq(f \o s, 1, Least(Len(f) + Len(s), depth))

(* broken: written whatever the FIFO holds *)
MayPumpAnyway == TRUE
(* only once the FIFO reports empty *)
MayPump == txf = <<>>

Pump(ring, head, count) ==
    \/ /\ count > 0 /\ MayPump
       /\ txf' = Into(txf, Pumped(ring, head, count), TxFifo)
       /\ s_utx_count' = count - Len(Pumped(ring, head, count)) /\ StatusLatches
    \/ /\ count > 0 /\ ~MayPump /\ s_utx_count' = count /\ UNCHANGED txf /\ StatusLatches
    \/ /\ count = 0 /\ s_utx_count' = count /\ UNCHANGED <<txf, rxOvf, s_uart_rx_ovf>>

ClientWrites(n) ==
    /\ taken + n <= MaxBytes
    /\ s_utx' = Queued(n) /\ s_utx_head' = (s_utx_head + Fits(n)) % Ring /\ taken' = taken + Fits(n)
    /\ Pump(Queued(n), (s_utx_head + Fits(n)) % Ring, s_utx_count + Fits(n))
    /\ UNCHANGED <<onLine, rxVars, rearm, gpsVars, swaps>>

(* the first line of uart_proxy_poll *)
TxPoll ==
    /\ s_utx_count > 0 /\ Pump(s_utx, s_utx_head, s_utx_count)
    /\ UNCHANGED <<s_utx, s_utx_head, taken, onLine, rxVars, rearm, gpsVars, swaps>>

LineSends ==
    /\ txf # <<>> /\ ~rearm.uart /\ onLine' = Head(txf) /\ txf' = Tail(txf)
    /\ UNCHANGED <<s_utx, s_utx_head, s_utx_count, taken, rxOvf, s_uart_rx_ovf, rxVars, rearm, gpsVars, swaps>>

--------------------------------------------------------------------------------
(* DUT to client *)

DutSends ==
    /\ dutSent < MaxDut /\ ~rearm.uart /\ dutSent' = dutSent + 1
    /\ \/ Len(rxf) < RxFifo /\ rxf' = Append(rxf, dutSent + 1) /\ UNCHANGED <<rxOvf, rxLost>>
       \/ Len(rxf) = RxFifo /\ rxOvf' = TRUE /\ rxLost' = TRUE /\ UNCHANGED rxf
    /\ UNCHANGED <<ulVars, s_uart_rx_ovf, toClient, roomLeft, uploading, uart_upload_suspended, rearm,
                   gpsVars, swaps>>

(* uart_proxy_poll: nothing while an upload streams in; what piled up meanwhile is discarded; then no more
   is read than the connection's ring takes whole *)
(* broken: the whole FIFO is read *)
ReadAll == Len(rxf)
ReadRoom == Least(Len(rxf), roomLeft)
RxPoll ==
    /\ \/ uploading /\ uart_upload_suspended' = TRUE /\ UNCHANGED <<rxf, toClient, roomLeft, rxOvf, s_uart_rx_ovf>>
       \/ ~uploading /\ uart_upload_suspended /\ uart_upload_suspended' = FALSE
          /\ rxf' = <<>> /\ toClient' = dutSent /\ StatusLatches /\ UNCHANGED roomLeft
       \/ /\ ~uploading /\ ~uart_upload_suspended /\ roomLeft > 0
          /\ LET n == ReadRoom IN
                /\ rxf' = SubSeq(rxf, n + 1, Len(rxf))
                /\ toClient' = IF Least(n, roomLeft) > 0 THEN rxf[Least(n, roomLeft)] ELSE toClient
                /\ roomLeft' = roomLeft - Least(n, roomLeft)
          /\ StatusLatches /\ UNCHANGED uart_upload_suspended
    /\ UNCHANGED <<ulVars, dutSent, rxLost, uploading, rearm, gpsVars, swaps>>

NetSends ==
    /\ roomLeft < ClientRoom /\ roomLeft' = ClientRoom
    /\ UNCHANGED <<ulVars, rxf, rxOvf, s_uart_rx_ovf, dutSent, toClient, rxLost, uploading,
                   uart_upload_suspended, rearm, gpsVars, swaps>>

Upload ==
    /\ uploading' = ~uploading /\ (uploading \/ epochs < MaxEpochs)
    /\ UNCHANGED <<ulVars, rxf, rxOvf, s_uart_rx_ovf, dutSent, toClient, rxLost, roomLeft,
                   uart_upload_suspended, rearm, gpsVars, swaps>>

--------------------------------------------------------------------------------
(* gps_sim_poll: at its time a new epoch, unless the last one is still being sent, then the next piece of
   it once UART2's FIFO is empty *)

EpochDue == IF s_stage_off < s_stage_len THEN [off |-> s_stage_off, len |-> s_stage_len]
            ELSE [off |-> 0, len |-> Epoch]

GpsPump(st) ==
    \/ /\ st.off < st.len /\ txf2 = <<>>
       /\ LET n == Least(st.len - st.off, Fifo2)
          IN  txf2' = Upto(st.off + 1, st.off + n) /\ s_stage_off' = st.off + n
       /\ StatusLatches
    \/ st.off < st.len /\ txf2 # <<>> /\ s_stage_off' = st.off /\ UNCHANGED txf2 /\ StatusLatches
    \/ st.off >= st.len /\ s_stage_off' = st.off /\ UNCHANGED <<txf2, rxOvf, s_uart_rx_ovf>>

GpsPoll ==
    /\ ~rearm.gps
    /\ \E due \in BOOLEAN :
        /\ due => epochs < MaxEpochs
        /\ epochs' = IF due THEN epochs + 1 ELSE epochs
        /\ LET st == IF due THEN EpochDue ELSE [off |-> s_stage_off, len |-> s_stage_len]
           IN  s_stage_len' = st.len /\ GpsPump(st)
    /\ UNCHANGED <<ulVars, rxVars, onLine2, rearm, swaps>>

(* a byte leaves UART2; the last one of an epoch starts the count again *)
Line2Sends ==
    /\ txf2 # <<>> /\ txf2' = Tail(txf2)
    /\ onLine2' = IF Head(txf2) = Epoch THEN 0 ELSE Head(txf2)
    /\ UNCHANGED <<ulVars, rxOvf, s_uart_rx_ovf, rxVars, rearm, s_stage_off, s_stage_len, epochs, swaps>>

--------------------------------------------------------------------------------
(* An image swap empties the fabric; the sessions are re-armed on the next poll, each with nothing queued. *)
Reconfigured ==
    /\ swaps < MaxSwaps /\ swaps' = swaps + 1
    /\ txf' = <<>> /\ rxf' = <<>> /\ rxOvf' = FALSE /\ txf2' = <<>> /\ rearm' = [uart |-> TRUE, gps |-> TRUE]
    /\ UNCHANGED <<s_utx, s_utx_head, s_utx_count, taken, onLine, s_uart_rx_ovf, dutSent, toClient,
                   rxLost, roomLeft,
                   uploading, uart_upload_suspended, s_stage_off, s_stage_len, onLine2, epochs>>

(* uart_rearm_poll: fpga_uart_disable and fpga_uart_config clear the ring and the latch *)
UartRearm ==
    /\ rearm.uart /\ rearm' = [rearm EXCEPT !.uart = FALSE]
    /\ s_utx_head' = 0 /\ s_utx_count' = 0 /\ taken' = 0 /\ txf' = <<>> /\ onLine' = 0
    /\ rxf' = <<>> /\ rxOvf' = FALSE /\ s_uart_rx_ovf' = FALSE /\ rxLost' = FALSE /\ dutSent' = 0 /\ toClient' = 0
    /\ UNCHANGED <<s_utx, roomLeft, uploading, uart_upload_suspended, gpsVars, swaps>>

(* broken: what was staged for the fabric that is gone goes on in the new one *)
GpsRearmGoesOn == /\ rearm.gps /\ rearm' = [rearm EXCEPT !.gps = FALSE] /\ onLine2' = 0 /\ txf2' = <<>>
                  /\ UNCHANGED <<ulVars, rxOvf, s_uart_rx_ovf, rxVars, s_stage_off, s_stage_len, epochs, swaps>>
GpsRearm == /\ rearm.gps /\ rearm' = [rearm EXCEPT !.gps = FALSE] /\ onLine2' = 0 /\ txf2' = <<>>
            /\ s_stage_len' = 0 /\ s_stage_off' = 0
            /\ UNCHANGED <<ulVars, rxOvf, s_uart_rx_ovf, rxVars, epochs, swaps>>

Next ==
    \/ \E n \in 1..2 : ClientWrites(n)
    \/ TxPoll \/ LineSends \/ DutSends \/ RxPoll \/ NetSends \/ Upload
    \/ GpsPoll \/ Line2Sends
    \/ Reconfigured \/ UartRearm \/ GpsRearm

(* The worker polls on every pass and the wire shifts out what its FIFO holds. *)
Fairness == WF_utVars(TxPoll) /\ WF_utVars(LineSends) /\ WF_utVars(UartRearm)

Spec == Init /\ [][Next]_utVars /\ Fairness

--------------------------------------------------------------------------------
TypeOK ==
    /\ s_utx \in [0..(Ring - 1) -> 0..MaxBytes] /\ s_utx_head \in 0..(Ring - 1) /\ s_utx_count \in 0..Ring
    /\ Len(txf) <= TxFifo /\ Len(rxf) <= RxFifo /\ Len(txf2) <= Fifo2 /\ roomLeft \in 0..ClientRoom
    /\ {rxOvf, s_uart_rx_ovf, rxLost, uploading, uart_upload_suspended} \subseteq BOOLEAN
    /\ s_stage_off \in 0..s_stage_len /\ s_stage_len \in {0, Epoch}

(* Every byte the proxy took from its client reaches the DUT once and in order: what is on the wire, in the
   FIFO and in the ring is one unbroken run (the FIFO drops what is written while it is full, the ring wraps).
   And every byte the DUT sent reaches the client in order unless the RX FIFO overflowed or an upload was
   streaming in, whatever room the connection has. *)
UartInOrder ==
    /\ ~rearm.uart =>
        txf \o [i \in 1..s_utx_count |-> s_utx[(s_utx_head + Ring - s_utx_count + i - 1) % Ring]]
            = Upto(onLine + 1, taken)
    /\ ~rearm.uart /\ ~rxLost => rxf = Upto(toClient + 1, dutSent)

(* Bytes of the DUT that were lost are known: the sticky bit is still in the gateware or latched for `status`,
   although the TX pump and the GPS poll read the same register and clear it. *)
LossKnown == rxLost /\ ~rearm.uart => rxOvf \/ s_uart_rx_ovf

(* The GPS line carries whole epochs: a byte that follows is the next one of its epoch, also when the next
   epoch comes due before the last is out and when the fabric is swapped under it. *)
EpochsWhole == ~rearm.gps =>
    IF txf2 = <<>> THEN onLine2 = s_stage_off % Epoch
                   ELSE txf2 = Upto(onLine2 + 1, IF s_stage_off = 0 THEN Epoch ELSE s_stage_off)

(* What the client wrote gets out: the ring never waits for an empty FIFO nobody looks at again. *)
TxDrains == []<>(s_utx_count = 0 /\ txf = <<>>)
================================================================================
