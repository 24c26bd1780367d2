--------------------------------- MODULE EthNet ---------------------------------
(***************************************************************************)
(* The wired network (ethernetif.c; net_server.c, net_dhcp.c): the MAC with *)
(* its receive buffers and DMA rings, the PHY's link, the DHCP machine with *)
(* its self-heal, the eth commands latched for the net task, and the        *)
(* default route.  All on the net task, but the latch.                      *)
(***************************************************************************)
EXTENDS Naturals

CONSTANTS
    RxCnt, RxDesc,     \* ETH_RX_BUFFER_CNT, ETH_RX_DESC_CNT
    TxDesc,            \* ETH_TX_DESC_CNT
    Rekick,            \* DHCP_REKICK_TICKS
    Escalate,          \* DHCP_ESCALATE_REKICKS
    MaxFaults,         \* cables pulled, PHYs wedged, leases lost, Wi-Fi changes
    MaxCmds            \* eth commands

ConstantsOK ==
    /\ {RxCnt, RxDesc, TxDesc, Rekick, Escalate} \subseteq Nat \ {0} /\ RxDesc < RxCnt
    /\ MaxFaults \in Nat /\ MaxCmds \in Nat

VARIABLES
    phy, wedged,           \* the PHY sees a partner; it does, but passes nothing
    link, mac,             \* netif_is_link_up; the MAC runs
    s_eth_stopped,         \* stopped since the last init
    desync,                \* the driver reads behind the DMA
    armed, unread,         \* RX descriptors with a buffer; with a frame not read
    held, pool_free,       \* buffers lwIP holds; buffers in RX_POOL
    RxAllocStatus,
    txq,                   \* frames queued for transmit, each with its reference
    s_eth_admin_down, s_eth_req,
    dhcp, wait_ticks, dhcp_fails,
    lease, addressed,      \* lwIP has a lease; the address net_server shows
    wifi_ok, route,        \* Wi-Fi has link and address; the default route
    e_faults, e_cmds

phyVars == <<phy, wedged>>
macVars == <<link, mac, s_eth_stopped, desync>>
rxVars == <<armed, unread, held, pool_free, RxAllocStatus>>
cmdVars == <<s_eth_admin_down, s_eth_req>>
dhcpVars == <<dhcp, wait_ticks, dhcp_fails, lease, addressed>>
routeVars == <<wifi_ok, route>>
etVars == <<phyVars, macVars, rxVars, txq, cmdVars, dhcpVars, routeVars, e_faults, e_cmds>>

Requests == {"none", "down", "up", "restart", "speed", "refclk", "loopback"}

Init ==
    /\ phy = FALSE /\ wedged = FALSE /\ link = FALSE /\ mac = FALSE
    /\ s_eth_stopped = FALSE /\ desync = FALSE
    /\ armed = 0 /\ unread = 0 /\ held = 0 /\ pool_free = RxCnt /\ RxAllocStatus = "ok"
    /\ txq = 0 /\ s_eth_admin_down = FALSE /\ s_eth_req = "none"
    /\ dhcp = "off" /\ wait_ticks = 0 /\ dhcp_fails = 0 /\ lease = FALSE /\ addressed = FALSE
    /\ wifi_ok = FALSE /\ route = "eth" /\ e_faults = 0 /\ e_cmds = 0
--------------------------------------------------------------------------------
\* HAL_ETH_ReadData's rebuild through HAL_ETH_RxAllocateCallback: a buffer for every descriptor
\* that lacks one, as far as the pool goes.
Arm(have, unrd, free) ==
    LET want == RxDesc - have - unrd
        n == IF want < free THEN want ELSE free
    IN  /\ armed' = have + n /\ pool_free' = free - n
        /\ RxAllocStatus' = IF n < want THEN "error" ELSE "ok"

\* A frame from the wire, by DMA.
FrameIn ==
    /\ mac /\ ~wedged /\ phy /\ armed > 0
    /\ armed' = armed - 1 /\ unread' = unread + 1
    /\ UNCHANGED <<phyVars, macVars, held, pool_free, RxAllocStatus, txq, cmdVars, dhcpVars, routeVars,
                   e_faults, e_cmds>>

\* ethernetif_input over low_level_input: transmitted frames are released; unless the pool ran
\* dry, a frame goes to lwIP and the descriptors are rebuilt.
Input ==
    /\ mac /\ RxAllocStatus = "ok"
    /\ LET n == IF unread > 0 /\ ~desync THEN 1 ELSE 0
       IN  /\ unread' = unread - n /\ held' = held + n
           /\ Arm(armed, unread - n, pool_free)
    /\ UNCHANGED <<phyVars, macVars, txq, cmdVars, dhcpVars, routeVars, e_faults, e_cmds>>

\* As if a freed buffer did not end the wait for one.
FreeUnnoticed ==
    /\ held > 0 /\ held' = held - 1 /\ pool_free' = pool_free + 1 /\ UNCHANGED RxAllocStatus
    /\ UNCHANGED <<phyVars, macVars, armed, unread, txq, cmdVars, dhcpVars, routeVars, e_faults, e_cmds>>

\* pbuf_free_custom.
FreeBuffer ==
    /\ held > 0 /\ held' = held - 1 /\ pool_free' = pool_free + 1 /\ RxAllocStatus' = "ok"
    /\ UNCHANGED <<phyVars, macVars, armed, unread, txq, cmdVars, dhcpVars, routeVars, e_faults, e_cmds>>

\* low_level_output: a frame is queued while a descriptor is free, or dropped.  The wire takes it,
\* and the next HAL_ETH_ReleaseTxPacket frees it.
Transmit ==
    /\ \/ mac /\ txq < TxDesc /\ txq' = txq + 1
       \/ mac /\ txq > 0 /\ txq' = txq - 1
    /\ UNCHANGED <<phyVars, macVars, rxVars, cmdVars, dhcpVars, routeVars, e_faults, e_cmds>>
--------------------------------------------------------------------------------
\* eth_stop, netif_set_down, netif_set_link_down.
StopLink == mac' = FALSE /\ link' = FALSE /\ s_eth_stopped' = TRUE

\* As if a start after a stop left the rings where they were.
StartAsItIs ==
    /\ mac' = TRUE /\ link' = TRUE /\ s_eth_stopped' = FALSE
    /\ desync' = (s_eth_stopped /\ unread > 0)
    /\ Arm(armed, unread, pool_free) /\ UNCHANGED <<unread, held, txq>>

\* eth_prepare_start and HAL_ETH_Start: after a stop every buffer the rings hold is given back and
\* the MAC and DMA start over; with no reference clock that fails and is tried again.
StartMac ==
    IF ~s_eth_stopped
    THEN /\ mac' = TRUE /\ link' = TRUE /\ Arm(armed, unread, pool_free)
         /\ UNCHANGED <<s_eth_stopped, desync, unread, held, txq>>
    ELSE \/ /\ mac' = TRUE /\ link' = TRUE /\ s_eth_stopped' = FALSE /\ desync' = FALSE
            /\ unread' = 0 /\ Arm(0, 0, pool_free + armed + unread) /\ txq' = 0 /\ UNCHANGED held
         \/ /\ armed' = 0 /\ unread' = 0 /\ pool_free' = pool_free + armed + unread
            /\ RxAllocStatus' = "ok" /\ txq' = 0
            /\ UNCHANGED <<mac, link, s_eth_stopped, desync, held>>

\* update_default_route: the wire when it has link and address, else Wi-Fi when it has.
Route(eth) == route' = IF ~eth /\ wifi_ok THEN "wifi" ELSE "eth"

\* net_poll, every 100 ms: ethernet_link_check_state (but not while stopped by command) and the
\* default route.
LinkCheck ==
    /\ \/ ~s_eth_admin_down /\ link /\ ~phy /\ StopLink /\ Route(FALSE)
          /\ UNCHANGED <<desync, rxVars, txq>>
       \/ ~s_eth_admin_down /\ ~link /\ phy /\ StartMac /\ Route(addressed /\ link')
       \/ (s_eth_admin_down \/ link = phy) /\ Route(addressed /\ link) /\ route' # route
          /\ UNCHANGED <<macVars, rxVars, txq>>
    /\ UNCHANGED <<phyVars, cmdVars, dhcpVars, wifi_ok, e_faults, e_cmds>>

\* ethernetif_phy_restart: the PHY's own reset clears a wedge; the link comes up again by the
\* link check.
PhyRestart == StopLink /\ wedged' = FALSE /\ UNCHANGED <<phy, desync, rxVars, txq>>

\* As if a stall never went further than another DISCOVER.
NeverEscalates == FALSE

\* DHCP_ESCALATE_REKICKS in a row brought no lease: the MAC or the PHY is stuck.
Escalates == dhcp_fails + 1 >= Escalate

\* dhcp_process over net_dhcp_step, every 500 ms while not stopped by command.
DhcpTick ==
    /\ ~s_eth_admin_down
    /\ \/ /\ ~link /\ dhcp # "off"                                   \* LINKDOWN
          /\ dhcp' = "off" /\ wait_ticks' = 0 /\ addressed' = FALSE
          /\ UNCHANGED <<dhcp_fails, lease, phyVars, macVars, rxVars, txq>>
       \/ /\ link /\ (dhcp = "off" \/ (dhcp = "done" /\ ~lease))     \* DISCOVER
          /\ dhcp' = "wait" /\ wait_ticks' = 0 /\ lease' = FALSE
          /\ UNCHANGED <<dhcp_fails, addressed, phyVars, macVars, rxVars, txq>>
       \/ /\ link /\ dhcp = "wait" /\ lease                          \* BOUND
          /\ dhcp' = "done" /\ wait_ticks' = 0 /\ dhcp_fails' = 0 /\ addressed' = TRUE
          /\ UNCHANGED <<lease, phyVars, macVars, rxVars, txq>>
       \/ /\ link /\ dhcp = "wait" /\ ~lease /\ wait_ticks + 1 < Rekick
          /\ wait_ticks' = wait_ticks + 1
          /\ UNCHANGED <<dhcp, dhcp_fails, lease, addressed, phyVars, macVars, rxVars, txq>>
       \/ /\ link /\ dhcp = "wait" /\ ~lease /\ wait_ticks + 1 >= Rekick
          /\ wait_ticks' = 0
          /\ IF Escalates
             THEN dhcp_fails' = 0 /\ dhcp' = "off" /\ PhyRestart
             ELSE dhcp_fails' = (dhcp_fails + 1) % Escalate /\ UNCHANGED <<dhcp, phyVars, macVars, rxVars, txq>>
          /\ UNCHANGED <<lease, addressed>>
    /\ UNCHANGED <<cmdVars, routeVars, e_faults, e_cmds>>

\* eth_reset_addr_state.
ResetAddr == dhcp' = "off" /\ wait_ticks' = 0 /\ dhcp_fails' = 0 /\ lease' = FALSE /\ addressed' = FALSE

\* net_eth_stop, _start, _restart, _force_speed, _refclk_measure, _loopback: one latch.
EthCommand ==
    /\ e_cmds < MaxCmds /\ e_cmds' = e_cmds + 1
    /\ s_eth_req' \in Requests \ {"none"}
    /\ UNCHANGED <<phyVars, macVars, rxVars, txq, s_eth_admin_down, dhcpVars, routeVars, e_faults>>

\* ethernetif_force_speed: stopped; the link check starts it at the new speed.
ForceSpeed == StopLink /\ UNCHANGED <<phyVars, desync, rxVars, txq>>

\* ethernetif_loopback_test: the MAC is prepared, runs for the test's frames (their buffers all go
\* back) and is stopped again; the PHY gets its registers back.
LoopbackTest ==
    /\ StopLink /\ wedged' = FALSE /\ unread' = 0 /\ armed' = 0 /\ txq' = 0 /\ desync' = FALSE
    /\ pool_free' = pool_free + armed + unread /\ RxAllocStatus' = "ok"
    /\ UNCHANGED <<phy, held>>

\* ethernetif_measure_refclk: stopped while the clock's pin is counted, then a restart.
MeasureRefclk == PhyRestart

\* net_eth_apply_request.
ApplyRequest ==
    /\ s_eth_req # "none" /\ s_eth_req' = "none"
    /\ s_eth_admin_down' = (s_eth_req = "down")
    /\ ResetAddr
    /\ CASE s_eth_req = "down" -> StopLink /\ UNCHANGED <<phyVars, desync, rxVars, txq>>
         [] s_eth_req = "speed" -> ForceSpeed
         [] s_eth_req = "loopback" -> LoopbackTest
         [] s_eth_req = "refclk" -> MeasureRefclk
         [] OTHER -> PhyRestart
    /\ IF s_eth_req = "down" THEN Route(FALSE) ELSE UNCHANGED route
    /\ UNCHANGED <<wifi_ok, e_faults, e_cmds>>
--------------------------------------------------------------------------------
\* The world: a cable is plugged or pulled, a PHY wedges, a lease is lost, Wi-Fi comes or goes.
World ==
    /\ e_faults < MaxFaults /\ e_faults' = e_faults + 1
    /\ \/ phy' = ~phy /\ UNCHANGED <<wedged, lease, wifi_ok>>
       \/ phy /\ wedged' = TRUE /\ UNCHANGED <<phy, lease, wifi_ok>>
       \/ lease /\ lease' = FALSE /\ UNCHANGED <<phy, wedged, wifi_ok>>
       \/ wifi_ok' = ~wifi_ok /\ UNCHANGED <<phy, wedged, lease>>
    /\ UNCHANGED <<macVars, rxVars, txq, cmdVars, dhcp, wait_ticks, dhcp_fails, addressed, route, e_cmds>>

\* The router answers, over a link that passes frames.
RouterGrants ==
    /\ mac /\ phy /\ ~wedged /\ ~desync /\ dhcp = "wait" /\ ~lease
    /\ lease' = TRUE
    /\ UNCHANGED <<phyVars, macVars, rxVars, txq, cmdVars, dhcp, wait_ticks, dhcp_fails, addressed,
                   routeVars, e_faults, e_cmds>>

Next ==
    \/ FrameIn \/ Input \/ FreeBuffer \/ Transmit \/ LinkCheck \/ DhcpTick
    \/ EthCommand \/ ApplyRequest \/ World \/ RouterGrants

\* The net task runs, lwIP frees what it holds, the clock is there in the end (StartMac succeeds),
\* and a router that is asked over and over answers.
Fairness ==
    /\ WF_etVars(LinkCheck) /\ WF_etVars(DhcpTick) /\ WF_etVars(ApplyRequest)
    /\ WF_etVars(Input /\ (armed' # armed \/ unread' # unread)) /\ WF_etVars(FreeBuffer)
    /\ WF_etVars(LinkCheck /\ ~link /\ link') /\ SF_etVars(RouterGrants)

Spec == Init /\ [][Next]_etVars /\ Fairness
--------------------------------------------------------------------------------
\* The types of the wired network's state.
TypeOK ==
    /\ armed \in 0..RxDesc /\ unread \in 0..RxDesc /\ held \in 0..RxCnt /\ txq \in 0..TxDesc
    /\ RxAllocStatus \in {"ok", "error"} /\ s_eth_req \in Requests
    /\ dhcp \in {"off", "wait", "done"} /\ wait_ticks \in 0..Rekick /\ dhcp_fails \in 0..Escalate
    /\ route \in {"eth", "wifi"}

\* ethernetif.c: however stops and starts fall, under load, no receive buffer is lost, and a MAC
\* that runs is never read behind its DMA ("Ethernet is dead until a reboot").
RxSound == armed + unread + held + pool_free = RxCnt /\ ~(mac /\ desync)

\* ethernetif.c, pbuf_free_custom: a receiver that ran out of buffers starts again.
RxRuns == RxAllocStatus = "ok" \/ ~mac
RxNotStuck == []<>RxRuns

\* net_server.c: with the cable in and not stopped by command the pod has its address in the end,
\* a wedged PHY and failed restarts included; the default route goes where there is an address.
Up ==
    /\ phy /\ ~s_eth_admin_down => link /\ addressed /\ route = "eth"
    /\ ~phy /\ wifi_ok => route = "wifi"
ComesUp == <>[]Up

================================================================================
