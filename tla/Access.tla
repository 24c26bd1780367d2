--------------------------------- MODULE Access ---------------------------------
(***************************************************************************)
(* Who may do what on the pod: the persisted policies (pod_policy.c,        *)
(* command_handler_policy.c), the gate every command passes (cmd_gate.c,    *)
(* command_handler.c) and the net and usb tasks that apply a changed policy *)
(* (net_server.c, usb_device.c).  The worker runs commands, those of the    *)
(* USB console too; the net task preempts it, so a run of the net task can  *)
(* fall between any two of the worker's steps.  Of the lease (LeaseGate)    *)
(* the gate sees whether it is active.                                      *)
(***************************************************************************)
EXTENDS Integers

CONSTANTS
    MaxSets,     \* commands that change a policy
    MaxBoots

ConstantsOK == {MaxSets, MaxBoots} \subseteq Nat

VARIABLES
    s_rec, flash,                    \* the policies in force, and stored
    setting,                         \* the change the worker is at
    s_lan_req, s_https_req,          \* asked of the net task, -1 for nothing
    s_lan_up, s_https_only,          \* what it applies
    s_net_setting_next, s_net_setting, s_reattach_at,   \* the same of the usb task
    conns, s_close_req,              \* the kinds of connection that are open; asked to close
    sets, boots

polVars == <<s_rec, flash, setting, sets>>
reqVars == <<s_lan_req, s_https_req>>
netVars == <<s_lan_up, s_https_only, conns, s_close_req>>
usbVars == <<s_net_setting_next, s_net_setting, s_reattach_at>>
acVars == <<polVars, reqVars, netVars, usbVars, boots>>

Open == 0
Locked == 1
Off == 2                             \* pod_lan_policy_t
Kinds == {"lan", "tls", "usb"}       \* plaintext and TLS from the external LAN; the USB network
Sources == Kinds \cup {"console", "cloud"}
Fields == [sig : 0..2, lan : 0..2, usb_net_off : 0..1, https_only : 0..1]
NoSetting == [pc |-> "none", rec |-> [sig |-> 0, lan |-> 0, usb_net_off |-> 0, https_only |-> 0],
              field |-> "sig", src |-> "console"]

\* As if a LAN policy only newer firmware knows were taken as it is stored.
LoadRaw(r) == r

\* pod_policy_load: a value newer firmware stored is taken for a strict one.
Load(r) == [sig |-> IF r.sig > 2 THEN 2 ELSE r.sig,
            lan |-> IF r.lan > Off THEN Locked ELSE r.lan,
            usb_net_off |-> IF r.usb_net_off > 1 THEN 1 ELSE r.usb_net_off,
            https_only |-> IF r.https_only > 1 THEN 1 ELSE r.https_only]

\* net_init and MX_USB_DEVICE_Init: a boot starts from the stored policy, with no lease and no
\* connection.
Boot(r) ==
    /\ s_rec' = Load(r)
    /\ s_lan_up' = (Load(r).lan # Off) /\ s_https_only' = (Load(r).https_only = 1)
    /\ s_net_setting' = (Load(r).usb_net_off = 0) /\ s_net_setting_next' = (Load(r).usb_net_off = 0)

Init ==
    /\ flash \in {[sig |-> 0, lan |-> l, usb_net_off |-> 0, https_only |-> 0] : l \in {Open, Off + 1}}
    /\ s_rec = Load(flash)
    /\ setting = NoSetting /\ sets = 0 /\ boots = 0
    /\ s_lan_req = -1 /\ s_https_req = -1
    /\ s_lan_up = (s_rec.lan # Off) /\ s_https_only = (s_rec.https_only = 1)
    /\ s_net_setting = TRUE /\ s_net_setting_next = TRUE /\ s_reattach_at = FALSE
    /\ conns = {} /\ s_close_req = {}
--------------------------------------------------------------------------------
\* As if a connection that is open when its kind is shut out stayed open.
ClosesNothing(lan, https) == {}

\* lan_access: with the LAN off every external connection is closed.
LanAccess(lan) == IF s_lan_up /\ ~lan THEN conns \ {"usb"} ELSE {}

\* https_only_apply: and the plaintext ones, when only HTTPS is left.
HttpsOnlyApply(https) == IF ~s_https_only /\ https THEN conns \cap {"lan"} ELSE {}

Closes(lan, https) == LanAccess(lan) \cup HttpsOnlyApply(https)

\* net_poll: take the worker's requests, close what is asked
\* to close (net_apply_worker_requests).
NetPoll ==
    /\ LET lan == IF s_lan_req >= 0 THEN s_lan_req = 1 ELSE s_lan_up
           https == IF s_https_req >= 0 THEN s_https_req = 1 ELSE s_https_only
       IN  /\ s_lan_up' = lan /\ s_https_only' = https
           /\ conns' = conns \ (s_close_req \cup Closes(lan, https))
    /\ s_lan_req' = -1 /\ s_https_req' = -1 /\ s_close_req' = {}
    /\ UNCHANGED <<polVars, usbVars, boots>>

\* srv_accept, for the kinds the policy lets in; a client goes away, or the worker drops it.
Accept(k) ==
    /\ k \notin conns
    /\ k = "usb" \/ (s_lan_up /\ (k = "tls" \/ ~s_https_only))
    /\ conns' = conns \cup {k}
    /\ UNCHANGED <<polVars, reqVars, s_lan_up, s_https_only, s_close_req, usbVars, boots>>

Leave(k) ==
    /\ k \in conns
    /\ \/ conns' = conns \ {k} /\ s_close_req' = s_close_req \ {k}
       \/ s_close_req' = s_close_req \cup {k} /\ UNCHANGED conns
    /\ UNCHANGED <<polVars, reqVars, s_lan_up, s_https_only, usbVars, boots>>

\* usb_task: the USB network setting takes effect at a delayed reattach.
UsbReattach ==
    /\ s_reattach_at
    /\ s_reattach_at' = FALSE /\ s_net_setting' = s_net_setting_next
    /\ UNCHANGED <<polVars, reqVars, netVars, s_net_setting_next, boots>>
--------------------------------------------------------------------------------
IsLan(src) == src \in Kinds          \* command_handler_policy_src: POLICY_SRC_LAN

\* cmd_gate_check of a T2 command: not from a locked external LAN, nor from any LAN client while a
\* cloud job holds the pod (lease_gate_active, at any time: LeaseGate); a console line has no gate.
GateLets(src, leased) ==
    /\ ~(src \in {"lan", "tls"} /\ s_rec.lan # Open)
    /\ ~(IsLan(src) /\ leased)

\* As if the HTTPS-only setting could be turned off from a plaintext connection.
MayLax(field, v, src) ==
    CASE field = "sig" -> ~IsLan(src) /\ ~(src = "cloud" /\ v < s_rec.sig)
      [] field = "lan" -> ~IsLan(src)
      [] field = "usb_net_off" -> src \in {"console", "usb"}
      [] field = "https_only" -> TRUE

\* pod_policy_set_sig, _lan, _usb_net, _https_only (and pod_policy_lan_tls_gate): who may change
\* which policy to what.
May(field, v, src) ==
    CASE field = "sig" -> ~IsLan(src) /\ ~(src = "cloud" /\ v < s_rec.sig)
      [] field = "lan" -> ~IsLan(src)
      [] field = "usb_net_off" -> src \in {"console", "usb"}
      [] field = "https_only" -> v = 1 \/ src # "lan"

\* dispatch_line, or the console's or the cloud's own entry.
Dispatch(src) ==
    src \in conns \cup {"console", "cloud"} /\ \E leased \in BOOLEAN : GateLets(src, leased)

\* handle_sig_policy, handle_lan_policy, handle_usb_network, handle_lan_tls or the
\* console's lines: the checks, before anything changes.
Command(src, field, v) ==
    /\ setting.pc = "none" /\ sets < MaxSets
    /\ Dispatch(src) /\ May(field, v, src) /\ s_rec[field] # v
    /\ setting' = [pc |-> "save", rec |-> [s_rec EXCEPT ![field] = v], field |-> field, src |-> src]
    /\ sets' = sets + 1
    /\ UNCHANGED <<s_rec, flash, reqVars, netVars, usbVars, boots>>

\* As if a policy that could not be stored were applied all the same.
SaveAnyway ==
    /\ setting.pc = "save"
    /\ s_rec' = setting.rec /\ setting' = [setting EXCEPT !.pc = "hook"]
    /\ (flash' = setting.rec \/ UNCHANGED flash)
    /\ UNCHANGED <<sets, reqVars, netVars, usbVars, boots>>

\* save: the record first (it may fail: the command is refused), then the copy in force.
Save ==
    /\ \/ setting.pc = "save" /\ flash' = setting.rec /\ setting' = [setting EXCEPT !.pc = "stored"]
          /\ UNCHANGED s_rec
       \/ setting.pc = "save" /\ setting' = NoSetting /\ UNCHANGED <<s_rec, flash>>
       \/ setting.pc = "stored" /\ s_rec' = setting.rec /\ setting' = [setting EXCEPT !.pc = "hook"]
          /\ UNCHANGED flash
    /\ UNCHANGED <<sets, reqVars, netVars, usbVars, boots>>

\* pod_policy_on_lan_change, _https_only_change, _usb_net_change: the other tasks are asked.
Hook ==
    /\ setting.pc = "hook" /\ setting' = NoSetting
    /\ s_lan_req' = IF setting.field # "lan" THEN s_lan_req ELSE IF s_rec.lan = Off THEN 0 ELSE 1
    /\ s_https_req' = IF setting.field = "https_only" THEN s_rec.https_only ELSE s_https_req
    /\ IF setting.field = "usb_net_off"
       THEN s_net_setting_next' = (s_rec.usb_net_off = 0) /\ s_reattach_at' = TRUE
       ELSE UNCHANGED <<s_net_setting_next, s_reattach_at>>
    /\ UNCHANGED <<s_rec, flash, sets, netVars, s_net_setting, boots>>

\* A reset, at any point; a record half stored is AbStore's matter.
Reboot ==
    /\ boots < MaxBoots /\ boots' = boots + 1
    /\ Boot(flash)
    /\ setting' = NoSetting
    /\ s_lan_req' = -1 /\ s_https_req' = -1 /\ s_reattach_at' = FALSE
    /\ conns' = {} /\ s_close_req' = {}
    /\ UNCHANGED <<flash, sets>>

Next ==
    \/ NetPoll \/ UsbReattach \/ Save \/ Hook \/ Reboot
    \/ \E k \in Kinds : Accept(k) \/ Leave(k)
    \/ \E src \in Sources :
         \/ \E v \in 0..2 : Command(src, "sig", v) \/ Command(src, "lan", v)
         \/ \E v \in 0..1 : Command(src, "usb_net_off", v) \/ Command(src, "https_only", v)

\* The tasks run.
Fairness == WF_acVars(NetPoll) /\ WF_acVars(Save) /\ WF_acVars(Hook) /\ WF_acVars(UsbReattach)

Spec == Init /\ [][Next]_acVars /\ Fairness
--------------------------------------------------------------------------------
\* The types of the access state.
TypeOK ==
    /\ s_rec \in Fields /\ setting.rec \in Fields
    /\ s_lan_req \in -1..1 /\ s_https_req \in -1..1
    /\ conns \subseteq Kinds /\ s_close_req \subseteq Kinds

\* pod_policy.c: a reset changes nothing: the policies in force are the stored ones, except
\* between the two steps of a save.
PolicyDurable == s_rec = Load(flash) \/ setting.pc = "stored"

\* pod_policy.h: no client of the plaintext LAN loosens a policy, however its commands interleave
\* with others; the signature policy is loosened from the USB console only.
LoosensNothing ==
    /\ \A f \in DOMAIN s_rec : s_rec'[f] < s_rec[f] => setting.src # "lan"
    /\ s_rec'.sig < s_rec.sig => setting.src = "console"
NeverLoosened == [][LoosensNothing]_acVars

\* net_server.c, usb_device.c: a policy that stays (changes are bounded by MaxSets) is applied in
\* the end, to open connections too.
Applied ==
    /\ s_rec.lan = Off => conns \subseteq {"usb"}
    /\ s_rec.https_only = 1 => "lan" \notin conns
    /\ s_rec.lan # Off => s_lan_up
    /\ (s_rec.usb_net_off = 0) = s_net_setting
PolicyApplied == <>[]Applied
================================================================================
