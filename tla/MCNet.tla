--------------------------------- MODULE MCNet ---------------------------------
(***************************************************************************)
(* The net task under TLC: its hand-overs with the worker, and the pod's    *)
(* ways onto a network: Ethernet, the Wi-Fi coprocessor, and the Wi-Fi      *)
(* bridge on its cable, its pairing and its station.  They share no state,  *)
(* so a behaviour works with one of them and the others keep an initial     *)
(* state.                                                                   *)
(***************************************************************************)
EXTENDS NetCall, Integers, Sequences, TLAPS

CONSTANTS
    Links, MaxWait, Settle, MaxRequests,                                   \* reload
    RxCnt, RxDesc, TxDesc, Rekick, Escalate, MaxCmds,                          \* Ethernet
    TxRoom, RssiMaxMisses, ScanReadMax, MaxAps, MaxTrouble, MaxScans, MaxSets, \* coprocessor
    Types, Tries, SeqMax, CMax, Cable, MaxUser,                      \* pairing
    Nets, Pods, Factory, None, LeavesIn, MaxPlugs, MaxKicks, QMax,             \* station
    MaxFaults

VARIABLES
    which,
    s_bits, s_req_seq, s_commit_seq, s_taken_seq, req_age, commit_age, wpc, what, bitsLoaded, seqLoaded,
    owed, replying,
    phy, wedged, ethLink, mac, s_eth_stopped, desync, armed, unread, held, pool_free, RxAllocStatus, txq,
    s_eth_admin_down, s_eth_req, dhcp, wait_ticks, dhcp_fails, lease, addressed, wifi_ok, route, e_faults,
    e_cmds,
    wc, scanReq, slot, flashReq, job, wifiSets,
    present, p_nonce, have_nonce, p_key, counter, flag, paired, problem, req, seq, due, heard, b_nonce,
    b_key, nvs_key, last_counter, pubs, toBridge, down_up, executed, again, b_faults, users,
    stored, s_creds_gen, radio, air, s_started, s_connecting, s_connected, s_conn_gen, s_state, s_retry,
    s_park, s_parked, s_sta_mac, loaded, evq, cable, cableUp, pod_mac, relearn, going, inflight, sets,
    plugs, kicks

reloadVars == <<s_bits, s_req_seq, s_commit_seq, s_taken_seq, req_age, commit_age, wpc, what,
                bitsLoaded, seqLoaded, owed, replying>>
ethVars == <<phy, wedged, ethLink, mac, s_eth_stopped, desync, armed, unread, held, pool_free,
             RxAllocStatus, txq, s_eth_admin_down, s_eth_req, dhcp, wait_ticks, dhcp_fails, lease,
             addressed, wifi_ok, route, e_faults, e_cmds>>
wifiVars == <<wc, scanReq, slot, flashReq, job, wifiSets>>
pairingVars == <<present, p_nonce, have_nonce, p_key, counter, flag, paired, problem, req, seq, due,
                 heard, b_nonce, b_key, nvs_key, last_counter, pubs, toBridge, down_up, executed, again,
                 b_faults, users>>
stationVars == <<stored, s_creds_gen, radio, air, s_started, s_connecting, s_connected, s_conn_gen,
                 s_state, s_retry, s_park, s_parked, s_sta_mac, loaded, evq, cable, cableUp, pod_mac,
                 relearn, going, inflight, sets, plugs, kicks>>

Reload == INSTANCE NetReload WITH loaded <- bitsLoaded, seq <- seqLoaded
Eth == INSTANCE EthNet WITH link <- ethLink
Wifi == INSTANCE WifiCtrl WITH sets <- wifiSets
Pairing == INSTANCE BridgeLink WITH link <- toBridge
Station == INSTANCE BridgeWifi WITH s_link <- cableUp

ASSUME Assumptions ==
    /\ ConstantsOK /\ Reload!ConstantsOK
    /\ Eth!ConstantsOK /\ Wifi!ConstantsOK /\ Pairing!ConstantsOK /\ Station!ConstantsOK

MCInit ==
    /\ which \in {"call", "reload", "eth", "wifi", "pairing", "station"}
    /\ Init /\ (which = "call" \/ s_net_task)
    /\ Reload!Init /\ (which = "reload" \/ what = CHOOSE l \in Links : TRUE)
    /\ Eth!Init /\ Pairing!Init
    /\ Wifi!Init /\ (which = "wifi" \/ (~wc.cfg /\ wc.img = "app" /\ slot))
    /\ Station!Init /\ (which = "station" \/ stored = None)

Rest ==
    /\ UNCHANGED which
    /\ which # "call" => UNCHANGED vars
    /\ which # "reload" => UNCHANGED reloadVars
    /\ which # "eth" => UNCHANGED ethVars
    /\ which # "wifi" => UNCHANGED wifiVars
    /\ which # "pairing" => UNCHANGED pairingVars
    /\ which # "station" => UNCHANGED stationVars

MCNext ==
    /\ Rest
    /\ \/ which = "call" /\ Next
       \/ which = "reload" /\ Reload!Next
       \/ which = "eth" /\ Eth!Next
       \/ which = "wifi" /\ Wifi!Next
       \/ which = "pairing" /\ Pairing!Next
       \/ which = "station" /\ Station!Next

mcVars == <<which, vars, reloadVars, ethVars, wifiVars, pairingVars, stationVars>>

\* The fairness of the part in use.
MCFairness ==
    /\ WF_vars(which = "call" /\ Expire)
    /\ WF_vars(which = "call" /\ SeeDone)
    /\ WF_vars(which = "call" /\ Withdraw)
    /\ WF_vars(which = "call" /\ Run)
    /\ WF_vars(which = "call" /\ Finish)
    /\ WF_reloadVars(which = "reload" /\ Reload!Take(TRUE))
    /\ WF_reloadVars(which = "reload" /\ Reload!Tick)
    /\ WF_reloadVars(which = "reload" /\ Reload!LoadBits)
    /\ WF_reloadVars(which = "reload" /\ Reload!StoreBits)
    /\ WF_reloadVars(which = "reload" /\ Reload!BumpSeq)
    /\ WF_ethVars(which = "eth" /\ Eth!LinkCheck)
    /\ WF_ethVars(which = "eth" /\ Eth!DhcpTick)
    /\ WF_ethVars(which = "eth" /\ Eth!ApplyRequest)
    /\ WF_ethVars(which = "eth" /\ Eth!Input /\ (armed' # armed \/ unread' # unread))
    /\ WF_ethVars(which = "eth" /\ Eth!FreeBuffer)
    /\ WF_wifiVars(which = "wifi" /\ Wifi!Poll)
    /\ WF_wifiVars(which = "wifi" /\ Wifi!Exchange)
    /\ WF_wifiVars(which = "wifi" /\ Wifi!C3Boots)
    /\ WF_wifiVars(which = "wifi" /\ Wifi!C3Joins)
    /\ WF_wifiVars(which = "wifi" /\ Wifi!TakeFlash)
    /\ WF_wifiVars(which = "wifi" /\ Wifi!RunDeferred)
    /\ WF_wifiVars(which = "wifi" /\ Wifi!FlashEnds)
    /\ WF_wifiVars(which = "wifi" /\ Wifi!ReleaseC3)
    /\ WF_pairingVars(which = "pairing" /\ Pairing!PollPending)
    /\ WF_pairingVars(which = "pairing" /\ Pairing!PollIdle)
    /\ WF_pairingVars(which = "pairing" /\ Pairing!Release)
    /\ WF_pairingVars(which = "pairing" /\ Pairing!PodRx)
    /\ WF_pairingVars(which = "pairing" /\ Pairing!BridgeRx)
    /\ WF_stationVars(which = "station" /\ Station!Task)
    /\ WF_stationVars(which = "station" /\ Station!EthControl)
    /\ WF_stationVars(which = "station" /\ Station!LinkUp)
    /\ WF_stationVars(which = "station" /\ Station!LinkDown)
    /\ WF_stationVars(which = "station" /\ Station!Driver /\ UNCHANGED <<sets, plugs, kicks>>)
    /\ WF_pairingVars(which = "pairing" /\ Pairing!BridgeSpeaks /\ UNCHANGED b_faults)
    /\ WF_ethVars(which = "eth" /\ Eth!LinkCheck /\ ~ethLink /\ ethLink')
    /\ SF_ethVars(which = "eth" /\ Eth!RouterGrants)

MCSpec == MCInit /\ [][MCNext]_mcVars /\ MCFairness

\* The types of the parts' state.
TypesOK ==
    CASE which = "call" -> TypeOK [] which = "reload" -> Reload!TypeOK
      [] which = "eth" -> Eth!TypeOK [] which = "wifi" -> Wifi!TypeOK
      [] which = "pairing" -> Pairing!TypeOK [] which = "station" -> Station!TypeOK

\* net_reload.h: no link is reloaded ahead of the reply of the command that asked, before
\* NET_RELOAD_MAX_WAIT_MS are over.
ReloadReplyFirst == Reload!ReplyFirst

\* net_reload.c, ethernetif.c, esp_wifi_ctrl.c, wifi_bridge.c, pairing.c, wifi.c: a link still to be
\* reloaded is latched and pending; no receive buffer is lost and no
\* MAC reads behind its DMA; credentials stay out of the coprocessor's flash; a signed request is
\* carried out once, and if reported done it was; the bridge is on the air as its pod only.
NetSound ==
    /\ which = "reload" => Reload!NeverLost
    /\ which = "eth" => Eth!RxSound
    /\ which = "wifi" => Wifi!CredsInRam
    /\ which = "pairing" => Pairing!NoReplay /\ Pairing!DoneIsDone
    /\ which = "station" => Station!OnAirAsPod

\* A call to the net task returns and a change of settings is applied.  Ethernet has its address
\* in the end and its receiver goes on; a scan is answered, a link that is gone is told and a
\* configured pod joins; pod and bridge are paired again after a reboot of either; and the
\* bridge's station settles on the newest credentials.
\* (A behaviour has one part only, so what parts promise can share a conjunct.)
NetComesUp ==
    /\ []<>(/\ waiting = 0 /\ owed = {} /\ Eth!RxRuns /\ req.state # "pending"
            /\ which = "wifi" => scanReq = wc.done /\ Wifi!LinkTrue /\ (wc.cfg => Wifi!Joined))
    /\ <>[](/\ which = "pairing" => Pairing!Agreed
            /\ which = "eth" => Eth!Up
            /\ Station!Settled)

(***************************************************************************)
(* Proofs.                                                                  *)
(***************************************************************************)
\* net_call_sync: proofs about NetCall.tla.

\* What the two critical sections keep: a pending call is the one its caller waits for, nobody runs,
\* and it is neither done nor has it run.
PendingIsFresh ==
    s_net_call => /\ s_net_call_id # 0 /\ waiting = s_net_call_id /\ taken = 0
                  /\ s_net_call_id \notin ran /\ s_net_call_done # s_net_call_id

\* A call that is done has run, and is not the one running.
DoneHasRun ==
    /\ s_net_call_done # 0 => s_net_call_done \in ran
    /\ taken # 0 => s_net_call_done # taken

\* The ids in use were given out, and nothing is known of one that was not.
IdsGiven ==
    /\ s_net_call_id <= s_net_call_seq /\ s_net_call_done <= s_net_call_seq
    /\ waiting <= s_net_call_seq /\ taken <= s_net_call_seq
    /\ \A i \in Ids : i > s_net_call_seq => i \notin ran /\ ret[i] = "none"

\* The inductive invariant: CallSound says nothing of a call before it is taken.
CallInv == TypeOK /\ PendingIsFresh /\ DoneHasRun /\ IdsGiven /\ CallSound

\* Before the first call there is nothing to tell apart.
LEMMA CallInvInit == ASSUME ConstantsOK, Init PROVE CallInv
<1> USE DEF ConstantsOK, Init, Ids
<1>1. TypeOK
  <2>1. s_net_task \in BOOLEAN /\ s_net_call \in BOOLEAN /\ late \in BOOLEAN  OBVIOUS
  <2>2. ret \in [Ids -> Results]  BY DEF Results
  <2> QED
    BY <2>1, <2>2 DEF TypeOK
<1>2. PendingIsFresh /\ DoneHasRun /\ IdsGiven  BY DEF PendingIsFresh, DoneHasRun, IdsGiven
<1>3. CallSound  BY DEF CallSound, CallerWaits, AnswerIsTrue
<1> QED
  BY <1>1, <1>2, <1>3 DEF CallInv

\* Each critical section of net_call_sync and of the net task keeps it.
LEMMA CallInvStep == ASSUME ConstantsOK, CallInv, [Next]_vars PROVE CallInv'
<1> USE DEF ConstantsOK, CallInv, TypeOK, PendingIsFresh, DoneHasRun, IdsGiven, CallSound, CallerWaits,
            AnswerIsTrue, Ids, Results
<1>1. CASE Post
  <2> USE <1>1 DEF Post
  <2>1. s_net_call' \in BOOLEAN /\ late' \in BOOLEAN  OBVIOUS
  <2>2. TypeOK'  BY <2>1
  <2>3. PendingIsFresh' /\ DoneHasRun' /\ IdsGiven'  OBVIOUS
  <2>4. CallSound'  OBVIOUS
  <2> QED
    BY <2>2, <2>3, <2>4
<1>2. CASE RunInline
  BY <1>2 DEF RunInline
<1>3. CASE Expire
  BY <1>3 DEF Expire
<1>4. CASE SeeDone
  BY <1>4 DEF SeeDone
<1>5. CASE Withdraw
  <2> USE <1>5 DEF Withdraw
  <2>1. s_net_call' \in BOOLEAN  OBVIOUS
  <2>2. TypeOK'  BY <2>1
  <2>3. PendingIsFresh' /\ DoneHasRun' /\ IdsGiven'  OBVIOUS
  <2>4. CallSound'  OBVIOUS
  <2> QED
    BY <2>2, <2>3, <2>4
<1>6. CASE Take
  BY <1>6 DEF Take
<1>7. CASE Run
  BY <1>7 DEF Run
<1>8. CASE Finish
  BY <1>8 DEF Finish
<1>9. CASE UNCHANGED vars
  BY <1>9 DEF vars
<1> QED
  BY <1>1, <1>2, <1>3, <1>4, <1>5, <1>6, <1>7, <1>8, <1>9 DEF Next, Caller, Net

\* So it holds of every behaviour of the run.
LEMMA CallInvariant == MCSpec => []CallInv
<1>1. MCInit => CallInv  BY CallInvInit, Assumptions DEF MCInit
<1>2. [MCNext]_mcVars => [Next]_vars  BY DEF MCNext, Rest, mcVars
<1>3. CallInv /\ [Next]_vars => CallInv'  BY CallInvStep, Assumptions
<1> QED
  BY <1>1, <1>2, <1>3, PTL DEF MCSpec

\* The state of net_call_sync keeps its types.
THEOREM CallTypes == MCSpec => []TypeOK
<1>1. CallInv => TypeOK  BY DEF CallInv
<1> QED
  BY <1>1, CallInvariant, PTL

\* net_call_sync: the net task uses an argument only while its caller waits, and what the caller is
\* told stays true, however time-outs, withdrawals and the net task's passes interleave.
THEOREM CallsSound == MCSpec => []CallSound
<1>1. CallInv => CallSound  BY DEF CallInv
<1> QED
  BY <1>1, CallInvariant, PTL
--------------------------------------------------------------------------------
\* The sequence numbers of net_reload.c: what is committed or taken was requested, and a command that
\* has not committed yet is ahead of the last commit.
SeqsOrdered ==
    /\ s_commit_seq <= s_req_seq /\ s_taken_seq <= s_req_seq /\ seqLoaded <= s_req_seq
    /\ wpc \in {"load", "store", "bump"} => s_req_seq < MaxRequests
    /\ wpc = "handling" => s_commit_seq < s_req_seq
    /\ wpc \in {"idle", "commit"} => replying = {}

\* Where the links still to be reloaded are while the worker is inside net_reload_request.
OwedLatched ==
    /\ wpc \in {"load", "store"} => owed \subseteq s_bits \cup {what}
    /\ wpc = "store" => owed \subseteq bitsLoaded \cup {what}
    /\ wpc = "bump" => owed \subseteq s_bits
    /\ Reload!NeverLost

ReloadInv == Reload!TypeOK /\ SeqsOrdered /\ OwedLatched

\* net_reload.c: every access of the worker and of the net task keeps the invariant.
LEMMA ReloadInvStep ==
    ASSUME ReloadInv, [Reload!Next]_reloadVars
    PROVE  ReloadInv'
<1> USE Assumptions DEF Reload!ConstantsOK, ReloadInv, Reload!TypeOK, SeqsOrdered, OwedLatched, Reload!NeverLost
<1>1. ASSUME NEW l \in Links, Reload!Request(l) PROVE ReloadInv'
  BY <1>1 DEF Reload!Request
<1>2. CASE Reload!LoadBits
  BY <1>2 DEF Reload!LoadBits, Reload!reload
<1>3. CASE Reload!StoreBits
  BY <1>3 DEF Reload!StoreBits
<1>4. CASE Reload!BumpSeq
  BY <1>4 DEF Reload!BumpSeq
<1>5. CASE Reload!Commit
  BY <1>5 DEF Reload!Commit
<1>6. CASE Reload!CommitSeq
  BY <1>6 DEF Reload!CommitSeq
<1>7. ASSUME NEW b \in BOOLEAN, Reload!Take(b) PROVE ReloadInv'
  BY <1>7 DEF Reload!Take
<1>8. CASE Reload!Tick
  BY <1>8 DEF Reload!Tick, Reload!Older
<1>9. CASE UNCHANGED reloadVars
  BY <1>9 DEF reloadVars
<1> QED
  BY <1>1, <1>2, <1>3, <1>4, <1>5, <1>6, <1>7, <1>8, <1>9
  DEF Reload!Next, Reload!Worker, Reload!NetApplyReload

\* A step of the pod is a step of net_reload.c or leaves its state alone.
LEMMA ReloadPart ==
    /\ MCInit => Reload!Init
    /\ [MCNext]_mcVars => [Reload!Next]_reloadVars
<1>1. MCInit => Reload!Init  BY DEF MCInit
<1>2. MCNext => [Reload!Next]_reloadVars  BY DEF MCNext, Rest
<1>3. UNCHANGED mcVars => UNCHANGED reloadVars  BY DEF mcVars
<1> QED BY <1>1, <1>2, <1>3

\* The invariant of net_reload.c holds throughout.
LEMMA ReloadInvariant == MCSpec => []ReloadInv
<1>1. MCInit => ReloadInv
  <2>1. MCInit => Reload!Init  BY ReloadPart
  <2>2. Reload!Init => ReloadInv
    BY Assumptions
    DEF Reload!ConstantsOK, Reload!Init, ReloadInv, Reload!TypeOK, SeqsOrdered, OwedLatched, Reload!NeverLost
  <2> QED BY <2>1, <2>2
<1>2. ReloadInv /\ [MCNext]_mcVars => ReloadInv'  BY ReloadPart, ReloadInvStep
<1> QED BY <1>1, <1>2, PTL DEF MCSpec

\* net_reload.c, "never a lost one": for any links, waits and number of requests, between commands
\* every link that still has to be reloaded is latched and pending.
THEOREM ReloadsNeverLost == MCSpec => []Reload!NeverLost
<1>1. ReloadInv => Reload!NeverLost  BY DEF ReloadInv, OwedLatched
<1> QED BY <1>1, ReloadInvariant, PTL

\* net_reload.h: no link is reloaded ahead of the reply of the command that asked, before
\* NET_RELOAD_MAX_WAIT_MS are over: a command whose reply is not queued has not committed.
THEOREM RepliesBeforeReloads == MCSpec => ReloadReplyFirst
<1>1. ReloadInv /\ [MCNext]_mcVars =>
        [\A l \in s_bits \ s_bits' :
            l \in replying => req_age >= MaxWait \/ wpc \in {"load", "store", "bump"}]_(Reload!vars)
  <2> SUFFICES ASSUME ReloadInv, Reload!Next, NEW l \in s_bits \ s_bits', l \in replying,
                      wpc \notin {"load", "store", "bump"}
               PROVE  req_age >= MaxWait
    BY ReloadPart DEF reloadVars, Reload!vars
  <2>1. Reload!NetApplyReload
    BY DEF Reload!Next, Reload!Worker, Reload!Request, Reload!LoadBits, Reload!StoreBits,
       Reload!BumpSeq, Reload!Commit, Reload!CommitSeq, Reload!Tick
  <2>2. PICK b \in BOOLEAN : Reload!Take(b)
    BY <2>1 DEF Reload!NetApplyReload
  <2>3. wpc = "handling" /\ s_commit_seq # s_req_seq
    BY DEF ReloadInv, SeqsOrdered, Reload!TypeOK
  <2> QED BY <2>2, <2>3 DEF Reload!Take, Reload!Due
<1> QED BY <1>1, ReloadInvariant, PTL DEF MCSpec, ReloadReplyFirst, Reload!ReplyFirst

\* What the pod and its bridge send each other, and what both keep.
ReqTypes == Types \cup {"STATUS", "PAIR"}
PairKeys == [pod : {"none", "us", "other"}, pub : Nat]
Signatures == [key : PairKeys, nonce : Nat, ctr : Nat]
ReqFrames == [type : ReqTypes, seq : Nat, auth : Signatures]
AnswerFrames ==
    [kind : {"ANSWER", "HELLO", "NOTIFY"}, type : ReqTypes, seq : Nat,
     result : {"none", "OK", "AUTH", "STORAGE", "ALREADY_PAIRED", "NOT_PAIRED"},
     nonce : Nat, last : Nat, auth : Signatures, pub : Nat, flag : BOOLEAN]
PodRequests ==
    [state : {"idle", "pending", "done", "timeout"}, type : ReqTypes, seq : Nat, tries : Nat,
     signed : BOOLEAN, resynced : BOOLEAN, internal : BOOLEAN, ctr : Nat,
     result : {"none", "OK", "AUTH", "STORAGE", "ALREADY_PAIRED", "NOT_PAIRED"}]

PodTyped ==
    /\ req \in PodRequests /\ counter \in Nat /\ p_nonce \in Nat /\ seq \in Nat /\ flag \in BOOLEAN
    /\ p_key \in PairKeys /\ (p_key = Pairing!NoKey \/ p_key.pod = "us")
    /\ toBridge \in Seq(ReqFrames)

BridgeTyped ==
    /\ b_nonce \in Nat /\ last_counter \in Nat /\ pubs \in Nat
    /\ b_key \in PairKeys /\ nvs_key \in PairKeys
    /\ executed \subseteq Signatures \X ReqTypes
    /\ down_up \in Seq(AnswerFrames)

\* pairing.c: what was carried out is of this pairing and boot only up to the counter last accepted.
CounterCovers ==
    /\ b_key.pub <= pubs /\ nvs_key.pub <= pubs
    /\ \A e \in executed :
         /\ e[1].nonce <= b_nonce /\ e[1].key.pub <= pubs /\ e[1].key # Pairing!NoKey
         /\ e[1].key = b_key /\ e[1].nonce = b_nonce => e[1].ctr <= last_counter

\* control.c signs OK only for what it has carried out.
SignedIsDone(f) ==
    f.kind = "ANSWER" /\ f.result = "OK" /\ f.auth # Pairing!Unsigned => <<f.auth, f.type>> \in executed
AnswersTrue == \A i \in 1..Len(down_up) : SignedIsDone(down_up[i])

PairInv ==
    /\ PodTyped /\ BridgeTyped /\ CounterCovers /\ AnswersTrue
    /\ Pairing!NoReplay /\ Pairing!DoneIsDone

\* The signature of an unsigned frame is well formed.
LEMMA UnsignedTyped == Pairing!Unsigned \in Signatures /\ Pairing!NoKey \in PairKeys
<1>1. Pairing!NoKey \in PairKeys  BY DEF Pairing!NoKey, PairKeys
<1> QED BY <1>1 DEF Pairing!Unsigned, Signatures

\* send_req: the request, its counter and the frame it sends are well formed.
LEMMA SendKeeps ==
    ASSUME PodTyped, NEW r \in PodRequests, NEW n \in Nat, NEW c \in Nat, Pairing!SendReq(r, n, c)
    PROVE  /\ req' \in PodRequests /\ req'.state = r.state /\ req'.result = r.result
           /\ counter' \in Nat /\ toBridge' \in Seq(ReqFrames)
<1>1. PICK d \in Nat : d = IF r.signed THEN c + 1 ELSE c
  OBVIOUS
<1>2. req' = [r EXCEPT !.tries = @ + 1, !.ctr = IF r.signed THEN d ELSE @] /\ counter' = d
  BY <1>1 DEF Pairing!SendReq
<1>3. req' \in PodRequests /\ req'.state = r.state /\ req'.result = r.result
  <2>1. PICK k \in Nat : k = IF r.signed THEN d ELSE r.ctr
    BY DEF PodRequests
  <2>2. req' = [r EXCEPT !.tries = r.tries + 1, !.ctr = k]  BY <1>2, <2>1
  <2>3. r.tries + 1 \in Nat  BY DEF PodRequests
  <2> QED BY <2>2, <2>3 DEF PodRequests
<1>4. PICK a \in Signatures : a = IF r.signed THEN Pairing!Auth(p_key, n, d) ELSE Pairing!Unsigned
  <2>1. Pairing!Auth(p_key, n, d) \in Signatures  BY DEF PodTyped, Signatures, Pairing!Auth
  <2> QED BY <2>1, UnsignedTyped
<1>5. toBridge' = Append(toBridge, [type |-> r.type, seq |-> r.seq, auth |-> a])
  BY <1>1, <1>4 DEF Pairing!SendReq
<1>6. [type |-> r.type, seq |-> r.seq, auth |-> a] \in ReqFrames  BY DEF ReqFrames, PodRequests
<1>7. toBridge' \in Seq(ReqFrames)  BY <1>5, <1>6 DEF PodTyped
<1> QED BY <1>2, <1>3, <1>7

\* start_req: so are those of a new request.
LEMMA StartKeeps ==
    ASSUME PodTyped, NEW t \in ReqTypes, NEW i \in BOOLEAN, Pairing!StartReq(t, i)
    PROVE  /\ req' \in PodRequests /\ req'.state = "pending" /\ seq' \in Nat
           /\ counter' \in Nat /\ toBridge' \in Seq(ReqFrames)
<1>1. (seq % SeqMax) + 1 \in Nat  BY Assumptions DEF Pairing!ConstantsOK, PodTyped
<1> DEFINE r == [Pairing!NoReq EXCEPT !.state = "pending", !.type = t, !.seq = (seq % SeqMax) + 1,
                                      !.signed = flag, !.internal = i]
<1>2. r \in PodRequests /\ r.state = "pending"  BY <1>1 DEF Pairing!NoReq, PodRequests, PodTyped
<1>3. seq' = (seq % SeqMax) + 1 /\ Pairing!SendReq(r, p_nonce, counter)  BY DEF Pairing!StartReq
<1>4. p_nonce \in Nat /\ counter \in Nat  BY DEF PodTyped
<1> HIDE DEF r
<1> QED BY <1>1, <1>2, <1>3, <1>4, SendKeeps

\* finish: the request it leaves is done with OK, and signed, only if it was signed and the answer OK.
LEMMA FinishKeeps ==
    ASSUME PodTyped, NEW s \in {"done", "timeout"},
           NEW v \in {"none", "OK", "AUTH", "STORAGE", "ALREADY_PAIRED", "NOT_PAIRED"},
           NEW r, r = Pairing!Finished(req, s, v)
    PROVE  /\ r \in PodRequests
           /\ r.state = "done" /\ r.result = "OK" /\ r.signed =>
                s = "done" /\ v = "OK" /\ req.signed /\ r.type = req.type /\ r.ctr = req.ctr
<1>1. r \in PodRequests  BY DEF PodTyped, PodRequests, Pairing!Finished, Pairing!NoReq, ReqTypes
<1> QED BY <1>1 DEF PodTyped, PodRequests, Pairing!Finished, Pairing!NoReq

\* on_reply: the pod's state stays well formed, and a signed request is reported done with OK only
\* on the bridge's signature of it.
LEMMA ReplyKeeps ==
    ASSUME PairInv, NEW f \in AnswerFrames, SignedIsDone(f), f.kind = "ANSWER", req.state = "pending",
           f.type = req.type, p_nonce # 0, UNCHANGED <<seq, executed>>, Pairing!OnReply(f)
    PROVE  PodTyped' /\ Pairing!DoneIsDone'
<1>1. PodTyped /\ BridgeTyped /\ CounterCovers  BY DEF PairInv
<1>2. req \in PodRequests /\ counter \in Nat /\ p_nonce \in Nat /\ toBridge \in Seq(ReqFrames)
      /\ flag \in BOOLEAN /\ seq \in Nat /\ p_key \in PairKeys
      /\ (p_key = Pairing!NoKey \/ p_key.pod = "us")
  BY <1>1 DEF PodTyped
<1>3. f.nonce \in Nat /\ f.last \in Nat /\ f.pub \in Nat
      /\ f.result \in {"none", "OK", "AUTH", "STORAGE", "ALREADY_PAIRED", "NOT_PAIRED"}
  BY DEF AnswerFrames
<1>4. ASSUME NEW v \in {"none", "AUTH", "STORAGE", "ALREADY_PAIRED", "NOT_PAIRED"},
             req' = Pairing!Finished(req, "done", v)
      PROVE  req' \in PodRequests /\ Pairing!DoneIsDone'
  BY <1>1, <1>4, FinishKeeps DEF Pairing!DoneIsDone
<1>5. ASSUME NEW b \in BOOLEAN, NEW n \in Nat, NEW c \in Nat,
             Pairing!SendReq([req EXCEPT !.resynced = b], n, c)
      PROVE  req' \in PodRequests /\ counter' \in Nat /\ toBridge' \in Seq(ReqFrames) /\ Pairing!DoneIsDone'
  <2>1. [req EXCEPT !.resynced = b] \in PodRequests /\ [req EXCEPT !.resynced = b].state = "pending"
    BY <1>2 DEF PodRequests
  <2>2. req' \in PodRequests /\ req'.state = "pending" /\ counter' \in Nat /\ toBridge' \in Seq(ReqFrames)
    BY <1>1, <1>5, <2>1, SendKeeps
  <2> QED BY <2>2 DEF Pairing!DoneIsDone
<1>6. ASSUME f.result = "AUTH", Pairing!OnAuthRefusal(f), UNCHANGED <<p_key, flag, due>>
      PROVE  PodTyped' /\ Pairing!DoneIsDone'
  <2> DEFINE new == ~have_nonce \/ f.nonce # p_nonce
  <2>1. ASSUME new, p_nonce' = f.nonce, req' = Pairing!Finished(req, "done", "AUTH"), counter' = 0,
               UNCHANGED toBridge
        PROVE  PodTyped' /\ Pairing!DoneIsDone'
    BY <1>2, <1>3, <1>4, <1>6, <2>1 DEF PodTyped
  <2>2. ASSUME new, p_nonce' = f.nonce,
               Pairing!SendReq([req EXCEPT !.resynced = req.tries >= Tries], f.nonce, 0)
        PROVE  PodTyped' /\ Pairing!DoneIsDone'
    <3>1. (req.tries >= Tries) \in BOOLEAN  OBVIOUS
    <3>2. req' \in PodRequests /\ counter' \in Nat /\ toBridge' \in Seq(ReqFrames) /\ Pairing!DoneIsDone'
      BY <1>3, <1>5, <2>2, <3>1
    <3> QED BY <1>2, <1>3, <1>6, <2>2, <3>2 DEF PodTyped
  <2>3. ASSUME Pairing!SendReq([req EXCEPT !.resynced = TRUE], p_nonce,
                               IF f.last >= counter THEN f.last ELSE counter),
               UNCHANGED p_nonce
        PROVE  PodTyped' /\ Pairing!DoneIsDone'
    <3>1. (IF f.last >= counter THEN f.last ELSE counter) \in Nat  BY <1>2, <1>3
    <3>2. req' \in PodRequests /\ counter' \in Nat /\ toBridge' \in Seq(ReqFrames) /\ Pairing!DoneIsDone'
      BY <1>2, <1>5, <2>3, <3>1
    <3> QED BY <1>2, <1>6, <2>3, <3>2 DEF PodTyped
  <2>4. ASSUME req' = Pairing!Finished(req, "done", "AUTH"), UNCHANGED <<p_nonce, counter, toBridge>>
        PROVE  PodTyped' /\ Pairing!DoneIsDone'
    BY <1>2, <1>4, <1>6, <2>4 DEF PodTyped
  <2> QED BY <1>6, <2>1, <2>2, <2>3, <2>4 DEF Pairing!OnAuthRefusal
<1>7. ASSUME NEW v \in {"STORAGE", "ALREADY_PAIRED", "NOT_PAIRED"},
             req' = Pairing!Finished(req, "done", v), UNCHANGED <<p_nonce, p_key, counter, toBridge>>,
             flag' \in {flag, FALSE}
      PROVE  PodTyped' /\ Pairing!DoneIsDone'
  BY <1>2, <1>4, <1>7 DEF PodTyped
<1>8. ASSUME f.result = "OK", req.signed => Pairing!Verified(f), Pairing!OnOk(f),
             UNCHANGED <<p_nonce, have_nonce, counter, toBridge>>
      PROVE  PodTyped' /\ Pairing!DoneIsDone'
  <2>1. req' = Pairing!Finished(req, "done", "OK")  BY <1>8 DEF Pairing!OnOk
  <2>2. req' \in PodRequests
        /\ (req'.state = "done" /\ req'.result = "OK" /\ req'.signed =>
              req.signed /\ req'.type = req.type /\ req'.ctr = req.ctr)
    BY <1>1, <2>1, FinishKeeps
  <2>3. p_key' \in PairKeys /\ (p_key' = Pairing!NoKey \/ p_key'.pod = "us") /\ flag' \in BOOLEAN
    <3>1. (p_key' = Pairing!Learn(f.pub) /\ flag' = TRUE) \/ (p_key' = p_key /\ flag' = flag)
      BY <1>8 DEF Pairing!OnOk
    <3>2. Pairing!Learn(f.pub) \in PairKeys /\ Pairing!Learn(f.pub).pod = "us"
      BY <1>3 DEF Pairing!Learn, PairKeys
    <3> QED BY <1>2, <3>1, <3>2
  <2>4. PodTyped'  BY <1>2, <1>8, <2>2, <2>3 DEF PodTyped
  <2>5. ASSUME req.signed
        PROVE  \E e \in executed : e[2] = req.type /\ e[1].ctr = req.ctr /\ e[1].key.pod = "us"
    <3>1. f.auth = Pairing!Auth(p_key, p_nonce, req.ctr)  BY <1>8, <2>5 DEF Pairing!Verified
    <3>2. f.auth.nonce = p_nonce /\ f.auth.ctr = req.ctr /\ f.auth.key = p_key
      BY <3>1 DEF Pairing!Auth
    <3>3. f.auth # Pairing!Unsigned  BY <3>2 DEF Pairing!Unsigned
    <3>4. <<f.auth, f.type>> \in executed  BY <1>8, <3>3 DEF SignedIsDone
    <3>5. f.auth.key # Pairing!NoKey  BY <3>4, <1>1 DEF CounterCovers
    <3> QED BY <3>2, <3>4, <3>5, <1>2
  <2>6. Pairing!DoneIsDone'  BY <2>2, <2>5 DEF Pairing!DoneIsDone
  <2> QED BY <2>4, <2>6
<1>9. ASSUME UNCHANGED <<p_nonce, have_nonce, p_key, counter, flag, paired, problem, req, due, toBridge>>
      PROVE  PodTyped' /\ Pairing!DoneIsDone'
  BY <1>2, <1>9 DEF PodTyped, Pairing!DoneIsDone
<1> QED BY <1>6, <1>7, <1>8, <1>9 DEF Pairing!OnReply

\* on_hello, wb_rx.
LEMMA HelloKeeps ==
    ASSUME PodTyped, Pairing!DoneIsDone, NEW f \in AnswerFrames, Pairing!OnHello(f), UNCHANGED executed
    PROVE  PodTyped' /\ Pairing!DoneIsDone'
<1>1. f.nonce \in Nat /\ f.pub \in Nat /\ f.flag \in BOOLEAN  BY DEF AnswerFrames
<1>2. p_nonce' \in Nat /\ counter' \in Nat /\ UNCHANGED <<req, seq, toBridge>>
  BY <1>1 DEF Pairing!OnHello, PodTyped
<1>3. p_key' = Pairing!Learn(f.pub) \/ p_key' = Pairing!NoKey  BY DEF Pairing!OnHello
<1>4. Pairing!Learn(f.pub) \in PairKeys /\ Pairing!Learn(f.pub).pod = "us"
  BY <1>1 DEF Pairing!Learn, PairKeys
<1>5. flag' \in BOOLEAN  BY <1>1 DEF Pairing!OnHello
<1> QED BY <1>2, <1>3, <1>4, <1>5, UnsignedTyped DEF PodTyped, Pairing!DoneIsDone

\* A frame received leaves the ones behind it as they are.
LEMMA TailKeeps ==
    ASSUME BridgeTyped, AnswersTrue, down_up # <<>>, down_up' = Tail(down_up),
           UNCHANGED <<b_nonce, last_counter, pubs, b_key, nvs_key, executed>>
    PROVE  BridgeTyped' /\ AnswersTrue' /\ Head(down_up) \in AnswerFrames /\ SignedIsDone(Head(down_up))
<1>1. down_up \in Seq(AnswerFrames)  BY DEF BridgeTyped
<1>2. Len(down_up) \in Nat \ {0} /\ Head(down_up) = down_up[1] /\ Head(down_up) \in AnswerFrames
  BY <1>1
<1>3. down_up' \in Seq(AnswerFrames) /\ Len(down_up') = Len(down_up) - 1  BY <1>1
<1>4. \A i \in 1..Len(down_up') : down_up'[i] = down_up[i + 1]  BY <1>1, <1>2, <1>3
<1>5. BridgeTyped'  BY <1>3 DEF BridgeTyped
<1>6. AnswersTrue'
  <2> SUFFICES ASSUME NEW i \in 1..Len(down_up') PROVE SignedIsDone(down_up'[i])
    BY DEF AnswersTrue, SignedIsDone
  <2>1. i + 1 \in 1..Len(down_up)  BY <1>2, <1>3
  <2> QED BY <2>1, <1>4 DEF AnswersTrue
<1>7. SignedIsDone(Head(down_up))  BY <1>2 DEF AnswersTrue
<1> QED BY <1>2, <1>5, <1>6, <1>7

\* A frame that says no more than is true joins the ones on the cable.
LEMMA PutKeeps ==
    ASSUME down_up \in Seq(AnswerFrames), NEW f \in AnswerFrames, Pairing!Put(f)
    PROVE  /\ down_up' \in Seq(AnswerFrames)
           /\ AnswersTrue /\ executed \subseteq executed' /\ SignedIsDone(f)' => AnswersTrue'
<1>1. down_up' = Append(down_up, f)  BY DEF Pairing!Put
<1>2. down_up' \in Seq(AnswerFrames) /\ Len(down_up') = Len(down_up) + 1 /\ Len(down_up) \in Nat
  BY <1>1
<1>3. \A i \in 1..Len(down_up') : down_up'[i] = IF i = Len(down_up) + 1 THEN f ELSE down_up[i]
  BY <1>1, <1>2
<1>4. ASSUME AnswersTrue, executed \subseteq executed', SignedIsDone(f)', NEW i \in 1..Len(down_up')
      PROVE  SignedIsDone(down_up[i])'
  <2>1. CASE i = Len(down_up) + 1
    BY <1>3, <1>4, <2>1 DEF SignedIsDone
  <2>2. CASE i # Len(down_up) + 1
    <3>1. i \in 1..Len(down_up)  BY <1>2, <2>2
    <3> QED BY <1>3, <1>4, <2>2, <3>1 DEF AnswersTrue, SignedIsDone
  <2> QED BY <2>1, <2>2
<1> QED BY <1>2, <1>4 DEF AnswersTrue

\* wifi_bridge.c: no step of the pod breaks the invariant.
LEMMA PodStepKeeps ==
    ASSUME PairInv, \/ Pairing!PollPending \/ Pairing!PollIdle \/ Pairing!UserRequest
                    \/ Pairing!Release \/ Pairing!PodRx
    PROVE  PairInv'
<1>1. PodTyped /\ BridgeTyped /\ CounterCovers /\ AnswersTrue /\ Pairing!NoReplay /\ Pairing!DoneIsDone
  BY DEF PairInv
<1>2. UNCHANGED <<b_nonce, b_key, nvs_key, last_counter, pubs, executed, again>>
  BY DEF Pairing!PollPending, Pairing!PollIdle, Pairing!UserRequest, Pairing!Release, Pairing!PodRx,
     Pairing!brVars
<1>3. CounterCovers' /\ Pairing!NoReplay'  BY <1>1, <1>2 DEF CounterCovers, Pairing!NoReplay
<1>4. UNCHANGED down_up => BridgeTyped' /\ AnswersTrue'
  BY <1>1, <1>2 DEF BridgeTyped, AnswersTrue, SignedIsDone
<1>5. ASSUME NEW t \in ReqTypes, NEW i \in BOOLEAN, Pairing!StartReq(t, i), UNCHANGED <<p_nonce, p_key, flag>>
      PROVE  PodTyped' /\ Pairing!DoneIsDone'
  <2>1. /\ req' \in PodRequests /\ req'.state = "pending" /\ seq' \in Nat
        /\ counter' \in Nat /\ toBridge' \in Seq(ReqFrames)
    BY <1>1, <1>5, StartKeeps
  <2> QED BY <1>1, <1>5, <2>1 DEF PodTyped, Pairing!DoneIsDone
<1>6. CASE Pairing!PollPending
  <2>1. UNCHANGED <<p_nonce, p_key, flag, seq, down_up>> /\ req.state = "pending"
    BY <1>6 DEF Pairing!PollPending
  <2>2. CASE Pairing!SendReq(req, p_nonce, counter)
    <3>1. req' \in PodRequests /\ req'.state = "pending" /\ counter' \in Nat /\ toBridge' \in Seq(ReqFrames)
      BY <1>1, <2>1, <2>2, SendKeeps DEF PodTyped
    <3>2. PodTyped' /\ Pairing!DoneIsDone'  BY <1>1, <2>1, <3>1 DEF PodTyped, Pairing!DoneIsDone
    <3> QED BY <1>3, <1>4, <2>1, <3>2 DEF PairInv
  <2>3. CASE req' = Pairing!Finished(req, "timeout", "none") /\ UNCHANGED <<counter, toBridge>>
    <3>1. req' \in PodRequests /\ ~(req'.state = "done" /\ req'.result = "OK" /\ req'.signed)
      BY <1>1, <2>3, FinishKeeps
    <3>2. PodTyped' /\ Pairing!DoneIsDone'
      BY <1>1, <2>1, <2>3, <3>1 DEF PodTyped, Pairing!DoneIsDone
    <3> QED BY <1>3, <1>4, <2>1, <3>2 DEF PairInv
  <2> QED BY <1>6, <2>2, <2>3 DEF Pairing!PollPending
<1>7. CASE Pairing!PollIdle
  <2>1. UNCHANGED <<p_nonce, p_key, flag, down_up>>
        /\ (Pairing!StartReq("PAIR", TRUE) \/ Pairing!StartReq("STATUS", TRUE))
    BY <1>7 DEF Pairing!PollIdle
  <2>2. PodTyped' /\ Pairing!DoneIsDone'  BY <1>5, <2>1 DEF ReqTypes
  <2> QED BY <1>3, <1>4, <2>1, <2>2 DEF PairInv
<1>8. CASE Pairing!UserRequest
  <2>1. UNCHANGED <<p_nonce, p_key, flag, down_up>>  BY <1>8 DEF Pairing!UserRequest
  <2>2. PICK t \in Types : Pairing!StartReq(t, FALSE)
    BY <1>8 DEF Pairing!UserRequest
  <2>3. PodTyped' /\ Pairing!DoneIsDone'  BY <1>5, <2>1, <2>2 DEF ReqTypes
  <2> QED BY <1>3, <1>4, <2>1, <2>3 DEF PairInv
<1>9. CASE Pairing!Release
  <2>1. req' = Pairing!NoReq /\ UNCHANGED <<p_nonce, p_key, counter, flag, seq, toBridge, down_up>>
    BY <1>9 DEF Pairing!Release
  <2>2. PodTyped' /\ Pairing!DoneIsDone'
    BY <1>1, <2>1 DEF PodTyped, Pairing!DoneIsDone, Pairing!NoReq, PodRequests, ReqTypes
  <2> QED BY <1>3, <1>4, <2>1, <2>2 DEF PairInv
<1>10. CASE Pairing!PodRx
  <2>1. down_up # <<>> /\ down_up' = Tail(down_up)  BY <1>10 DEF Pairing!PodRx
  <2>2. BridgeTyped' /\ AnswersTrue' /\ Head(down_up) \in AnswerFrames /\ SignedIsDone(Head(down_up))
    BY <1>1, <1>2, <2>1, TailKeeps
  <2>3. PICK f \in AnswerFrames : f = Head(down_up)
    BY <2>2
  <2>4. CASE f.kind = "HELLO" /\ Pairing!OnHello(f)
    BY <1>1, <1>2, <1>3, <2>2, <2>4, HelloKeeps DEF PairInv
  <2>5. CASE /\ flag' = IF p_nonce # 0 THEN f.flag ELSE flag
             /\ UNCHANGED <<p_nonce, p_key, counter, req, seq, toBridge>>
    <3>1. flag' \in BOOLEAN  BY <1>1, <2>5 DEF AnswerFrames, PodTyped
    <3>2. PodTyped' /\ Pairing!DoneIsDone'
      BY <1>1, <1>2, <2>5, <3>1 DEF PodTyped, Pairing!DoneIsDone
    <3> QED BY <1>3, <2>2, <3>2 DEF PairInv
  <2>6. CASE /\ f.kind = "ANSWER" /\ UNCHANGED seq
             /\ req.state = "pending" /\ f.type = req.type /\ p_nonce # 0 /\ Pairing!OnReply(f)
    <3>1. PodTyped' /\ Pairing!DoneIsDone'  BY <1>2, <2>2, <2>3, <2>6, ReplyKeeps
    <3> QED BY <1>3, <2>2, <3>1 DEF PairInv
  <2>7. CASE UNCHANGED <<p_nonce, p_key, counter, flag, req, toBridge, seq>>
    <3>1. PodTyped' /\ Pairing!DoneIsDone'  BY <1>1, <1>2, <2>7 DEF PodTyped, Pairing!DoneIsDone
    <3> QED BY <1>3, <2>2, <3>1 DEF PairInv
  <2> QED BY <1>10, <2>3, <2>4, <2>5, <2>6, <2>7 DEF Pairing!PodRx
<1> QED BY <1>6, <1>7, <1>8, <1>9, <1>10

\* pairing_check: a frame accepted under a key has that key's signature, for this boot, with a counter
\* above the last one.
LEMMA VerdictFacts ==
    ASSUME NEW f
    PROVE  /\ Pairing!Verdict(f) \in {"NOT_PAIRED", "ALREADY_PAIRED", "AUTH", "REPLAY", "ACCEPT"}
           /\ Pairing!Verdict(f) = "ACCEPT" /\ b_key # Pairing!NoKey =>
                f.auth.key = b_key /\ f.auth.nonce = b_nonce /\ ~(f.auth.ctr <= last_counter)
  BY DEF Pairing!Verdict, Pairing!Replay

\* handle: an answer is well formed.
LEMMA AnswerTyped ==
    ASSUME NEW f \in ReqFrames, NEW n \in Nat, NEW p \in Nat, NEW a \in Signatures, b_nonce \in Nat,
           NEW r \in {"none", "OK", "AUTH", "STORAGE", "ALREADY_PAIRED", "NOT_PAIRED"}
    PROVE  Pairing!Answer(f, r, n, a, p) \in AnswerFrames
<1>1. f.type \in ReqTypes /\ f.seq \in Nat  BY DEF ReqFrames
<1>2. (b_key # Pairing!NoKey) \in BOOLEAN  OBVIOUS
<1> QED BY <1>1, <1>2 DEF Pairing!Answer, AnswerFrames

\* handle: the bridge carries out a request it accepted.
LEMMA CarryKeeps ==
    ASSUME PairInv, NEW f \in ReqFrames, Pairing!Verdict(f) = "ACCEPT", Pairing!Carry(f)
    PROVE  BridgeTyped' /\ CounterCovers' /\ AnswersTrue' /\ Pairing!NoReplay' /\ executed \subseteq executed'
<1>1. BridgeTyped /\ CounterCovers /\ AnswersTrue /\ Pairing!NoReplay  BY DEF PairInv
<1>2. f.auth \in Signatures /\ f.type \in ReqTypes /\ f.seq \in Nat
      /\ f.auth.key \in PairKeys /\ f.auth.nonce \in Nat /\ f.auth.ctr \in Nat
  BY DEF ReqFrames, Signatures
<1>3. b_nonce \in Nat /\ last_counter \in Nat /\ pubs \in Nat /\ b_key \in PairKeys /\ nvs_key \in PairKeys
      /\ executed \subseteq Signatures \X ReqTypes /\ down_up \in Seq(AnswerFrames)
  BY <1>1 DEF BridgeTyped
<1>4. b_key # Pairing!NoKey =>
        f.auth.key = b_key /\ f.auth.nonce = b_nonce /\ last_counter < f.auth.ctr
  BY <1>2, <1>3, VerdictFacts
<1>5. b_key # Pairing!NoKey => \A e \in executed : e[1] # f.auth
  BY <1>1, <1>3, <1>4 DEF CounterCovers, Signatures
<1>6. Pairing!NoReplay'  BY <1>1, <1>5 DEF Pairing!NoReplay, Pairing!Carry
<1>7. /\ b_key # Pairing!NoKey => executed' = executed \cup {<<f.auth, f.type>>}
      /\ b_key = Pairing!NoKey => executed' = executed
  BY DEF Pairing!Carry
<1>8. executed' \subseteq Signatures \X ReqTypes /\ executed \subseteq executed'
  BY <1>2, <1>3, <1>7
<1>9. PICK auth \in Signatures : auth = IF b_key # Pairing!NoKey THEN f.auth ELSE Pairing!Unsigned
  BY <1>2, UnsignedTyped
<1>10. auth # Pairing!Unsigned => <<auth, f.type>> \in executed'  BY <1>7, <1>9
<1>11. ASSUME NEW r \in {"OK", "STORAGE"}, NEW p \in Nat, Pairing!Put(Pairing!Answer(f, r, 0, auth, p))
       PROVE  down_up' \in Seq(AnswerFrames) /\ AnswersTrue'
  <2>1. PICK a \in AnswerFrames : a = Pairing!Answer(f, r, 0, auth, p)
    BY <1>3, AnswerTyped
  <2>2. a.auth = auth /\ a.type = f.type  BY <2>1 DEF Pairing!Answer
  <2>3. SignedIsDone(a)'  BY <1>10, <2>2 DEF SignedIsDone
  <2> QED BY <1>1, <1>3, <1>8, <1>11, <2>1, <2>3, PutKeeps
<1>12. CASE f.type = "PAIR" /\ Pairing!StorePairing(f, auth)
  <2>1. CASE /\ pubs' = pubs + 1 /\ nvs_key' = [pod |-> "us", pub |-> pubs + 1] /\ b_key' = nvs_key'
             /\ last_counter' = 0 /\ Pairing!Put(Pairing!Answer(f, "OK", 0, auth, pubs + 1))
             /\ UNCHANGED b_nonce
    <3>1. down_up' \in Seq(AnswerFrames) /\ AnswersTrue'  BY <1>3, <1>11, <2>1
    <3>2. b_key' \in PairKeys /\ nvs_key' \in PairKeys /\ b_key'.pub = pubs + 1 /\ nvs_key'.pub = pubs + 1
      BY <1>3, <2>1 DEF PairKeys
    <3>3. BridgeTyped'  BY <1>3, <1>8, <2>1, <3>1, <3>2 DEF BridgeTyped
    <3>4. \A e \in executed' : e[1].nonce <= b_nonce /\ e[1].key.pub <= pubs /\ e[1].key # Pairing!NoKey
      BY <1>1, <1>3, <1>4, <1>7, <1>2 DEF CounterCovers
    <3>5. \A e \in executed' : e[1].key.pub \in Nat  BY <1>8 DEF Signatures, PairKeys
    <3>6. CounterCovers'  BY <1>3, <2>1, <3>2, <3>4, <3>5 DEF CounterCovers
    <3> QED BY <1>6, <1>8, <3>1, <3>3, <3>6
  <2>2. CASE /\ Pairing!Put(Pairing!Answer(f, "STORAGE", 0, auth, 0)) /\ last_counter' = auth.ctr
             /\ UNCHANGED <<b_nonce, b_key, nvs_key, pubs>>
    <3>1. down_up' \in Seq(AnswerFrames) /\ AnswersTrue'  BY <1>11, <2>2
    <3>2. last_counter' \in Nat  BY <2>2 DEF Signatures
    <3>3. BridgeTyped'  BY <1>3, <1>8, <2>2, <3>1, <3>2 DEF BridgeTyped
    <3>4. CounterCovers'
      BY <1>1, <1>2, <1>3, <1>4, <1>7, <1>9, <2>2 DEF CounterCovers, Signatures
    <3> QED BY <1>6, <1>8, <3>1, <3>3, <3>4
  <2> QED BY <1>12, <2>1, <2>2 DEF Pairing!StorePairing
<1>13. CASE Pairing!Put(Pairing!Answer(f, "OK", 0, auth, 0)) /\ UNCHANGED pubs
            /\ \E k \in {nvs_key, Pairing!NoKey} : Pairing!Boot(k)
  <2>1. down_up' \in Seq(AnswerFrames) /\ AnswersTrue'  BY <1>11, <1>13
  <2>2. b_nonce' = b_nonce + 1 /\ b_key' = nvs_key' /\ nvs_key' \in {nvs_key, Pairing!NoKey} /\ last_counter' = 0
    BY <1>13 DEF Pairing!Boot
  <2>3. BridgeTyped'  BY <1>3, <1>8, <1>13, <2>1, <2>2, UnsignedTyped DEF BridgeTyped
  <2>4. \A e \in executed' : e[1].nonce <= b_nonce /\ e[1].key.pub <= pubs /\ e[1].key # Pairing!NoKey
                             /\ e[1].nonce \in Nat
    BY <1>1, <1>2, <1>3, <1>4, <1>7, <1>8 DEF CounterCovers, Signatures
  <2>5. CounterCovers'  BY <1>1, <1>3, <1>13, <2>2, <2>4 DEF CounterCovers, Pairing!NoKey
  <2> QED BY <1>6, <1>8, <2>1, <2>3, <2>5
<1>14. CASE Pairing!Put(Pairing!Answer(f, "OK", 0, auth, 0)) /\ last_counter' = auth.ctr
            /\ UNCHANGED <<b_nonce, b_key, nvs_key, pubs>>
  <2>1. down_up' \in Seq(AnswerFrames) /\ AnswersTrue'  BY <1>11, <1>14
  <2>2. last_counter' \in Nat  BY <1>14 DEF Signatures
  <2>3. BridgeTyped'  BY <1>3, <1>8, <1>14, <2>1, <2>2 DEF BridgeTyped
  <2>4. CounterCovers'
    BY <1>1, <1>2, <1>3, <1>4, <1>7, <1>9, <1>14 DEF CounterCovers, Signatures
  <2> QED BY <1>6, <1>8, <2>1, <2>3, <2>4
<1> QED BY <1>9, <1>12, <1>13, <1>14 DEF Pairing!Carry

\* control.c: no step of the bridge breaks the invariant.
LEMMA BridgeStepKeeps ==
    ASSUME PairInv, Pairing!BridgeRx \/ Pairing!BridgeSpeaks
    PROVE  PairInv'
<1>1. PodTyped /\ BridgeTyped /\ CounterCovers /\ AnswersTrue /\ Pairing!NoReplay /\ Pairing!DoneIsDone
  BY DEF PairInv
<1>2. UNCHANGED <<req, counter, p_nonce, seq, flag, p_key>>
  BY DEF Pairing!BridgeRx, Pairing!BridgeSpeaks, Pairing!podVars
<1>3. executed \subseteq executed' => Pairing!DoneIsDone'  BY <1>1, <1>2 DEF Pairing!DoneIsDone
<1>4. ASSUME NEW a \in AnswerFrames, Pairing!Put(a), a.kind # "ANSWER" \/ a.auth = Pairing!Unsigned,
             UNCHANGED Pairing!brVars, PodTyped'
      PROVE  PairInv'
  <2>1. UNCHANGED <<b_nonce, b_key, nvs_key, last_counter, pubs, executed, again>>
    BY <1>4 DEF Pairing!brVars
  <2>2. SignedIsDone(a)'  BY <1>4 DEF SignedIsDone
  <2>3. down_up' \in Seq(AnswerFrames) /\ AnswersTrue'
    BY <1>1, <1>4, <2>1, <2>2, PutKeeps DEF BridgeTyped
  <2>4. BridgeTyped' /\ CounterCovers' /\ Pairing!NoReplay'
    BY <1>1, <2>1, <2>3 DEF BridgeTyped, CounterCovers, Pairing!NoReplay
  <2> QED BY <1>3, <1>4, <2>1, <2>3, <2>4 DEF PairInv
<1>5. b_nonce \in Nat /\ last_counter \in Nat /\ b_key \in PairKeys /\ b_key.pub \in Nat
  BY <1>1 DEF BridgeTyped, PairKeys
<1>6. CASE Pairing!BridgeSpeaks
  <2>1. Pairing!Hello \in AnswerFrames /\ Pairing!Hello.kind = "HELLO"
    BY <1>5, UnsignedTyped DEF Pairing!Hello, AnswerFrames, ReqTypes
  <2>2. Pairing!Notify \in AnswerFrames /\ Pairing!Notify.kind = "NOTIFY"
    BY <2>1 DEF Pairing!Notify, AnswerFrames
  <2>3. PodTyped' /\ UNCHANGED Pairing!brVars
    BY <1>1, <1>2, <1>6 DEF PodTyped, Pairing!BridgeSpeaks
  <2>4. PICK a \in AnswerFrames : Pairing!Put(a) /\ a.kind # "ANSWER"
    BY <1>6, <2>1, <2>2 DEF Pairing!BridgeSpeaks
  <2> QED BY <1>4, <2>3, <2>4
<1>7. CASE Pairing!BridgeRx
  <2>1. toBridge # <<>> /\ toBridge' = Tail(toBridge)  BY <1>7 DEF Pairing!BridgeRx
  <2>2. toBridge' \in Seq(ReqFrames) /\ Head(toBridge) \in ReqFrames  BY <1>1, <2>1 DEF PodTyped
  <2>3. PodTyped'  BY <1>1, <1>2, <2>2 DEF PodTyped
  <2>4. PICK f \in ReqFrames : f = Head(toBridge)
    BY <2>2
  <2>5. CASE Pairing!Refuse(f, Pairing!Verdict(f))
    <3>1. PICK v \in {"NOT_PAIRED", "ALREADY_PAIRED", "AUTH", "REPLAY"} : v = Pairing!Verdict(f)
      BY <2>5, VerdictFacts DEF Pairing!Refuse
    <3>2. PICK a \in AnswerFrames :
            a = Pairing!Answer(f, IF v = "REPLAY" THEN "AUTH" ELSE v,
                               IF v = "REPLAY" THEN last_counter ELSE 0, Pairing!Unsigned, 0)
      BY <1>5, UnsignedTyped, AnswerTyped
    <3>3. a.auth = Pairing!Unsigned  BY <3>2 DEF Pairing!Answer
    <3>4. Pairing!Put(a) /\ UNCHANGED Pairing!brVars  BY <2>5, <3>1, <3>2 DEF Pairing!Refuse
    <3> QED BY <1>4, <2>3, <3>3, <3>4
  <2>6. CASE Pairing!Verdict(f) = "ACCEPT" /\ Pairing!Carry(f)
    <3>1. BridgeTyped' /\ CounterCovers' /\ AnswersTrue' /\ Pairing!NoReplay' /\ executed \subseteq executed'
      BY <2>6, CarryKeeps
    <3> QED BY <1>3, <2>3, <3>1 DEF PairInv
  <2> QED BY <1>7, <2>4, <2>5, <2>6 DEF Pairing!BridgeRx
<1> QED BY <1>6, <1>7

\* A frame lost, a reboot of either side, another pod and the PAIR button keep the invariant.
LEMMA FaultKeeps ==
    ASSUME PairInv, Pairing!Faults
    PROVE  PairInv'
<1>1. PodTyped /\ BridgeTyped /\ CounterCovers /\ AnswersTrue /\ Pairing!NoReplay /\ Pairing!DoneIsDone
  BY DEF PairInv
<1>2. <<>> \in Seq(ReqFrames) /\ <<>> \in Seq(AnswerFrames) /\ Len(<<>>) = 0  OBVIOUS
<1>3. UNCHANGED <<executed, again>>
  BY DEF Pairing!Faults, Pairing!Lose, Pairing!Away, Pairing!BridgeReboots, Pairing!Forget,
     Pairing!PodReboots, Pairing!brVars
<1>4. Pairing!NoReplay'  BY <1>1, <1>3 DEF Pairing!NoReplay
<1>5. UNCHANGED <<b_nonce, b_key, nvs_key, last_counter, pubs>> => CounterCovers'
  BY <1>1, <1>3 DEF CounterCovers
<1>6. UNCHANGED <<b_nonce, b_key, nvs_key, last_counter, pubs, down_up>> => BridgeTyped'
  BY <1>1, <1>3 DEF BridgeTyped
<1>7. down_up' = <<>> => AnswersTrue'  BY <1>2 DEF AnswersTrue
<1>8. down_up' = down_up => AnswersTrue'  BY <1>1, <1>3 DEF AnswersTrue, SignedIsDone
<1>9. UNCHANGED <<req, counter, p_nonce, seq, flag, p_key>> /\ toBridge' \in Seq(ReqFrames)
        => PodTyped' /\ Pairing!DoneIsDone'
  BY <1>1, <1>3 DEF PodTyped, Pairing!DoneIsDone
<1>10. toBridge \in Seq(ReqFrames) /\ (toBridge # <<>> => Tail(toBridge) \in Seq(ReqFrames))
  BY <1>1 DEF PodTyped
<1>11. CASE Pairing!Lose
  <2>1. UNCHANGED <<b_nonce, b_key, nvs_key, last_counter, pubs, req, counter, p_nonce, seq, flag, p_key>>
    BY <1>11 DEF Pairing!Lose, Pairing!brVars, Pairing!podVars
  <2>2. CASE toBridge # <<>> /\ toBridge' = Tail(toBridge) /\ UNCHANGED down_up
    BY <1>4, <1>5, <1>6, <1>8, <1>9, <1>10, <2>1, <2>2 DEF PairInv
  <2>3. CASE down_up # <<>> /\ down_up' = Tail(down_up) /\ UNCHANGED toBridge
    <3>1. BridgeTyped' /\ AnswersTrue'  BY <1>1, <1>3, <2>1, <2>3, TailKeeps
    <3> QED BY <1>4, <1>5, <1>9, <1>10, <2>1, <2>3, <3>1 DEF PairInv
  <2> QED BY <1>11, <2>2, <2>3 DEF Pairing!Lose
<1>12. CASE Pairing!Away
  <2>1. UNCHANGED <<b_nonce, b_key, nvs_key, last_counter, pubs, req, counter, p_nonce, seq, flag, p_key>>
        /\ toBridge' = <<>> /\ down_up' = <<>>
    BY <1>12 DEF Pairing!Away, Pairing!brVars
  <2>2. BridgeTyped'  BY <1>1, <1>2, <1>3, <2>1 DEF BridgeTyped
  <2> QED BY <1>2, <1>4, <1>5, <1>7, <1>9, <2>1, <2>2 DEF PairInv
<1>13. CASE Pairing!BridgeReboots
  <2>1. UNCHANGED <<req, counter, p_nonce, seq, flag, p_key>> /\ toBridge' = <<>> /\ down_up' = <<>>
    BY <1>13 DEF Pairing!BridgeReboots
  <2>2. PICK k \in {nvs_key, Pairing!NoKey, [pod |-> "other", pub |-> pubs + 1]} :
          Pairing!Boot(k) /\ pubs' = IF k.pod = "other" THEN pubs + 1 ELSE pubs
    BY <1>13 DEF Pairing!BridgeReboots
  <2>3. b_nonce' = b_nonce + 1 /\ b_key' = k /\ nvs_key' = k /\ last_counter' = 0
    BY <2>2 DEF Pairing!Boot
  <2>4. pubs \in Nat /\ b_nonce \in Nat /\ executed \subseteq Signatures \X ReqTypes
    BY <1>1 DEF BridgeTyped
  <2>5. k \in PairKeys /\ k.pub <= pubs' /\ pubs' \in Nat /\ pubs <= pubs'
    BY <1>1, <2>2, <2>4, UnsignedTyped DEF BridgeTyped, CounterCovers, PairKeys, Pairing!NoKey
  <2>6. BridgeTyped'  BY <1>2, <1>3, <2>1, <2>3, <2>4, <2>5 DEF BridgeTyped
  <2>7. \A e \in executed : e[1].nonce \in Nat /\ e[1].key.pub \in Nat
    BY <2>4 DEF Signatures, PairKeys
  <2>8. CounterCovers'  BY <1>1, <1>3, <2>3, <2>4, <2>5, <2>7 DEF CounterCovers
  <2> QED BY <1>2, <1>4, <1>7, <1>9, <2>1, <2>6, <2>8 DEF PairInv
<1>14. CASE Pairing!Forget
  <2>1. UNCHANGED <<req, counter, p_nonce, seq, flag, p_key, b_nonce, last_counter, pubs, toBridge, down_up>>
        /\ b_key' = Pairing!NoKey /\ nvs_key' = Pairing!NoKey
    BY <1>14 DEF Pairing!Forget, Pairing!podVars
  <2>2. BridgeTyped'  BY <1>1, <1>3, <2>1, UnsignedTyped DEF BridgeTyped
  <2>3. CounterCovers'  BY <1>1, <1>3, <2>1 DEF CounterCovers, Pairing!NoKey, BridgeTyped
  <2> QED BY <1>4, <1>8, <1>9, <1>10, <2>1, <2>2, <2>3 DEF PairInv
<1>15. CASE Pairing!PodReboots
  <2>1. UNCHANGED <<b_nonce, b_key, nvs_key, last_counter, pubs>> /\ toBridge' = <<>> /\ down_up' = <<>>
        /\ req' = Pairing!NoReq /\ counter' = 0 /\ p_nonce' = 0 /\ seq' = 0 /\ flag' = FALSE
        /\ p_key' = Pairing!NoKey
    BY <1>15 DEF Pairing!PodReboots, Pairing!brVars
  <2>2. BridgeTyped'  BY <1>1, <1>2, <1>3, <2>1 DEF BridgeTyped
  <2>3. PodTyped' /\ Pairing!DoneIsDone'
    BY <1>2, <2>1, UnsignedTyped DEF PodTyped, Pairing!DoneIsDone, Pairing!NoReq, PodRequests, ReqTypes
  <2> QED BY <1>4, <1>5, <1>7, <2>1, <2>2, <2>3 DEF PairInv
<1> QED BY <1>11, <1>12, <1>13, <1>14, <1>15 DEF Pairing!Faults

\* The invariant of the pod's channel to its bridge holds throughout.
LEMMA PairInvariant == MCSpec => []PairInv
<1>1. MCInit => PairInv
  <2> SUFFICES ASSUME Pairing!Init PROVE PairInv
    BY DEF MCInit
  <2>1. PodTyped
    <3>1. Pairing!NoReq \in PodRequests  BY DEF Pairing!NoReq, PodRequests, ReqTypes
    <3>2. <<>> \in Seq(ReqFrames)  OBVIOUS
    <3> QED BY <3>1, <3>2, UnsignedTyped DEF Pairing!Init, PodTyped
  <2>2. BridgeTyped /\ CounterCovers /\ AnswersTrue
    BY UnsignedTyped DEF Pairing!Init, BridgeTyped, CounterCovers, AnswersTrue, Pairing!NoKey
  <2> QED BY <2>1, <2>2 DEF PairInv, Pairing!Init, Pairing!NoReplay, Pairing!DoneIsDone, Pairing!NoReq
<1>2. ASSUME PairInv, [MCNext]_mcVars PROVE PairInv'
  <2>1. CASE UNCHANGED pairingVars
    BY <1>2, <2>1 DEF pairingVars, PairInv, PodTyped, BridgeTyped, CounterCovers, AnswersTrue, SignedIsDone,
       Pairing!NoReplay, Pairing!DoneIsDone
  <2>2. CASE Pairing!Next
    BY <1>2, <2>2, PodStepKeeps, BridgeStepKeeps, FaultKeeps DEF Pairing!Next
  <2>3. Pairing!Next \/ UNCHANGED pairingVars  BY <1>2 DEF MCNext, Rest, mcVars
  <2> QED BY <2>1, <2>2, <2>3
<1> QED BY <1>1, <1>2, PTL DEF MCSpec

\* PROTOCOL.md, "COUNTER must be higher than the last one the bridge accepted for this NONCE": for any
\* number of losses, reboots, presses of PAIR and other pods, and any cable and number of tries, the
\* bridge carries out no signed frame twice, and what the pod reports done the bridge has carried out
\* under the signature of the last send.
THEOREM PairingSound == MCSpec => [](Pairing!NoReplay /\ Pairing!DoneIsDone)
<1>1. PairInv => Pairing!NoReplay /\ Pairing!DoneIsDone  BY DEF PairInv
<1> QED BY <1>1, PairInvariant, PTL

StationEvents == {"STA_START", "APPLY", "CONNECTED", "LEFT", "LOST", "POD_GONE", "POD_BACK"}
InQueue(q, ev) == \E i \in 1..Len(q) : q[i] = ev

\* The station's MAC is the pod's, or the Wi-Fi task has the change before it; or it has nothing to join.
MacRight == s_sta_mac = pod_mac \/ (s_sta_mac \in Pods /\ (stored = None \/ InQueue(evq, "APPLY")))

\* wifi.c: a join, or the credentials for one, implies a started station, a pod and its MAC.
StationInv ==
    /\ evq \in Seq(StationEvents)
    /\ s_sta_mac \in Pods \cup {Factory} /\ pod_mac \in Pods \cup {None} /\ s_started \in BOOLEAN
    /\ Station!Joining \/ loaded # None => s_started /\ pod_mac # None /\ MacRight
    /\ s_parked => radio = "off" /\ loaded = None

\* An event posted leaves the others in the queue.
LEMMA QueueAppend ==
    ASSUME NEW q \in Seq(StationEvents), NEW x \in StationEvents
    PROVE  /\ Append(q, x) \in Seq(StationEvents) /\ InQueue(Append(q, x), x)
           /\ \A ev : InQueue(q, ev) => InQueue(Append(q, x), ev)
<1>1. Append(q, x) \in Seq(StationEvents) /\ Len(Append(q, x)) = Len(q) + 1 /\ Len(q) \in Nat
  OBVIOUS
<1>2. \A i \in 1..Len(q) : Append(q, x)[i] = q[i]  OBVIOUS
<1>3. Append(q, x)[Len(q) + 1] = x  OBVIOUS
<1> QED BY <1>1, <1>2, <1>3 DEF InQueue

\* An event taken leaves the others in the queue.
LEMMA QueueTail ==
    ASSUME NEW q \in Seq(StationEvents), q # <<>>
    PROVE  /\ Tail(q) \in Seq(StationEvents) /\ Head(q) \in StationEvents
           /\ \A ev : InQueue(q, ev) /\ Head(q) # ev => InQueue(Tail(q), ev)
<1>1. Tail(q) \in Seq(StationEvents) /\ Len(Tail(q)) = Len(q) - 1 /\ Len(q) \in Nat \ {0}
  OBVIOUS
<1>2. Head(q) = q[1] /\ Head(q) \in StationEvents  OBVIOUS
<1>3. \A i \in 1..Len(Tail(q)) : Tail(q)[i] = q[i + 1]  OBVIOUS
<1>4. ASSUME NEW ev, NEW i \in 1..Len(q), q[i] = ev, Head(q) # ev PROVE InQueue(Tail(q), ev)
  <2>1. i # 1 /\ i - 1 \in 1..Len(Tail(q))  BY <1>1, <1>2, <1>4
  <2>2. Tail(q)[i - 1] = q[i]  BY <1>3, <2>1
  <2> QED BY <1>4, <2>1, <2>2 DEF InQueue
<1> QED BY <1>1, <1>2, <1>4 DEF InQueue

\* leave: a join can only end.
LEMMA LeaveKeeps ==
    ASSUME NEW q \in Seq(StationEvents), Station!Leave(q)
    PROVE  /\ evq' \in Seq(StationEvents) /\ (InQueue(q, "APPLY") => InQueue(evq', "APPLY"))
           /\ Station!Joining' => Station!Joining
           /\ radio = "off" => radio' = "off"
<1>1. evq' = q \/ evq' = Append(q, "LEFT")  BY DEF Station!Leave
<1>2. radio' = radio \/ (radio' = "idle" /\ radio # "off")
  BY DEF Station!Leave, Station!radioVars
<1> QED BY <1>1, <1>2, QueueAppend DEF Station!Joining, StationEvents

\* apply: whatever event brought it about, unless that was the change of MAC itself.
LEMMA ApplyKeeps ==
    ASSUME StationInv, loaded = None, NEW q \in Seq(StationEvents), NEW b \in BOOLEAN,
           s_started => b, Station!Apply(q, b),
           UNCHANGED <<stored, s_parked, pod_mac>>
    PROVE  StationInv'
<1>1. CASE stored = None /\ Station!Leave(q) /\ s_started' = b /\ UNCHANGED <<s_sta_mac, loaded>>
  <2>1. evq' \in Seq(StationEvents) /\ (Station!Joining' => Station!Joining)
        /\ (radio = "off" => radio' = "off")
    BY <1>1, LeaveKeeps
  <2>2. MacRight /\ s_sta_mac \in Pods \cup {Factory} /\ pod_mac # None => MacRight'
    BY <1>1 DEF MacRight
  <2> QED BY <1>1, <2>1, <2>2 DEF StationInv
<1>2. CASE /\ stored # None /\ (s_parked \/ pod_mac = None \/ ~b) /\ evq' = q /\ s_started' = b
           /\ UNCHANGED <<radio, s_sta_mac, loaded>>
  <2>1. ~Station!Joining  BY <1>2 DEF StationInv, Station!Joining
  <2> QED BY <1>2, <2>1 DEF StationInv, Station!Joining
<1>3. CASE /\ stored # None /\ ~s_parked /\ pod_mac # None
           /\ s_sta_mac' = pod_mac /\ radio' = "idle" /\ s_started' = FALSE /\ UNCHANGED loaded
           /\ evq' = (IF Station!Joining THEN Append(q, "LEFT") ELSE q) \o <<"STA_START">>
  <2>1. Append(q, "LEFT") \in Seq(StationEvents)  BY QueueAppend DEF StationEvents
  <2>2. <<"STA_START">> \in Seq(StationEvents)  BY DEF StationEvents
  <2>3. evq' \in Seq(StationEvents)  BY <1>3, <2>1, <2>2
  <2> QED BY <1>3, <2>3 DEF StationInv, Station!Joining
<1>4. CASE /\ stored # None /\ ~s_parked /\ pod_mac # None /\ b /\ Station!RightMac
           /\ s_started' = TRUE /\ evq' = q /\ UNCHANGED <<radio, s_sta_mac>>
  BY <1>4 DEF StationInv, Station!RightMac, MacRight
<1> QED BY <1>1, <1>2, <1>3, <1>4 DEF Station!Apply, Station!radioVars

\* A step that starts no join and leaves the queued change of MAC where it is.
LEMMA StationQuiet ==
    ASSUME StationInv, evq' \in Seq(StationEvents), InQueue(evq, "APPLY") => InQueue(evq', "APPLY"),
           Station!Joining' => Station!Joining, UNCHANGED <<stored, s_started, s_sta_mac, pod_mac, loaded>>,
           s_parked' => radio' = "off" /\ s_parked
    PROVE  StationInv'
<1>1. MacRight => MacRight'  BY DEF MacRight
<1> QED BY <1>1 DEF StationInv

\* The task's timers: park, and the retry.
LEMMA TimerKeeps == ASSUME StationInv, Station!Timer PROVE StationInv'
<1>1. CASE Station!Park
  <2>1. radio' = "off" /\ loaded' = None /\ s_started' = FALSE /\ UNCHANGED <<s_sta_mac, pod_mac>>
        /\ (evq' = evq \/ evq' = Append(evq, "LEFT"))
    BY <1>1 DEF Station!Timer, Station!Park, Station!wireVars
  <2>2. evq' \in Seq(StationEvents)  BY <2>1, QueueAppend DEF StationInv, StationEvents
  <2> QED BY <2>1, <2>2 DEF StationInv, Station!Joining
<1>2. CASE Station!Apply(evq, s_started) /\ UNCHANGED s_parked
  BY <1>2, ApplyKeeps DEF Station!Timer, StationInv, Station!credVars, Station!wireVars
<1> QED BY <1>1, <1>2 DEF Station!Timer

\* wifi_task, one case per event.
LEMMA TakeKeeps == ASSUME StationInv, Station!Take PROVE StationInv'
<1> DEFINE ev == Head(evq)  q == Tail(evq)
<1>1. /\ q \in Seq(StationEvents) /\ ev \in StationEvents /\ loaded = None
      /\ (ev # "APPLY" /\ InQueue(evq, "APPLY")) => InQueue(q, "APPLY")
  BY QueueTail DEF StationInv, Station!Take
<1>2. UNCHANGED <<stored, pod_mac>>  BY DEF Station!Take, Station!credVars, Station!wireVars
<1>3. CASE Station!Apply(q, s_started \/ ev = "STA_START") /\ UNCHANGED s_parked
  <2>1. PICK b \in BOOLEAN : b = (s_started \/ ev = "STA_START")
    BY DEF StationInv
  <2>2. Station!Apply(q, b)  BY <1>3, <2>1
  <2> QED BY <1>1, <1>2, <1>3, <2>1, <2>2, ApplyKeeps
<1>4. CASE ev # "APPLY" /\ evq' = q /\ UNCHANGED <<radio, s_started, s_parked, s_sta_mac, loaded>>
  <2>1. (Station!Joining' => Station!Joining) /\ (s_parked' => radio' = "off" /\ s_parked)
    BY <1>4 DEF Station!Joining, StationInv
  <2> QED BY <1>1, <1>2, <1>4, <2>1, StationQuiet
<1>5. CASE /\ ev = "POD_BACK" /\ s_parked' = FALSE /\ UNCHANGED <<s_started, s_sta_mac, loaded>>
           /\ (evq' = Append(q, "STA_START") \/ evq' = q) /\ (radio' = "idle" \/ radio' = radio)
  <2>1. evq' \in Seq(StationEvents) /\ (InQueue(q, "APPLY") => InQueue(evq', "APPLY"))
    BY <1>1, <1>5, QueueAppend DEF StationEvents
  <2>2. Station!Joining' => Station!Joining  BY <1>5 DEF Station!Joining
  <2> QED BY <1>1, <1>2, <1>5, <2>1, <2>2, StationQuiet
<1> QED BY <1>3, <1>4, <1>5 DEF Station!Take, Station!radioVars

\* apply's connect: what was loaded needed the pod's MAC, and keeps it until the task takes more.
LEMMA ConnectKeeps ==
    ASSUME StationInv, Station!ApplyConnect, UNCHANGED <<stored, pod_mac>> PROVE StationInv'
<1>1. /\ evq' = evq \/ evq' = Append(evq, "LEFT")
      /\ loaded' = None /\ ~s_parked' /\ UNCHANGED <<s_started, s_sta_mac>>
  BY DEF Station!ApplyConnect, StationInv
<1>2. evq' \in Seq(StationEvents) /\ (InQueue(evq, "APPLY") => InQueue(evq', "APPLY"))
  BY <1>1, QueueAppend DEF StationEvents, StationInv
<1>3. s_started /\ pod_mac # None /\ MacRight  BY DEF StationInv, Station!ApplyConnect
<1>4. MacRight'  BY <1>1, <1>2, <1>3 DEF MacRight
<1> QED BY <1>1, <1>2, <1>3, <1>4 DEF StationInv

\* l2fwd_from_eth: the pod's MAC changes only with an EV_APPLY.
LEMMA LearnKeeps ==
    ASSUME StationInv, NEW m \in Pods \cup {None}, m # None \/ m = pod_mac, Station!Learn(m),
           UNCHANGED <<stored, radio, s_started, s_parked, s_sta_mac, loaded>>
    PROVE  StationInv'
<1>1. CASE UNCHANGED <<pod_mac, evq>>
  <2>1. MacRight => MacRight'  BY <1>1 DEF MacRight
  <2> QED BY <1>1, <2>1 DEF StationInv, Station!Joining
<1>2. CASE pod_mac = None \/ relearn
  <2> DEFINE back == IF relearn THEN <<"POD_BACK">> ELSE <<>>
             news == IF pod_mac # m THEN <<"APPLY">> ELSE <<>>
  <2>1. pod_mac' = m /\ evq' = (evq \o back) \o news  BY <1>2 DEF Station!Learn
  <2>2. evq \in Seq(StationEvents) /\ <<"POD_BACK">> \in Seq(StationEvents)
    BY DEF StationInv, StationEvents
  <2>3. PICK r \in Seq(StationEvents) : r = evq \o back
    <3>1. CASE relearn
      <4>1. evq \o <<"POD_BACK">> \in Seq(StationEvents)  BY <2>2
      <4> QED BY <3>1, <4>1
    <3>2. CASE ~relearn
      <4>1. evq \o <<>> = evq  BY <2>2
      <4> QED BY <2>2, <3>2, <4>1
    <3> QED BY <3>1, <3>2
  <2>4. \A i \in 1..Len(evq) : i \in 1..Len(r) /\ r[i] = evq[i]  BY <2>2, <2>3
  <2>5. InQueue(evq, "APPLY") => InQueue(r, "APPLY")  BY <2>4 DEF InQueue
  <2>6. CASE pod_mac # m
    <3>1. evq' = r \o <<"APPLY">>  BY <2>1, <2>3, <2>6
    <3>2. Append(r, "APPLY") = r \o <<"APPLY">>  OBVIOUS
    <3>3. evq' \in Seq(StationEvents) /\ InQueue(evq', "APPLY")
      BY <3>1, <3>2, QueueAppend DEF StationEvents
    <3>4. Station!Joining \/ loaded # None => s_sta_mac \in Pods  BY DEF StationInv, MacRight
    <3> QED BY <2>1, <2>6, <3>3, <3>4 DEF StationInv, MacRight, Station!Joining
  <2>7. CASE pod_mac = m
    <3>1. evq' = r  BY <2>1, <2>3, <2>7
    <3>2. MacRight => MacRight'  BY <2>1, <2>5, <2>7, <3>1 DEF MacRight
    <3> QED BY <2>1, <2>7, <3>1, <3>2 DEF StationInv, Station!Joining
  <2> QED BY <2>6, <2>7
<1> QED BY <1>1, <1>2 DEF Station!Learn

\* Every step of the station, of the cable, of the control task and of the driver.
LEMMA StationInvStep == StationInv /\ [Station!Next]_stationVars => StationInv'
<1> SUFFICES ASSUME StationInv, [Station!Next]_stationVars PROVE StationInv'
  OBVIOUS
<1> USE DEF Station!credVars, Station!radioVars, Station!wireVars, Station!staVars, Station!wfBudget
<1>0. ASSUME NEW ev \in StationEvents, Station!Post(ev)
      PROVE  evq' \in Seq(StationEvents) /\ InQueue(evq', ev) /\ (InQueue(evq, "APPLY") => InQueue(evq', "APPLY"))
  BY <1>0, QueueAppend DEF Station!Post, StationInv
<1>1. CASE Station!Task
  BY <1>1, TimerKeeps, TakeKeeps, ConnectKeeps DEF Station!Task
<1>2. CASE Station!DoScan
  <2>1. evq \in Seq(StationEvents) /\ (s_parked => radio = "off")  BY DEF StationInv
  <2>2. UNCHANGED <<stored, s_started, s_parked, s_sta_mac, pod_mac, loaded>>
        /\ (Station!Leave(evq) \/ UNCHANGED <<radio, evq>>)
    BY <1>2 DEF Station!DoScan
  <2>3. /\ evq' \in Seq(StationEvents) /\ (InQueue(evq, "APPLY") => InQueue(evq', "APPLY"))
        /\ Station!Joining' => Station!Joining
        /\ radio = "off" => radio' = "off"
    BY <2>1, <2>2, LeaveKeeps DEF Station!Joining
  <2> QED BY <2>1, <2>2, <2>3, StationQuiet
<1>3. CASE Station!SetWifi
  <2>1. evq' \in Seq(StationEvents) /\ InQueue(evq', "APPLY")
    BY <1>0, <1>3 DEF Station!SetWifi, StationEvents
  <2>2. UNCHANGED <<radio, s_started, s_parked, s_sta_mac, pod_mac, loaded>>
    BY <1>3 DEF Station!SetWifi
  <2>3. pod_mac # None /\ MacRight => MacRight'  BY <2>1, <2>2 DEF MacRight, StationInv
  <2> QED BY <2>1, <2>2, <2>3 DEF StationInv, Station!Joining
<1>4. CASE Station!EthControl
  <2>1. UNCHANGED <<stored, radio, s_started, s_parked, s_sta_mac, loaded>>
        /\ ((cable \in Pods /\ Station!Learn(cable)) \/ Station!Learn(pod_mac))
    BY <1>4 DEF Station!EthControl
  <2>2. None \notin Pods /\ pod_mac \in Pods \cup {None}
    BY Assumptions DEF Station!ConstantsOK, StationInv
  <2> QED BY <2>1, <2>2, LearnKeeps
<1>5. ASSUME UNCHANGED <<stored, radio, s_started, s_parked, s_sta_mac, pod_mac, loaded, evq>> PROVE StationInv'
  BY <1>5, StationQuiet DEF StationInv, Station!Joining
<1>6. CASE Station!LinkUp \/ Station!PairPressed \/ Station!Plug \/ UNCHANGED stationVars
  BY <1>5, <1>6 DEF Station!LinkUp, Station!PairPressed, Station!Plug, stationVars
<1>7. CASE Station!LinkDown
  <2>1. UNCHANGED <<stored, radio, s_started, s_parked, s_sta_mac, pod_mac, loaded>>
        /\ (UNCHANGED evq \/ Station!Post("POD_GONE"))
    BY <1>7 DEF Station!LinkDown
  <2> QED BY <1>0, <1>5, <2>1, StationQuiet DEF StationInv, Station!Joining, StationEvents
<1>8. CASE Station!Driver
  <2>1. /\ UNCHANGED <<stored, s_started, s_parked, s_sta_mac, pod_mac, loaded>>
        /\ Station!Joining /\ (Station!Post("CONNECTED") \/ Station!Post("LOST") \/ Station!Post("LEFT"))
    BY <1>8 DEF Station!Driver, Station!Joining
  <2>2. ~s_parked'  BY <2>1 DEF StationInv, Station!Joining
  <2> QED BY <1>0, <2>1, <2>2, StationQuiet DEF StationEvents
<1> QED BY <1>1, <1>2, <1>3, <1>4, <1>6, <1>7, <1>8 DEF Station!Next

\* wifi.c, l2fwd.c: on the air only with the MAC of the pod on the cable, unless the change is on its
\* way or there is nothing to join; and never while parked.
THEOREM StationAsPod == MCSpec => []Station!OnAirAsPod
<1>1. MCInit => StationInv
  <2> SUFFICES ASSUME Station!Init PROVE StationInv
    BY DEF MCInit
  <2>1. evq \in Seq(StationEvents)  BY DEF Station!Init, StationEvents
  <2> QED BY <2>1 DEF Station!Init, StationInv, Station!Joining
<1>2. [MCNext]_mcVars => [Station!Next]_stationVars  BY DEF MCNext, Rest, mcVars
<1>3. StationInv => Station!OnAirAsPod
  <2> SUFFICES ASSUME StationInv PROVE Station!OnAirAsPod
    OBVIOUS
  <2>1. InQueue(evq, "APPLY") => Station!Has("APPLY")  BY DEF StationInv, InQueue, Station!Has
  <2> QED BY <2>1 DEF StationInv, MacRight, Station!OnAirAsPod
<1> QED BY <1>1, <1>2, <1>3, StationInvStep, PTL DEF MCSpec

\* ethernetif.c: the receive buffers are counted once each, the descriptors bound what the ring
\* holds, and the driver is never behind its DMA.
EthInv ==
    /\ armed \in Nat /\ unread \in Nat /\ held \in Nat /\ pool_free \in Nat
    /\ ((armed + unread) + held) + pool_free = RxCnt /\ armed + unread <= RxDesc
    /\ desync = FALSE

\* HAL_ETH_RxAllocateCallback: what the descriptors get, the pool loses.
LEMMA ArmKeeps ==
    ASSUME NEW a \in Nat, NEW u \in Nat, NEW f \in Nat, a + u <= RxDesc, Eth!Arm(a, u, f)
    PROVE  armed' \in Nat /\ pool_free' \in Nat /\ armed' + pool_free' = a + f /\ armed' + u <= RxDesc
<1>1. RxDesc \in Nat  BY Assumptions DEF Eth!ConstantsOK
<1>2. PICK n \in Nat : n <= (RxDesc - a) - u /\ n <= f /\ armed' = a + n /\ pool_free' = f - n
  <2> DEFINE want == (RxDesc - a) - u
  <2>1. want \in Nat  BY <1>1
  <2>2. (IF want < f THEN want ELSE f) \in Nat /\ (IF want < f THEN want ELSE f) <= want
        /\ (IF want < f THEN want ELSE f) <= f
    BY <2>1
  <2> QED BY <2>2 DEF Eth!Arm
<1> QED BY <1>1, <1>2

\* Buffers that only change hands stay as many.
LEMMA BuffersCounted ==
    ASSUME EthInv, armed' \in Nat, unread' \in Nat, held' \in Nat, pool_free' \in Nat,
           (armed' + pool_free') + (unread' + held') = (armed + pool_free) + (unread + held)
    PROVE  ((armed' + unread') + held') + pool_free' = RxCnt
<1>1. ((armed' + unread') + held') + pool_free' = (armed' + pool_free') + (unread' + held')
  OBVIOUS
<1>2. ((armed + unread) + held) + pool_free = (armed + pool_free) + (unread + held)
  BY DEF EthInv
<1> QED BY <1>1, <1>2 DEF EthInv

\* eth_prepare_start and HAL_ETH_Start lose no buffer.
LEMMA MacStartKeeps == ASSUME EthInv, Eth!StartMac PROVE EthInv'
<1>0. RxCnt \in Nat /\ RxDesc \in Nat  BY Assumptions DEF Eth!ConstantsOK
<1>1. CASE Eth!Arm(armed, unread, pool_free) /\ UNCHANGED <<desync, unread, held>>
  <2>1. armed' \in Nat /\ pool_free' \in Nat /\ armed' + pool_free' = armed + pool_free
        /\ armed' + unread <= RxDesc
    BY <1>1, ArmKeeps DEF EthInv
  <2>2. (armed' + pool_free') + (unread' + held') = (armed + pool_free) + (unread + held)
    BY <1>1, <2>1
  <2>3. unread' \in Nat /\ held' \in Nat  BY <1>1 DEF EthInv
  <2>4. ((armed' + unread') + held') + pool_free' = RxCnt  BY <2>1, <2>2, <2>3, BuffersCounted
  <2> QED BY <1>1, <2>1, <2>4 DEF EthInv
<1>2. CASE desync' = FALSE /\ unread' = 0 /\ Eth!Arm(0, 0, (pool_free + armed) + unread) /\ UNCHANGED held
  <2>1. (pool_free + armed) + unread \in Nat  BY DEF EthInv
  <2>2. armed' \in Nat /\ pool_free' \in Nat /\ armed' + pool_free' = 0 + ((pool_free + armed) + unread)
        /\ armed' + 0 <= RxDesc
    BY <1>0, <1>2, <2>1, ArmKeeps
  <2>3. (armed' + pool_free') + (unread' + held') = (armed + pool_free) + (unread + held)
    <3>1. unread' + held' = held  BY <1>2 DEF EthInv
    <3>2. (0 + ((pool_free + armed) + unread)) + held = (armed + pool_free) + (unread + held)
      BY DEF EthInv
    <3> QED BY <2>2, <3>1, <3>2
  <2>4. ((armed' + unread') + held') + pool_free' = RxCnt
    <3>1. unread' \in Nat /\ held' \in Nat  BY <1>2 DEF EthInv
    <3> QED BY <2>2, <2>3, <3>1, BuffersCounted
  <2> QED BY <1>2, <2>2, <2>4 DEF EthInv
<1>3. CASE /\ armed' = 0 /\ unread' = 0 /\ pool_free' = (pool_free + armed) + unread
           /\ UNCHANGED <<desync, held>>
  BY <1>0, <1>3 DEF EthInv
<1> QED BY <1>1, <1>2, <1>3 DEF Eth!StartMac

\* Every step of the wired network keeps its buffers.
LEMMA EthInvStep == EthInv /\ [Eth!Next]_ethVars => EthInv'
<1> SUFFICES ASSUME EthInv, [Eth!Next]_ethVars PROVE EthInv'
  OBVIOUS
<1> USE DEF Eth!phyVars, Eth!macVars, Eth!rxVars, Eth!cmdVars, Eth!dhcpVars, Eth!routeVars
<1>0. RxCnt \in Nat /\ RxDesc \in Nat  BY Assumptions DEF Eth!ConstantsOK
<1>1. ASSUME UNCHANGED <<desync, armed, unread, held, pool_free>> PROVE EthInv'
  BY <1>1 DEF EthInv
<1>2. CASE Eth!FrameIn
  BY <1>0, <1>2 DEF EthInv, Eth!FrameIn
<1>3. CASE Eth!Input
  <2>1. PICK n \in {0, 1} : n <= unread /\ unread' = unread - n /\ held' = held + n
                            /\ Eth!Arm(armed, unread - n, pool_free)
    BY <1>3 DEF Eth!Input, EthInv
  <2>2. unread - n \in Nat /\ armed + (unread - n) <= RxDesc  BY <1>0, <2>1 DEF EthInv
  <2>3. armed' \in Nat /\ pool_free' \in Nat /\ armed' + pool_free' = armed + pool_free
        /\ armed' + (unread - n) <= RxDesc
    BY <2>1, <2>2, ArmKeeps DEF EthInv
  <2>4. ((armed' + unread') + held') + pool_free' = RxCnt /\ held' \in Nat
    <3>1. held' \in Nat /\ unread' \in Nat  BY <2>1, <2>2 DEF EthInv
    <3>2. unread' + held' = unread + held  BY <2>1 DEF EthInv
    <3>3. (armed' + pool_free') + (unread' + held') = (armed + pool_free) + (unread + held)
      BY <2>3, <3>2
    <3> QED BY <2>3, <3>1, <3>3, BuffersCounted
  <2>5. desync' = FALSE  BY <1>3 DEF EthInv, Eth!Input
  <2> QED BY <2>1, <2>2, <2>3, <2>4, <2>5 DEF EthInv
<1>4. CASE Eth!FreeBuffer
  BY <1>0, <1>4 DEF EthInv, Eth!FreeBuffer
<1>5. CASE Eth!LinkCheck
  BY <1>1, <1>5, MacStartKeeps DEF Eth!LinkCheck
<1>6. CASE Eth!DhcpTick
  BY <1>1, <1>6 DEF Eth!DhcpTick, Eth!PhyRestart
<1>7. CASE Eth!ApplyRequest
  <2>1. CASE Eth!LoopbackTest
    BY <1>0, <2>1 DEF EthInv, Eth!LoopbackTest
  <2> QED BY <1>1, <1>7, <2>1 DEF Eth!ApplyRequest, Eth!ForceSpeed, Eth!MeasureRefclk, Eth!PhyRestart
<1>8. CASE Eth!Transmit \/ Eth!EthCommand \/ Eth!World \/ Eth!RouterGrants \/ UNCHANGED ethVars
  BY <1>1, <1>8 DEF Eth!Transmit, Eth!EthCommand, Eth!World, Eth!RouterGrants, ethVars
<1> QED BY <1>2, <1>3, <1>4, <1>5, <1>6, <1>7, <1>8 DEF Eth!Next

\* ethernetif.c: stops and starts lose no receive buffer, and no MAC runs ahead of its driver.
THEOREM ReceiverSound == MCSpec => []Eth!RxSound
<1>1. MCInit => EthInv  BY Assumptions DEF MCInit, Eth!Init, EthInv, Eth!ConstantsOK
<1>2. [MCNext]_mcVars => [Eth!Next]_ethVars  BY DEF MCNext, Rest, mcVars
<1>3. EthInv => Eth!RxSound  BY DEF EthInv, Eth!RxSound
<1> QED BY <1>1, <1>2, <1>3, EthInvStep, PTL DEF MCSpec

--------------------------------------------------------------------------------
(* esp_wifi_ctrl.c: what the control, the TX ring and the C3 have in common, *)
(* apart from the control's state, and then for each state what it stands    *)
(* for.                                                                      *)
Fields == {"st", "cfg", "started", "await", "resp", "ok", "evc", "evd", "tried", "fdone", "paused", "misses",
           "run", "done", "only", "waiting", "num", "read", "running", "ready", "rebooted", "wire", "out",
           "c3", "img", "c3w", "nvs", "link", "tr"}
C3Memory == [inited : BOOLEAN, ram : BOOLEAN, assoc : {"no", "trying", "yes"}]
Outcomes == {"no", "ok", "failed"}
Answers == [kind : Wifi!Requests \cup {"boot", "conn", "disc"}, ok : BOOLEAN, n : Nat]

InWire(w, q) == \E i \in 1 .. Len(w.wire) : w.wire[i] = q
Unanswered(w, q) == \A i \in 1 .. Len(w.out) : w.out[i].kind # q

\* A C3 that serves requests keeps its settings in RAM, and is not about to start over.
KeepsInRam(w) == ~InWire(w, "init") /\ (w.c3w.inited => w.c3w.ram)

\* Nothing was asked of the C3 since it was started.
Fresh(w) == w.wire = <<>> /\ Unanswered(w, "init")

\* Of any state: no credentials in flash; what is queued is for a C3 that runs for a started control; the
\* storage is confirmed by a C3 that has it, and the credentials are queued for such a C3 only.
WireInv(w) ==
    /\ DOMAIN w = Fields /\ w.fdone \in Outcomes /\ w.wire \in Seq(Wifi!Requests)
    /\ w.out \in Seq(Answers) /\ w.c3w \in C3Memory
    /\ w.nvs = FALSE /\ (w.wire # <<>> => w.running) /\ (w.running => w.started) /\ (~w.started => Fresh(w))
    /\ \A i \in 1 .. Len(w.out) : w.out[i].kind = "storage" /\ w.out[i].ok => w.c3w.ram
    /\ InWire(w, "cfg") => KeepsInRam(w)

Confirmed == {"mode", "cfg", "start", "connect", "mac", "assoc", "up", "rssi"} \cup Wifi!Scanning

\* Of each state of the control: nothing asked yet; esp_wifi_init under way; SetStorage under way; its answer seen.
PhaseInv(w) ==
    /\ w.st \in Wifi!States
    /\ w.st \in {"down", "ready", "flashing"} => Fresh(w)
    /\ w.st = "init" => /\ w.await = "init"
                        /\ w.wire = <<>> \/ (w.wire = <<"init">> /\ ~w.resp /\ Unanswered(w, "init"))
    /\ w.st = "storage" => /\ w.await = "storage" /\ ~InWire(w, "init")
                           /\ w.resp /\ w.ok => KeepsInRam(w)
    /\ w.st \in Confirmed => KeepsInRam(w)

CtrlInv(w) == WireInv(w) /\ PhaseInv(w)
CtrlHolds == CtrlInv(wc)

\* The parts of a control on which WireInv depends are the same in two of them; those of PhaseInv too.
SameWire(u, w) ==
    /\ DOMAIN u = DOMAIN w /\ u.fdone = w.fdone /\ u.wire = w.wire /\ u.out = w.out /\ u.c3w = w.c3w
    /\ u.nvs = w.nvs /\ u.running = w.running /\ u.started = w.started
SameControl(u, w) == SameWire(u, w) /\ u.st = w.st /\ u.await = w.await /\ u.resp = w.resp /\ u.ok = w.ok

\* What does not touch the wire keeps its invariant.
LEMMA SameWireKeeps ==
    ASSUME NEW w, NEW u, WireInv(w), SameWire(u, w)
    PROVE  WireInv(u) /\ (KeepsInRam(w) => KeepsInRam(u)) /\ (Fresh(w) => Fresh(u))
BY DEF WireInv, SameWire, KeepsInRam, Fresh, InWire, Unanswered

\* What touches neither wire nor control keeps both.
LEMMA SameControlKeeps ==
    ASSUME NEW w, NEW u, CtrlInv(w), SameControl(u, w)
    PROVE  CtrlInv(u)
<1>1. SameWire(u, w)  BY DEF SameControl
<1>2. WireInv(u) /\ (KeepsInRam(w) => KeepsInRam(u)) /\ (Fresh(w) => Fresh(u))
  BY <1>1, SameWireKeeps DEF CtrlInv
<1>3. PhaseInv(u)  BY <1>2 DEF CtrlInv, PhaseInv, SameControl, SameWire, InWire, Unanswered
<1> QED BY <1>2, <1>3 DEF CtrlInv

\* A backoff asks nothing of a state but WireInv.
LEMMA BackoffKeeps ==
    ASSUME NEW w, NEW u, WireInv(w), SameWire(u, w), u.st = "backoff"
    PROVE  CtrlInv(u)
BY SameWireKeeps DEF CtrlInv, PhaseInv, Confirmed, Wifi!Scanning, Wifi!States

\* A control whose wire is empty and whose C3 has forgotten everything.
IsReset(u) ==
    /\ DOMAIN u = Fields /\ u.fdone \in Outcomes /\ u.wire = <<>> /\ u.out = <<>>
    /\ u.c3w = Wifi!FreshC3 /\ u.nvs = FALSE
    /\ u.running => u.started

\* It may be in any state, while it awaits the answer that state is about.
LEMMA ResetKeeps ==
    ASSUME NEW u, IsReset(u), u.st \in Wifi!States, u.st \in {"init", "storage"} => u.await = u.st
    PROVE  CtrlInv(u) /\ Fresh(u) /\ KeepsInRam(u)
<1>1. Fresh(u) /\ KeepsInRam(u) /\ ~InWire(u, "cfg") /\ ~InWire(u, "init")
  BY DEF IsReset, Fresh, KeepsInRam, InWire, Unanswered, Wifi!FreshC3
<1>2. u.c3w \in C3Memory /\ u.wire \in Seq(Wifi!Requests) /\ u.out \in Seq(Answers)
  BY DEF IsReset, Wifi!FreshC3, C3Memory
<1>3. WireInv(u)  BY <1>1, <1>2 DEF WireInv, IsReset
<1>4. PhaseInv(u)  BY <1>1 DEF PhaseInv, IsReset
<1> QED BY <1>1, <1>3, <1>4 DEF CtrlInv

\* esp_hosted_spi_stop, and what the control does around it.
LEMMA StopResets ==
    ASSUME NEW w, DOMAIN w = Fields, w.fdone \in Outcomes, w.nvs = FALSE
    PROVE  /\ IsReset(Wifi!Stop(w)) /\ Wifi!Stop(w).st = w.st /\ Wifi!Stop(w).await = w.await
           /\ Wifi!Stop(w).running = FALSE /\ Wifi!Stop(w).started = w.started
BY DEF Wifi!Stop, Wifi!HeldInReset, IsReset, Fields, Outcomes

\* One more trouble is nothing the control sees.
LEMMA TroubleKeeps ==
    ASSUME NEW w, DOMAIN w = Fields, NEW u \in Wifi!Trouble(w)
    PROVE  SameControl(u, w)
BY DEF Wifi!Trouble, SameControl, SameWire, Fields

\* send_req: the request is the last of the queue, and awaited; or it is not sent.
Sent(u, w, q) ==
    /\ DOMAIN u = Fields /\ u.fdone = w.fdone /\ u.out = w.out /\ u.c3w = w.c3w /\ u.nvs = w.nvs
    /\ u.running = w.running /\ u.started = w.started /\ u.await = q /\ u.resp = FALSE
    /\ \/ u.st = "unsent" /\ u.wire = w.wire
       \/ u.st = q /\ w.running /\ u.wire = Append(w.wire, q)

\* So it is.
LEMMA SendFacts ==
    ASSUME NEW w, WireInv(w), NEW q \in Wifi!Requests, NEW u \in Wifi!Send(w, q)
    PROVE  Sent(u, w, q)
<1> DEFINE asked == [w EXCEPT !.resp = FALSE, !.ok = TRUE, !.await = q, !.st = "unsent"]
           sent == [asked EXCEPT !.wire = Append(@, q), !.st = q]
<1>1. DOMAIN w = Fields  BY DEF WireInv
<1>2. /\ DOMAIN asked = Fields /\ asked.fdone = w.fdone /\ asked.out = w.out /\ asked.c3w = w.c3w
      /\ asked.nvs = w.nvs /\ asked.running = w.running /\ asked.started = w.started /\ asked.await = q
      /\ asked.resp = FALSE /\ asked.st = "unsent" /\ asked.wire = w.wire
  BY <1>1 DEF Fields
<1>3. /\ DOMAIN sent = Fields /\ sent.fdone = w.fdone /\ sent.out = w.out /\ sent.c3w = w.c3w
      /\ sent.nvs = w.nvs /\ sent.running = w.running /\ sent.started = w.started /\ sent.await = q
      /\ sent.resp = FALSE /\ sent.st = q /\ sent.wire = Append(w.wire, q)
  BY <1>2 DEF Fields
<1>4. u = asked \/ u \in Wifi!Trouble(asked) \/ (u = sent /\ w.running)  BY <1>2 DEF Wifi!Send
<1>5. CASE u \in Wifi!Trouble(asked)
  <2> HIDE DEF asked
  <2>1. SameControl(u, asked)  BY <1>2, <1>5, TroubleKeeps
  <2> QED BY <1>2, <2>1 DEF SameControl, SameWire, Sent
<1> QED BY <1>2, <1>3, <1>4, <1>5 DEF Sent

\* What is in a queue with one request more.
LEMMA QueuedWire ==
    ASSUME NEW w, NEW u, NEW q \in Wifi!Requests, w.wire \in Seq(Wifi!Requests), u.wire = Append(w.wire, q)
    PROVE  /\ u.wire \in Seq(Wifi!Requests) /\ u.wire # <<>>
           /\ \A x : InWire(u, x) <=> (InWire(w, x) \/ x = q)
<1>1. /\ Len(Append(w.wire, q)) = Len(w.wire) + 1 /\ Len(w.wire) \in Nat
      /\ Append(w.wire, q) \in Seq(Wifi!Requests)
  OBVIOUS
<1>2. \A i \in 1 .. Len(w.wire) : Append(w.wire, q)[i] = w.wire[i]  OBVIOUS
<1>3. Append(w.wire, q)[Len(w.wire) + 1] = q  OBVIOUS
<1>4. ASSUME NEW x PROVE InWire(u, x) <=> (InWire(w, x) \/ x = q)
  BY <1>1, <1>2, <1>3 DEF InWire
<1>5. u.wire # <<>>  BY <1>1
<1> QED BY <1>1, <1>4, <1>5

\* Credentials, and what follows them, may be sent when the C3 keeps its settings in RAM; SetStorage when no
\* esp_wifi_init is on its way; that one first of all.
MaySend(w, q) ==
    /\ q \in Wifi!Requests
    /\ q \in Confirmed => KeepsInRam(w)
    /\ q = "storage" => ~InWire(w, "init")
    /\ q = "init" => Fresh(w)

\* Every request is one of the three kinds.
LEMMA RequestKinds == Wifi!Requests = {"init", "storage"} \cup (Wifi!Requests \cap Confirmed)
BY DEF Wifi!Requests, Confirmed, Wifi!Scanning

\* So sent or not, the invariants hold.
LEMMA CtrlSendKeeps ==
    ASSUME NEW w, WireInv(w), NEW q, MaySend(w, q), NEW u \in Wifi!Send(w, q)
    PROVE  /\ WireInv(u) /\ DOMAIN u = Fields
           /\ u.st = "unsent" \/ (u.st = q /\ CtrlInv(u))
           /\ q \in Confirmed => KeepsInRam(u)
<1>0. q \in Wifi!Requests  BY DEF MaySend
<1>1. /\ DOMAIN u = Fields /\ u.fdone = w.fdone /\ u.out = w.out /\ u.c3w = w.c3w /\ u.nvs = w.nvs
      /\ u.running = w.running /\ u.started = w.started /\ u.await = q /\ u.resp = FALSE
      /\ \/ u.st = "unsent" /\ u.wire = w.wire
         \/ u.st = q /\ w.running /\ u.wire = Append(w.wire, q)
  <2>1. Sent(u, w, q)  BY <1>0, SendFacts
  <2> QED BY <2>1 DEF Sent
<1>2. CASE u.st = "unsent" /\ u.wire = w.wire
  <2>1. SameWire(u, w)  BY <1>1, <1>2 DEF SameWire, WireInv
  <2> QED BY <1>1, <1>2, <2>1, SameWireKeeps DEF MaySend
<1>3. CASE u.st = q /\ w.running /\ u.wire = Append(w.wire, q)
  <2>1. /\ u.wire \in Seq(Wifi!Requests) /\ u.wire # <<>>
        /\ \A x : InWire(u, x) <=> (InWire(w, x) \/ x = q)
    BY <1>0, <1>3, QueuedWire DEF WireInv
  <2>2. q # "init" /\ KeepsInRam(w) => KeepsInRam(u)  BY <1>1, <2>1 DEF KeepsInRam
  <2>3. q \in Confirmed => q # "init" /\ q # "storage" /\ KeepsInRam(u)
    BY <2>2 DEF MaySend, Confirmed, Wifi!Scanning
  <2>4. InWire(u, "cfg") => KeepsInRam(u)
    <3>1. CASE q = "init"
      <4>1. ~InWire(w, "cfg")  BY <3>1 DEF MaySend, Fresh, InWire
      <4> QED BY <2>1, <3>1, <4>1
    <3>2. CASE q # "init"
      BY <2>1, <2>2, <2>3, <3>2 DEF WireInv, Confirmed
    <3> QED BY <3>1, <3>2
  <2>5. u.running /\ u.started  BY <1>1, <1>3 DEF WireInv
  <2>6. WireInv(u)  BY <1>1, <2>1, <2>4, <2>5 DEF WireInv
  <2>7. PhaseInv(u)
    <3>1. CASE q = "init"
      <4>1. u.wire = <<"init">> /\ Unanswered(u, "init")
        <5>1. w.wire = <<>> /\ Unanswered(w, "init")  BY <3>1 DEF MaySend, Fresh
        <5>2. Append(<<>>, "init") = <<"init">>  OBVIOUS
        <5> QED BY <1>1, <1>3, <3>1, <5>1, <5>2 DEF Unanswered
      <4> QED BY <1>1, <1>3, <3>1, <4>1 DEF PhaseInv, Wifi!States, Wifi!Requests, Confirmed, Wifi!Scanning
    <3>2. CASE q = "storage"
      BY <1>1, <1>3, <2>1, <3>2 DEF MaySend, PhaseInv, Wifi!States, Wifi!Requests, Confirmed, Wifi!Scanning
    <3>3. CASE q \in Confirmed
      BY <1>0, <1>3, <2>3, <3>3 DEF PhaseInv, Wifi!States, Confirmed, Wifi!Scanning
    <3> QED BY <1>0, <3>1, <3>2, <3>3, RequestKinds
  <2> QED BY <1>1, <1>3, <2>3, <2>6, <2>7 DEF CtrlInv
<1> QED BY <1>1, <1>2, <1>3

\* scan_finish: back to the link, which needs the C3 it had; or the C3 started for the scan is stopped.
LEMMA ScanFinishKeeps ==
    ASSUME NEW w, WireInv(w), KeepsInRam(w)
    PROVE  CtrlInv(Wifi!ScanFinish(w))
<1> DEFINE u == [Wifi!ScanPublish(w) EXCEPT !.await = "none"]
<1>1. DOMAIN w = Fields /\ w.fdone \in Outcomes /\ w.nvs = FALSE  BY DEF WireInv
<1>2. SameWire(u, w) /\ u.only = w.only  BY <1>1 DEF Wifi!ScanPublish, SameWire, Fields
<1>3. CASE w.only
  <2> DEFINE r == [Wifi!Stop(u) EXCEPT !.only = FALSE, !.started = FALSE, !.st = "down"]
  <2>1. IsReset(Wifi!Stop(u)) /\ Wifi!Stop(u).running = FALSE
    BY <1>1, <1>2, StopResets DEF SameWire
  <2>2. IsReset(r) /\ r.st = "down"  BY <2>1 DEF IsReset, Fields
  <2> HIDE DEF r
  <2>3. CtrlInv(r)  BY <2>2, ResetKeeps DEF Wifi!States
  <2> QED BY <1>2, <1>3, <2>3 DEF Wifi!ScanFinish, r
<1>4. CASE ~w.only
  <2> DEFINE r == [u EXCEPT !.st = "up"]
  <2>1. SameWire(r, w) /\ r.st = "up"  BY <1>1, <1>2 DEF SameWire, Fields
  <2> HIDE DEF r
  <2>2. WireInv(r) /\ KeepsInRam(r)  BY <2>1, SameWireKeeps
  <2>3. CtrlInv(r)  BY <2>1, <2>2 DEF CtrlInv, PhaseInv, Wifi!States
  <2> QED BY <1>2, <1>4, <2>3 DEF Wifi!ScanFinish, r
<1> QED BY <1>3, <1>4

\* to_backoff: from anywhere.
LEMMA ToBackoffKeeps ==
    ASSUME NEW w, WireInv(w)
    PROVE  CtrlInv(Wifi!ToBackoff(w))
<1> DEFINE v == [Wifi!ScanPublish(w) EXCEPT !.await = "none"]
           r == [Wifi!Stop(v) EXCEPT !.only = FALSE, !.started = FALSE, !.st = "down"]
           up == [v EXCEPT !.st = "up"]
<1>1. DOMAIN w = Fields /\ w.fdone \in Outcomes /\ w.nvs = FALSE  BY DEF WireInv
<1>2. SameWire(v, w) /\ v.only = w.only  BY <1>1 DEF Wifi!ScanPublish, SameWire, Fields
<1>3. CASE w.run > 0 /\ w.only
  <2>1. IsReset(Wifi!Stop(v)) /\ Wifi!Stop(v).running = FALSE
    BY <1>1, <1>2, StopResets DEF SameWire
  <2>2. IsReset(r) /\ r.st = "down"  BY <2>1 DEF IsReset, Fields
  <2>3. Wifi!ToBackoff(w) = r  BY <1>2, <1>3 DEF Wifi!ToBackoff, Wifi!ScanFinish
  <2> HIDE DEF r
  <2>4. CtrlInv(r)  BY <2>2, ResetKeeps DEF Wifi!States
  <2> QED BY <2>3, <2>4
<1>4. CASE ~(w.run > 0 /\ w.only)
  <2>1. PICK b : (b = w \/ b = up) /\ Wifi!ToBackoff(w) = [b EXCEPT !.await = "none", !.st = "backoff"]
    BY <1>2, <1>4 DEF Wifi!ToBackoff, Wifi!ScanFinish
  <2>2. SameWire(b, w)  BY <1>1, <1>2, <2>1 DEF SameWire, Fields
  <2>3. SameWire(Wifi!ToBackoff(w), w) /\ Wifi!ToBackoff(w).st = "backoff"
    BY <1>1, <2>1, <2>2 DEF SameWire, Fields
  <2> QED BY <2>3, BackoffKeeps
<1> QED BY <1>3, <1>4

\* send_req or to_backoff; scan's requests or scan_finish.
LEMMA OrBackoffKeeps ==
    ASSUME NEW w, WireInv(w), NEW q, MaySend(w, q), NEW u \in Wifi!OrBackoff(Wifi!Send(w, q))
    PROVE  CtrlInv(u) /\ (u.st = q => KeepsInRam(u) \/ q \notin Confirmed)
<1>1. PICK v \in Wifi!Send(w, q) : u = IF v.st = "unsent" THEN Wifi!ToBackoff(v) ELSE v
  BY DEF Wifi!OrBackoff
<1>2. /\ WireInv(v)
      /\ v.st = "unsent" \/ (v.st = q /\ CtrlInv(v))
      /\ q \in Confirmed => KeepsInRam(v)
  BY CtrlSendKeeps
<1>3. CASE v.st = "unsent"
  <2>1. CtrlInv(u)  BY <1>1, <1>2, <1>3, ToBackoffKeeps
  <2> QED BY <2>1 DEF CtrlInv, PhaseInv
<1> QED BY <1>1, <1>2, <1>3

\* A request of a scan, or its end.
LEMMA OrFinishKeeps ==
    ASSUME NEW w, WireInv(w), KeepsInRam(w), NEW q \in Wifi!Scanning, NEW u \in Wifi!OrFinish(Wifi!Send(w, q))
    PROVE  CtrlInv(u) /\ DOMAIN u = Fields
<1>1. PICK v \in Wifi!Send(w, q) : u = IF v.st = "unsent" THEN Wifi!ScanFinish(v) ELSE v
  BY DEF Wifi!OrFinish
<1>2. MaySend(w, q) /\ q \in Confirmed  BY DEF MaySend, Confirmed, Wifi!Scanning, Wifi!Requests
<1>3. WireInv(v) /\ KeepsInRam(v) /\ (v.st = "unsent" \/ CtrlInv(v))  BY <1>2, CtrlSendKeeps
<1>4. CtrlInv(u)  BY <1>1, <1>3, ScanFinishKeeps
<1> QED BY <1>4 DEF CtrlInv, WireInv

\* A C3 held in reset, whatever the control's state.
LEMMA ResetWire ==
    ASSUME NEW u, IsReset(u)
    PROVE  WireInv(u) /\ Fresh(u) /\ KeepsInRam(u)
<1>1. Fresh(u) /\ KeepsInRam(u) /\ ~InWire(u, "cfg")
  BY DEF IsReset, Fresh, KeepsInRam, InWire, Unanswered, Wifi!FreshC3
<1>2. u.c3w \in C3Memory /\ u.wire \in Seq(Wifi!Requests) /\ u.out \in Seq(Answers)
  BY DEF IsReset, Wifi!FreshC3, C3Memory
<1> QED BY <1>1, <1>2 DEF WireInv, IsReset

\* slave_lost: from anywhere.
LEMMA SlaveLostKeeps ==
    ASSUME NEW w, WireInv(w)
    PROVE  CtrlInv(Wifi!SlaveLost(w))
<1> DEFINE u == [Wifi!Stop(w) EXCEPT !.link = FALSE, !.misses = 0, !.evc = FALSE, !.evd = FALSE]
<1>1. IsReset(Wifi!Stop(w))  BY StopResets DEF WireInv
<1>2. IsReset(u)  BY <1>1 DEF IsReset, Fields
<1>3. Wifi!SlaveLost(w) = Wifi!ToBackoff(u)  BY DEF Wifi!SlaveLost
<1> HIDE DEF u
<1>4. WireInv(u)  BY <1>2, ResetWire
<1> QED BY <1>3, <1>4, ToBackoffKeeps

\* A deadline changes nothing by itself.
LEMMA LateSame ==
    ASSUME NEW w, CtrlInv(w), NEW s, NEW v \in Wifi!Late(w, s)
    PROVE  CtrlInv(v) /\ DOMAIN v = Fields /\ v.st = w.st
<1>1. DOMAIN w = Fields  BY DEF CtrlInv, WireInv
<1>2. v = w \/ v \in Wifi!Trouble(w)  BY DEF Wifi!Late
<1>3. CASE v \in Wifi!Trouble(w)
  <2>1. SameControl(v, w)  BY <1>1, <1>3, TroubleKeeps
  <2> QED BY <1>1, <2>1, SameControlKeeps DEF SameControl, SameWire
<1> QED BY <1>1, <1>2, <1>3

\* To wait, or to give up.
LEMMA WaitKeeps ==
    ASSUME NEW w, CtrlInv(w), NEW s, NEW u \in Wifi!WaitOrBackoff(w, s)
    PROVE  CtrlInv(u)
<1>1. u = w \/ \E v \in Wifi!Late(w, s) : u = Wifi!ToBackoff(v)  BY DEF Wifi!WaitOrBackoff
<1>2. ASSUME NEW v \in Wifi!Late(w, s), u = Wifi!ToBackoff(v) PROVE CtrlInv(u)
  <2>1. WireInv(v)  BY LateSame DEF CtrlInv
  <2> QED BY <1>2, <2>1, ToBackoffKeeps
<1> QED BY <1>1, <1>2

\* A step of the connect.
LEMMA ThenSendKeeps ==
    ASSUME NEW w, CtrlInv(w), NEW q, w.resp => MaySend(w, q), NEW u \in Wifi!ThenSend(w, q)
    PROVE  CtrlInv(u)
<1>1. CASE w.resp
  <2>1. u \in Wifi!OrBackoff(Wifi!Send(w, q)) /\ WireInv(w)  BY <1>1 DEF Wifi!ThenSend, CtrlInv
  <2> QED BY <1>1, <2>1, OrBackoffKeeps
<1>2. CASE ~w.resp
  <2>1. u \in Wifi!WaitOrBackoff(w, Wifi!Silent(w, w.st))  BY <1>2 DEF Wifi!ThenSend
  <2> QED BY <2>1, WaitKeeps
<1> QED BY <1>1, <1>2

\* A control with its C3's storage confirmed may go on to any state that needs it.
LEMMA GoesOn ==
    ASSUME NEW w, WireInv(w), KeepsInRam(w), NEW u, SameWire(u, w), u.st \in Confirmed
    PROVE  CtrlInv(u) /\ KeepsInRam(u)
<1>1. WireInv(u) /\ KeepsInRam(u)  BY SameWireKeeps
<1> QED BY <1>1 DEF CtrlInv, PhaseInv, Confirmed, Wifi!Scanning, Wifi!States, Wifi!Requests

\* WC_WAIT_READY.
LEMMA WaitReadyKeeps ==
    ASSUME NEW w, CtrlInv(w), w.st = "ready", NEW u \in Wifi!WaitReady(w)
    PROVE  CtrlInv(u)
<1>0. WireInv(w) /\ DOMAIN w = Fields /\ Fresh(w)  BY DEF CtrlInv, WireInv, PhaseInv
<1>1. CASE w.ready
  <2> DEFINE v == [w EXCEPT !.evc = FALSE, !.evd = FALSE]
  <2>1. u \in Wifi!OrBackoff(Wifi!Send(v, "init"))  BY <1>1 DEF Wifi!WaitReady
  <2>2. SameWire(v, w)  BY <1>0 DEF SameWire, Fields
  <2> HIDE DEF v
  <2>3. WireInv(v) /\ Fresh(v)  BY <1>0, <2>2, SameWireKeeps
  <2>4. MaySend(v, "init")  BY <2>3 DEF MaySend, Wifi!Requests, Confirmed, Wifi!Scanning
  <2> QED BY <2>1, <2>3, <2>4, OrBackoffKeeps
<1>2. CASE ~w.ready
  <2>1. u = w \/ \E v \in {w} \cup Wifi!Trouble(w) : u \in Wifi!NoBootEvent(v)
    <3> DEFINE S == (IF w.c3 \in {"boot", "run"} THEN {} ELSE {w}) \cup Wifi!Trouble(w)
    <3>1. Wifi!WaitReady(w) = (UNION {Wifi!NoBootEvent(v) : v \in S}) \cup {w}
      BY <1>2 DEF Wifi!WaitReady
    <3>2. S \subseteq {w} \cup Wifi!Trouble(w)  OBVIOUS
    <3> HIDE DEF S
    <3> QED BY <3>1, <3>2
  <2>2. ASSUME NEW v \in {w} \cup Wifi!Trouble(w), u \in Wifi!NoBootEvent(v) PROVE CtrlInv(u)
    <3> DEFINE off == [Wifi!Stop(v) EXCEPT !.started = FALSE, !.tried = TRUE, !.fdone = "no"]
               f == [off EXCEPT !.st = "flashing"]
    <3>1. WireInv(v)
      <4>1. CASE v \in Wifi!Trouble(w)
        BY <1>0, <4>1, TroubleKeeps, SameWireKeeps DEF SameControl
      <4> QED BY <1>0, <4>1
    <3>2. u = f \/ (\E x \in Wifi!Trouble(off) : u = Wifi!ToBackoff(x)) \/ u = Wifi!ToBackoff(v)
      BY <2>2 DEF Wifi!NoBootEvent
    <3>3. IsReset(Wifi!Stop(v)) /\ Wifi!Stop(v).running = FALSE  BY <3>1, StopResets DEF WireInv
    <3>4. IsReset(off)  BY <3>3 DEF IsReset, Fields, Outcomes
    <3>5. IsReset(f) /\ f.st = "flashing"  BY <3>4 DEF IsReset, Fields
    <3> HIDE DEF off, f
    <3>6. CASE u = f
      BY <3>5, <3>6, ResetKeeps DEF Wifi!States
    <3>7. ASSUME NEW x \in Wifi!Trouble(off), u = Wifi!ToBackoff(x) PROVE CtrlInv(u)
      <4>1. WireInv(off) /\ DOMAIN off = Fields  BY <3>4, ResetWire DEF WireInv
      <4>2. SameWire(x, off)  BY <4>1, TroubleKeeps DEF SameControl
      <4>3. WireInv(x)  BY <4>1, <4>2, SameWireKeeps
      <4> QED BY <3>7, <4>3, ToBackoffKeeps
    <3> QED BY <3>1, <3>2, <3>6, <3>7, ToBackoffKeeps
  <2> QED BY <2>1, <2>2
<1> QED BY <1>1, <1>2

\* esp_wifi_ctrl_reconnect_if_dropped.
LEMMA ReconnectKeeps ==
    ASSUME NEW w, WireInv(w), KeepsInRam(w), NEW u \in Wifi!Reconnect(w)
    PROVE  CtrlInv(u)
<1> DEFINE v == [w EXCEPT !.evd = FALSE, !.link = FALSE]
<1>1. PICK x \in Wifi!OrBackoff(Wifi!Send(v, "connect")) : u = [x EXCEPT !.st = IF @ = "connect" THEN "assoc" ELSE @]
  BY DEF Wifi!Reconnect
<1>2. SameWire(v, w)  BY DEF WireInv, SameWire, Fields
<1> HIDE DEF v
<1>3. WireInv(v) /\ KeepsInRam(v)  BY <1>2, SameWireKeeps
<1>4. MaySend(v, "connect") /\ "connect" \in Confirmed
  BY <1>3 DEF MaySend, Wifi!Requests, Confirmed, Wifi!Scanning
<1>5. CtrlInv(x) /\ (x.st = "connect" => KeepsInRam(x))  BY <1>3, <1>4, OrBackoffKeeps
<1>6. DOMAIN x = Fields  BY <1>5 DEF CtrlInv, WireInv
<1>7. CASE x.st = "connect"
  <2>1. SameWire(u, x) /\ u.st = "assoc"  BY <1>1, <1>6, <1>7 DEF SameWire, Fields
  <2> QED BY <1>5, <1>7, <2>1, GoesOn DEF CtrlInv, Confirmed
<1>8. CASE x.st # "connect"
  <2>1. SameControl(u, x)  BY <1>1, <1>6, <1>8 DEF SameControl, SameWire, Fields
  <2> QED BY <1>5, <2>1, SameControlKeeps
<1> QED BY <1>7, <1>8

\* rssi_missed.
LEMMA RssiMissedKeeps ==
    ASSUME NEW w, WireInv(w), KeepsInRam(w)
    PROVE  CtrlInv(Wifi!RssiMissed(w))
<1> DEFINE u == [w EXCEPT !.await = "none", !.st = "up", !.misses = @ + 1]
<1>1. SameWire(u, w) /\ u.st = "up"  BY DEF WireInv, SameWire, Fields
<1>2. Wifi!RssiMissed(w) = u \/ Wifi!RssiMissed(w) = Wifi!SlaveLost(u)  BY DEF Wifi!RssiMissed
<1> HIDE DEF u
<1>3. CtrlInv(u)  BY <1>1, GoesOn DEF Confirmed
<1>4. CtrlInv(Wifi!SlaveLost(u))  BY <1>3, SlaveLostKeeps DEF CtrlInv
<1> QED BY <1>2, <1>3, <1>4

\* WC_UP, WC_UP_RSSI.
LEMMA UpKeeps ==
    ASSUME NEW w, CtrlInv(w), w.st \in {"up", "rssi"}, NEW u \in Wifi!Up(w) \cup Wifi!UpRssi(w)
    PROVE  CtrlInv(u)
<1>1. WireInv(w) /\ DOMAIN w = Fields /\ KeepsInRam(w)
  BY DEF CtrlInv, WireInv, PhaseInv, Confirmed
<1>2. CASE u \in Wifi!Reconnect(w)
  BY <1>1, <1>2, ReconnectKeeps
<1>3. CASE \E x \in Wifi!Send(w, "rssi") : u = IF x.st = "rssi" THEN x ELSE Wifi!RssiMissed(x)
  <2>1. PICK x \in Wifi!Send(w, "rssi") : u = IF x.st = "rssi" THEN x ELSE Wifi!RssiMissed(x)
    BY <1>3
  <2>2. MaySend(w, "rssi") /\ "rssi" \in Confirmed
    BY <1>1 DEF MaySend, Wifi!Requests, Confirmed, Wifi!Scanning
  <2>3. WireInv(x) /\ (x.st = "unsent" \/ (x.st = "rssi" /\ CtrlInv(x))) /\ KeepsInRam(x)
    BY <1>1, <2>2, CtrlSendKeeps
  <2> QED BY <2>1, <2>3, RssiMissedKeeps
<1>4. CASE \E x \in Wifi!Late(w, Wifi!Silent(w, "rssi")) : u = Wifi!RssiMissed(x)
  <2>1. PICK x \in Wifi!Late(w, Wifi!Silent(w, "rssi")) : u = Wifi!RssiMissed(x)
    BY <1>4
  <2>2. CtrlInv(x) /\ x.st = w.st  BY LateSame
  <2>3. WireInv(x) /\ KeepsInRam(x)  BY <2>2 DEF CtrlInv, PhaseInv, Confirmed
  <2> QED BY <2>1, <2>3, RssiMissedKeeps
<1>5. CASE u = [w EXCEPT !.await = "none", !.misses = 0, !.st = "up"]
  <2>1. SameWire(u, w) /\ u.st = "up"  BY <1>1, <1>5 DEF SameWire, Fields
  <2> QED BY <1>1, <2>1, GoesOn DEF Confirmed
<1>6. CASE u \in Wifi!Up(w)
  <2>1. \/ u \in Wifi!Reconnect(w) \/ u = w
        \/ \E x \in Wifi!Send(w, "rssi") : u = IF x.st = "rssi" THEN x ELSE Wifi!RssiMissed(x)
    BY <1>6 DEF Wifi!Up
  <2> QED BY <1>2, <1>3, <2>1
<1>7. CASE u \in Wifi!UpRssi(w)
  <2>1. \/ u \in Wifi!Reconnect(w) \/ u = [w EXCEPT !.await = "none", !.misses = 0, !.st = "up"] \/ u = w
        \/ \E x \in Wifi!Late(w, Wifi!Silent(w, "rssi")) : u = Wifi!RssiMissed(x)
    BY <1>7 DEF Wifi!UpRssi
  <2> QED BY <1>2, <1>4, <1>5, <2>1
<1> QED BY <1>6, <1>7

\* scan_send_record counts the records it asked for.
LEMMA ScanSendRecordKeeps ==
    ASSUME NEW w, WireInv(w), KeepsInRam(w), NEW u \in Wifi!ScanSendRecord(w)
    PROVE  CtrlInv(u)
<1>1. PICK x \in Wifi!OrFinish(Wifi!Send(w, "rec")) : u = [x EXCEPT !.read = IF x.st = "rec" THEN @ + 1 ELSE @]
  BY DEF Wifi!ScanSendRecord
<1>2. CtrlInv(x) /\ DOMAIN x = Fields  BY OrFinishKeeps DEF Wifi!Scanning
<1>3. SameControl(u, x)  BY <1>1, <1>2 DEF SameControl, SameWire, Fields
<1> QED BY <1>2, <1>3, SameControlKeeps

\* WC_SCAN_START, WC_SCAN_NUM, WC_SCAN_REC, WC_SCAN_CLEAR.
LEMMA ScanStepKeeps ==
    ASSUME NEW w, CtrlInv(w), w.st \in Wifi!Scanning, NEW u \in Wifi!ScanStep(w)
    PROVE  CtrlInv(u)
<1>1. WireInv(w) /\ DOMAIN w = Fields /\ KeepsInRam(w)
  BY DEF CtrlInv, WireInv, PhaseInv, Confirmed
<1>2. CASE u = Wifi!ScanFinish(w)
  BY <1>1, <1>2, ScanFinishKeeps
<1>3. CASE ~w.resp
  <2>1. u = w \/ \E v \in Wifi!Late(w, Wifi!Silent(w, w.st)) : u = Wifi!ScanFinish(v)
    BY <1>3 DEF Wifi!ScanStep
  <2>2. ASSUME NEW v \in Wifi!Late(w, Wifi!Silent(w, w.st)), u = Wifi!ScanFinish(v) PROVE CtrlInv(u)
    <3>1. CtrlInv(v) /\ v.st \in Confirmed  BY LateSame DEF Confirmed
    <3>2. WireInv(v) /\ KeepsInRam(v)  BY <3>1 DEF CtrlInv, PhaseInv
    <3> QED BY <2>2, <3>2, ScanFinishKeeps
  <2> QED BY <2>1, <2>2
<1>4. CASE w.resp /\ w.st = "scan"
  <2>1. \/ u = Wifi!ScanFinish(w)
        \/ u \in { [x EXCEPT !.num = IF x.st = "num" THEN 0 ELSE @] : x \in Wifi!OrFinish(Wifi!Send(w, "num")) }
    BY <1>4 DEF Wifi!ScanStep
  <2>2. ASSUME NEW x \in Wifi!OrFinish(Wifi!Send(w, "num")), u = [x EXCEPT !.num = IF x.st = "num" THEN 0 ELSE @]
        PROVE  CtrlInv(u)
    <3>1. CtrlInv(x) /\ DOMAIN x = Fields  BY <1>1, OrFinishKeeps DEF Wifi!Scanning
    <3>2. SameControl(u, x)  BY <2>2, <3>1 DEF SameControl, SameWire, Fields
    <3> QED BY <3>1, <3>2, SameControlKeeps
  <2> QED BY <1>2, <2>1, <2>2
<1>5. CASE w.resp /\ w.st = "num"
  <2> DEFINE v == [w EXCEPT !.read = 0]
  <2>1. u \in Wifi!ScanSendRecord(v) \/ u = Wifi!ScanFinish(w)  BY <1>5 DEF Wifi!ScanStep
  <2>2. SameWire(v, w)  BY <1>1 DEF SameWire, Fields
  <2> HIDE DEF v
  <2>3. WireInv(v) /\ KeepsInRam(v)  BY <1>1, <2>2, SameWireKeeps
  <2> QED BY <1>2, <2>1, <2>3, ScanSendRecordKeeps
<1>6. CASE w.resp /\ w.st = "rec"
  <2>1. u \in Wifi!ScanSendRecord(w) \/ u \in Wifi!OrFinish(Wifi!Send(w, "clear")) \/ u = Wifi!ScanFinish(w)
    BY <1>6 DEF Wifi!ScanStep
  <2>2. CASE u \in Wifi!OrFinish(Wifi!Send(w, "clear"))
    BY <1>1, <2>2, OrFinishKeeps DEF Wifi!Scanning
  <2> QED BY <1>1, <1>2, <2>1, <2>2, ScanSendRecordKeeps
<1>7. CASE w.resp /\ w.st = "clear"
  <2>1. u = Wifi!ScanFinish(w)  BY <1>7 DEF Wifi!ScanStep
  <2> QED BY <1>2, <2>1
<1> QED BY <1>3, <1>4, <1>5, <1>6, <1>7 DEF Wifi!Scanning

\* esp_wifi_ctrl_poll's switch, state by state.
LEMMA StepKeeps ==
    ASSUME NEW w, CtrlInv(w), w.st # "flashing", NEW u \in Wifi!Step(w)
    PROVE  CtrlInv(u)
<1>0. WireInv(w) /\ PhaseInv(w) /\ DOMAIN w = Fields  BY DEF CtrlInv, WireInv
<1> USE DEF Wifi!Requests, Confirmed, Wifi!Scanning, MaySend
<1>1. CASE w.st = "down"
  <2>1. u = [w EXCEPT !.st = "ready"]  BY <1>1 DEF Wifi!Step
  <2>2. SameWire(u, w) /\ u.st = "ready"  BY <1>0, <2>1 DEF SameWire, Fields
  <2>3. WireInv(u) /\ Fresh(u)  BY <1>0, <1>1, <2>2, SameWireKeeps DEF PhaseInv
  <2> QED BY <2>2, <2>3 DEF CtrlInv, PhaseInv, Wifi!States
<1>2. CASE w.st = "ready"
  <2>1. u \in Wifi!WaitReady(w)  BY <1>2 DEF Wifi!Step
  <2> QED BY <1>2, <2>1, WaitReadyKeeps
<1>3. CASE w.st = "init"
  <2>1. u \in Wifi!ThenSend(w, "storage")  BY <1>3 DEF Wifi!Step
  <2>2. w.resp => MaySend(w, "storage")  BY <1>0, <1>3 DEF PhaseInv, InWire
  <2> QED BY <2>1, <2>2, ThenSendKeeps
<1>4. CASE w.st = "storage"
  <2>1. u \in Wifi!StorageConfirmed(w)  BY <1>4 DEF Wifi!Step
  <2>2. (w.resp /\ w.ok) => MaySend(w, "mode")  BY <1>0, <1>4 DEF PhaseInv
  <2>3. CASE w.resp /\ ~w.ok
    <3>1. u = Wifi!ToBackoff(w)  BY <2>1, <2>3 DEF Wifi!StorageConfirmed
    <3> QED BY <1>0, <3>1, ToBackoffKeeps
  <2>4. CASE ~(w.resp /\ ~w.ok)
    <3>1. u \in Wifi!ThenSend(w, "mode") /\ (w.resp => MaySend(w, "mode"))
      BY <2>1, <2>2, <2>4 DEF Wifi!StorageConfirmed
    <3> QED BY <3>1, ThenSendKeeps
  <2> QED BY <2>3, <2>4
<1>5. CASE w.st \in Confirmed
  <2>0. KeepsInRam(w)  BY <1>0, <1>5 DEF PhaseInv
  <2>1. ASSUME NEW q \in Confirmed \cap Wifi!Requests, u \in Wifi!ThenSend(w, q) PROVE CtrlInv(u)
    <3>1. MaySend(w, q)  BY <2>0, <2>1
    <3> QED BY <2>1, <3>1, ThenSendKeeps
  <2>2. CASE w.st = "mode"
    <3>1. u \in Wifi!ThenSend(w, IF w.only THEN "start" ELSE "cfg")  BY <2>2 DEF Wifi!Step
    <3> QED BY <2>1, <3>1
  <2>3. CASE w.st = "cfg"
    BY <2>1, <2>3 DEF Wifi!Step
  <2>4. CASE w.st = "start"
    <3>1. CASE w.resp /\ w.only
      <4>1. u \in Wifi!OrFinish(Wifi!Send(w, "scan"))
        BY <2>4, <3>1 DEF Wifi!Step, Wifi!ScanSendStart
      <4> QED BY <1>0, <2>0, <4>1, OrFinishKeeps
    <3>2. CASE ~(w.resp /\ w.only)
      BY <2>1, <2>4, <3>2 DEF Wifi!Step
    <3> QED BY <3>1, <3>2
  <2>5. CASE w.st = "connect"
    BY <2>1, <2>5 DEF Wifi!Step
  <2>6. CASE w.st = "mac"
    <3>1. u \in Wifi!GotMac(w)  BY <2>6 DEF Wifi!Step
    <3>2. CASE u = [w EXCEPT !.await = "none", !.st = "assoc"]
      <4>1. SameWire(u, w) /\ u.st = "assoc"  BY <1>0, <3>2 DEF SameWire, Fields
      <4> QED BY <1>0, <2>0, <4>1, GoesOn
    <3> QED BY <3>1, <3>2, WaitKeeps DEF Wifi!GotMac
  <2>7. CASE w.st = "assoc"
    <3>1. u \in Wifi!WaitAssoc(w)  BY <2>7 DEF Wifi!Step
    <3>2. CASE u = [w EXCEPT !.evc = FALSE, !.link = TRUE, !.misses = 0, !.st = "up"]
      <4>1. SameWire(u, w) /\ u.st = "up"  BY <1>0, <3>2 DEF SameWire, Fields
      <4> QED BY <1>0, <2>0, <4>1, GoesOn
    <3>3. u = [w EXCEPT !.evc = FALSE, !.link = TRUE, !.misses = 0, !.st = "up"] \/ u = Wifi!ToBackoff(w)
          \/ \E s : u \in Wifi!WaitOrBackoff(w, s)
      BY <3>1 DEF Wifi!WaitAssoc
    <3> QED BY <1>0, <3>2, <3>3, WaitKeeps, ToBackoffKeeps
  <2>8. CASE w.st = "up"
    BY <2>8, UpKeeps DEF Wifi!Step
  <2>9. CASE w.st = "rssi"
    BY <2>9, UpKeeps DEF Wifi!Step
  <2>10. CASE w.st \in Wifi!Scanning
    <3>1. u \in Wifi!ScanStep(w)  BY <2>10 DEF Wifi!Step
    <3> QED BY <2>10, <3>1, ScanStepKeeps
  <2> QED BY <1>5, <2>2, <2>3, <2>4, <2>5, <2>6, <2>7, <2>8, <2>9, <2>10
<1>6. CASE w.st = "backoff"
  <2>1. u = w \/ u = Wifi!BackoffOver(w)  BY <1>6 DEF Wifi!Step
  <2>2. IsReset(Wifi!BackoffOver(w)) /\ Wifi!BackoffOver(w).st = "down"
    <3>1. IsReset(Wifi!Stop(w)) /\ Wifi!Stop(w).running = FALSE  BY <1>0, StopResets DEF WireInv
    <3> QED BY <3>1 DEF Wifi!BackoffOver, IsReset, Fields
  <2>3. CtrlInv(Wifi!BackoffOver(w))  BY <2>2, ResetKeeps DEF Wifi!States
  <2> QED BY <2>1, <2>3
<1> QED BY <1>0, <1>1, <1>2, <1>3, <1>4, <1>5, <1>6 DEF PhaseInv, Wifi!States

\* scan_intake: published, started, or made to wait.
LEMMA ScanIntakeKeeps ==
    ASSUME NEW w, CtrlInv(w), NEW u \in Wifi!ScanIntake(w)
    PROVE  CtrlInv(u)
<1> DEFINE v == [w EXCEPT !.run = scanReq]
           alone == [IF w.started THEN Wifi!Stop(v) ELSE v EXCEPT !.only = TRUE, !.await = "none"]
           scan == [v EXCEPT !.only = FALSE]
           fresh == [Wifi!StartC3(alone) EXCEPT !.started = TRUE, !.st = "ready"]
           waits == [w EXCEPT !.waiting = TRUE]
<1>0. WireInv(w) /\ PhaseInv(w) /\ DOMAIN w = Fields  BY DEF CtrlInv, WireInv
<1>1. SameControl(v, w)  BY <1>0 DEF SameControl, SameWire, Fields
<1>2. CtrlInv(v) /\ DOMAIN v = Fields  BY <1>0, <1>1, SameControlKeeps DEF SameControl, SameWire
<1>3. ASSUME NEW x, CtrlInv(x), DOMAIN x = Fields PROVE CtrlInv(Wifi!ScanPublish(x))
  <2>1. SameControl(Wifi!ScanPublish(x), x)
    BY <1>3 DEF SameControl, SameWire, Fields, Wifi!ScanPublish
  <2> QED BY <1>3, <2>1, SameControlKeeps
<1>4. CtrlInv(waits)
  <2>1. SameControl(waits, w)  BY <1>0 DEF SameControl, SameWire, Fields
  <2> HIDE DEF waits
  <2> QED BY <2>1, SameControlKeeps
<1>5. ASSUME NEW x \in Wifi!Trouble(v), u = Wifi!ScanPublish(x) PROVE CtrlInv(u)
  <2>1. SameControl(x, v)  BY <1>2, TroubleKeeps
  <2>2. CtrlInv(x) /\ DOMAIN x = Fields
    BY <1>2, <2>1, SameControlKeeps DEF SameControl, SameWire
  <2> QED BY <1>3, <1>5, <2>2
<1>6. ASSUME w.st = "up", u \in Wifi!ScanSendStart(scan) PROVE CtrlInv(u)
  <2>1. SameWire(scan, w)  BY <1>0 DEF SameWire, Fields
  <2> HIDE DEF scan
  <2>2. WireInv(scan) /\ KeepsInRam(scan)
    BY <1>0, <1>6, <2>1, SameWireKeeps DEF PhaseInv, Confirmed
  <2> QED BY <1>6, <2>2, OrFinishKeeps DEF Wifi!ScanSendStart, Wifi!Scanning
<1>7. CtrlInv(fresh)
  <2> DEFINE b == IF w.started THEN Wifi!Stop(v) ELSE v
  <2>1. b.running = FALSE /\ DOMAIN b = Fields /\ b.fdone \in Outcomes /\ b.nvs = FALSE
    <3>1. CASE w.started
      <4>1. IsReset(Wifi!Stop(v)) /\ Wifi!Stop(v).running = FALSE
        BY <1>2, StopResets DEF CtrlInv, WireInv
      <4> QED BY <3>1, <4>1 DEF IsReset
    <3>2. CASE ~w.started
      <4>1. ~v.running  BY <1>0, <1>1, <3>2 DEF SameControl, SameWire, WireInv
      <4> QED BY <1>2, <3>2, <4>1 DEF CtrlInv, WireInv
    <3> QED BY <3>1, <3>2
  <2> HIDE DEF b
  <2>2. alone = [b EXCEPT !.only = TRUE, !.await = "none"]  BY DEF b
  <2>3. alone.running = FALSE /\ DOMAIN alone = Fields /\ alone.fdone \in Outcomes /\ alone.nvs = FALSE
    BY <2>1, <2>2 DEF Fields
  <2> HIDE DEF alone
  <2>4. IsReset(fresh) /\ fresh.st = "ready"
    BY <2>3 DEF Wifi!StartC3, Wifi!Released, IsReset, Fields
  <2> HIDE DEF fresh
  <2> QED BY <2>4, ResetKeeps DEF Wifi!States
<1> HIDE DEF fresh, waits, scan
<1>8. \/ u = w \/ u = Wifi!ScanPublish(v) \/ (w.st = "up" /\ u \in Wifi!ScanSendStart(scan)) \/ u = fresh \/ u = waits
      \/ \E x \in Wifi!Trouble(v) : u = Wifi!ScanPublish(x)
  BY DEF Wifi!ScanIntake, fresh, waits, scan
<1> QED BY <1>2, <1>3, <1>4, <1>5, <1>6, <1>7, <1>8

\* A control about to start, with the C3 off: it waits for the boot event.
LEMMA CtrlStartKeeps ==
    ASSUME NEW w, WireInv(w), ~w.started
    PROVE  CtrlInv([Wifi!StartC3(w) EXCEPT !.started = TRUE, !.st = "ready"])
<1> DEFINE u == [Wifi!StartC3(w) EXCEPT !.started = TRUE, !.st = "ready"]
<1>1. ~w.running /\ DOMAIN w = Fields /\ w.fdone \in Outcomes /\ w.nvs = FALSE  BY DEF WireInv
<1>2. IsReset(u) /\ u.st = "ready"  BY <1>1 DEF Wifi!StartC3, Wifi!Released, IsReset, Fields
<1> HIDE DEF u
<1>3. CtrlInv(u)  BY <1>2, ResetKeeps DEF Wifi!States
<1> QED BY <1>3 DEF u

\* esp_wifi_ctrl_poll, after the intake.
LEMMA PollRestKeeps ==
    ASSUME NEW w, CtrlInv(w), NEW u \in Wifi!PollRest(w)
    PROVE  CtrlInv(u)
<1>0. WireInv(w) /\ PhaseInv(w) /\ DOMAIN w = Fields  BY DEF CtrlInv, WireInv
<1>1. CASE u = w
  BY <1>1
<1>2. CASE u = [Wifi!Stop(w) EXCEPT !.started = FALSE, !.st = "down"]
  <2>1. IsReset(Wifi!Stop(w)) /\ Wifi!Stop(w).running = FALSE  BY <1>0, StopResets DEF WireInv
  <2>2. IsReset(u) /\ u.st = "down"  BY <1>2, <2>1 DEF IsReset, Fields
  <2> QED BY <2>2, ResetKeeps DEF Wifi!States
<1>3. CASE w.st = "flashing" /\ u \in Wifi!Flashing(w)
  <2> DEFINE f == [w EXCEPT !.fdone = "no"]
  <2>1. u = w \/ u = [w EXCEPT !.fdone = "no", !.st = "down"] \/ u = Wifi!ToBackoff(f)
    BY <1>0, <1>3 DEF Wifi!Flashing, WireInv, Outcomes
  <2>2. WireInv(f)
    <3>1. DOMAIN f = Fields /\ f.fdone = "no" /\ f.wire = w.wire /\ f.out = w.out /\ f.c3w = w.c3w
          /\ f.nvs = w.nvs /\ f.running = w.running /\ f.started = w.started
      BY <1>0 DEF Fields
    <3> HIDE DEF f
    <3> QED BY <1>0, <3>1 DEF WireInv, Outcomes, InWire, KeepsInRam, Fresh, Unanswered
  <2>3. CASE u = [w EXCEPT !.fdone = "no", !.st = "down"]
    <3>1. u = [f EXCEPT !.st = "down"]  BY <2>3
    <3> HIDE DEF f
    <3>2. SameWire(u, f) /\ u.st = "down"  BY <2>2, <3>1 DEF SameWire, Fields, WireInv
    <3>3. Fresh(f)  BY <1>0, <1>3 DEF f, PhaseInv, Fresh, Unanswered, Fields
    <3>4. WireInv(u) /\ Fresh(u)  BY <2>2, <3>2, <3>3, SameWireKeeps
    <3> QED BY <3>2, <3>4 DEF CtrlInv, PhaseInv, Wifi!States, Confirmed, Wifi!Scanning
  <2> HIDE DEF f
  <2> QED BY <2>1, <2>2, <2>3, ToBackoffKeeps
<1>4. CASE \E v : CtrlInv(v) /\ v.st # "flashing" /\ u \in IF v.rebooted THEN Wifi!Rebooted(v) ELSE Wifi!Step(v)
  <2>1. PICK v : CtrlInv(v) /\ v.st # "flashing" /\ u \in IF v.rebooted THEN Wifi!Rebooted(v) ELSE Wifi!Step(v)
    BY <1>4
  <2> DEFINE x == [v EXCEPT !.rebooted = FALSE]
  <2>2. DOMAIN v = Fields  BY <2>1 DEF CtrlInv, WireInv
  <2>3. SameControl(x, v)  BY <2>2 DEF SameControl, SameWire, Fields
  <2>4. u \in Wifi!Step(v) \/ u = Wifi!SlaveLost(x) \/ u \in Wifi!Step(x)
    BY <2>1 DEF Wifi!Rebooted
  <2> HIDE DEF x
  <2>5. CtrlInv(x) /\ x.st # "flashing"  BY <2>1, <2>3, SameControlKeeps DEF SameControl
  <2> QED BY <2>1, <2>4, <2>5, StepKeeps, SlaveLostKeeps DEF CtrlInv
<1> DEFINE start == [Wifi!StartC3(w) EXCEPT !.started = TRUE, !.st = "ready"]
<1>5. ~w.started => CtrlInv(start) /\ start.st # "flashing"
  <2>1. ~w.started => CtrlInv(start)  BY <1>0, CtrlStartKeeps
  <2>2. ASSUME CtrlInv(start), ~w.started PROVE start.st = "ready"
    BY <1>0 DEF Wifi!StartC3, Wifi!Released, Fields, WireInv
  <2> QED BY <2>1, <2>2
<1> HIDE DEF start
<1>6. \/ u = w \/ u = [Wifi!Stop(w) EXCEPT !.started = FALSE, !.st = "down"]
      \/ w.st = "flashing" /\ u \in Wifi!Flashing(w)
      \/ w.st # "flashing" /\ \E v : /\ v = (IF w.started THEN w ELSE start)
                                     /\ u \in IF v.rebooted THEN Wifi!Rebooted(v) ELSE Wifi!Step(v)
  BY DEF Wifi!PollRest, start
<1> QED BY <1>1, <1>2, <1>3, <1>4, <1>5, <1>6

\* The parts that neither a frame, nor a request served, nor a C3 that starts over changes.
SameHost(u, w) ==
    /\ DOMAIN u = DOMAIN w /\ u.fdone = w.fdone /\ u.running = w.running /\ u.started = w.started
    /\ u.st = w.st /\ u.await = w.await

\* A C3 that forgets all but its flash, in whatever state that finds the control.
LEMMA ForgetKeeps ==
    ASSUME NEW w, CtrlInv(w), NEW u, SameHost(u, w), u.wire = w.wire, u.nvs = w.nvs, u.resp = w.resp,
           u.out = <<>>, u.c3w = Wifi!FreshC3
    PROVE  CtrlInv(u)
<1>0. WireInv(w) /\ PhaseInv(w) /\ DOMAIN w = Fields  BY DEF CtrlInv, WireInv
<1>1. u.c3w \in C3Memory /\ ~u.c3w.inited /\ u.out \in Seq(Answers) /\ \A k : Unanswered(u, k)
  BY DEF Wifi!FreshC3, C3Memory, Unanswered
<1>2. /\ \A q : InWire(u, q) <=> InWire(w, q)
      /\ KeepsInRam(u) <=> ~InWire(w, "init")
  BY <1>1 DEF InWire, KeepsInRam
<1>3. InWire(u, "cfg") => KeepsInRam(u)  BY <1>0, <1>2 DEF WireInv, KeepsInRam
<1>4. Fresh(w) => Fresh(u)  BY <1>1 DEF Fresh
<1>5. u.out = <<>> /\ Len(u.out) = 0  OBVIOUS
<1>6. WireInv(u)  BY <1>0, <1>1, <1>3, <1>4, <1>5 DEF WireInv, SameHost
<1>7. PhaseInv(u)  BY <1>0, <1>1, <1>2, <1>4 DEF PhaseInv, SameHost, KeepsInRam
<1> QED BY <1>6, <1>7 DEF CtrlInv

\* handle_rx_frame, on_serial_frame: a frame of the C3 is taken in.
LEMMA OnFrameKeeps ==
    ASSUME NEW w, CtrlInv(w), w.out # <<>>
    PROVE  CtrlInv(Wifi!OnFrame([w EXCEPT !.out = Tail(@)], Head(w.out)))
<1> DEFINE v == [w EXCEPT !.out = Tail(@)]  f == Head(w.out)  u == Wifi!OnFrame(v, f)
<1>0. WireInv(w) /\ PhaseInv(w) /\ DOMAIN w = Fields  BY DEF CtrlInv, WireInv
<1>1. /\ Tail(w.out) \in Seq(Answers) /\ Len(Tail(w.out)) = Len(w.out) - 1 /\ Len(w.out) \in Nat \ {0}
      /\ \A i \in 1 .. Len(Tail(w.out)) : i + 1 \in 1 .. Len(w.out) /\ Tail(w.out)[i] = w.out[i + 1]
      /\ f = w.out[1]
  BY <1>0 DEF WireInv
<1>2. /\ SameHost(v, w) /\ v.wire = w.wire /\ v.nvs = w.nvs /\ v.c3w = w.c3w /\ v.resp = w.resp /\ v.ok = w.ok
      /\ v.out = Tail(w.out) /\ DOMAIN v = Fields
  BY <1>0 DEF SameHost, Fields
<1> HIDE DEF v
<1>3. /\ SameHost(u, v) /\ u.wire = v.wire /\ u.nvs = v.nvs /\ u.c3w = v.c3w /\ u.out = v.out
      /\ \/ u.resp = v.resp /\ u.ok = v.ok
         \/ u.resp = (v.resp \/ f.kind = v.await) /\ u.ok = (v.ok /\ f.ok)
  <2>1. CASE f.kind \in {"boot", "conn", "disc"}
    BY <1>2, <2>1 DEF Wifi!OnFrame, SameHost, Fields
  <2>2. CASE f.kind \notin {"boot", "conn", "disc"}
    BY <1>2, <2>2 DEF Wifi!OnFrame, SameHost, Fields
  <2> QED BY <2>1, <2>2
<1> HIDE DEF u
<1>4. /\ KeepsInRam(w) <=> KeepsInRam(u)
      /\ \A q : InWire(w, q) <=> InWire(u, q)
      /\ \A k : Unanswered(w, k) => Unanswered(u, k) /\ f.kind # k
      /\ Fresh(w) => Fresh(u)
  BY <1>1, <1>2, <1>3 DEF KeepsInRam, InWire, Unanswered, Fresh
<1>5. \A i \in 1 .. Len(u.out) : u.out[i].kind = "storage" /\ u.out[i].ok => u.c3w.ram
  BY <1>0, <1>1, <1>2, <1>3 DEF WireInv
<1>6. WireInv(u)  BY <1>0, <1>1, <1>2, <1>3, <1>4, <1>5 DEF WireInv, SameHost
<1>7. u.st = w.st /\ u.await = w.await /\ u.wire = w.wire  BY <1>2, <1>3 DEF SameHost
<1>8. ASSUME u.st = "init" PROVE u.wire = <<>> \/ (u.wire = <<"init">> /\ ~u.resp /\ Unanswered(u, "init"))
  <2>1. w.await = "init" /\ (w.wire = <<>> \/ (w.wire = <<"init">> /\ ~w.resp /\ Unanswered(w, "init")))
    BY <1>0, <1>7, <1>8 DEF PhaseInv
  <2>2. ASSUME w.wire = <<"init">>, ~w.resp, Unanswered(w, "init") PROVE ~u.resp /\ Unanswered(u, "init")
    BY <1>2, <1>3, <1>4, <2>1, <2>2 DEF SameHost
  <2> QED BY <1>7, <2>1, <2>2
<1>9. ASSUME u.st = "storage", u.resp, u.ok PROVE KeepsInRam(u)
  <2>1. w.await = "storage" /\ ~InWire(w, "init") /\ (w.resp /\ w.ok => KeepsInRam(w))
    BY <1>0, <1>7, <1>9 DEF PhaseInv
  <2>2. CASE w.resp /\ w.ok
    BY <1>4, <2>1, <2>2
  <2>3. CASE f.kind = "storage" /\ f.ok
    <3>1. w.c3w.ram  BY <1>0, <1>1, <2>3 DEF WireInv
    <3>2. KeepsInRam(w)  BY <2>1, <3>1 DEF KeepsInRam
    <3> QED BY <1>4, <3>2
  <2> QED BY <1>2, <1>3, <1>9, <2>1, <2>2, <2>3 DEF SameHost
<1>10. PhaseInv(u)  BY <1>0, <1>4, <1>7, <1>8, <1>9 DEF PhaseInv
<1>11. CtrlInv(u)  BY <1>6, <1>10 DEF CtrlInv
<1> QED BY <1>11 DEF u, v

\* What the C3 has to say, with one answer more.
LEMMA AnsweredOut ==
    ASSUME NEW w, NEW u, NEW a \in Answers, w.out \in Seq(Answers), u.out = Append(w.out, a)
    PROVE  /\ u.out \in Seq(Answers)
           /\ \A k : Unanswered(w, k) /\ a.kind # k => Unanswered(u, k)
           /\ \A i \in 1 .. Len(u.out) : (i \in 1 .. Len(w.out) /\ u.out[i] = w.out[i]) \/ u.out[i] = a
<1>1. /\ Append(w.out, a) \in Seq(Answers) /\ Len(Append(w.out, a)) = Len(w.out) + 1 /\ Len(w.out) \in Nat
  OBVIOUS
<1>2. \A i \in 1 .. Len(w.out) : Append(w.out, a)[i] = w.out[i]  OBVIOUS
<1>3. Append(w.out, a)[Len(w.out) + 1] = a  OBVIOUS
<1>4. \A i \in 1 .. Len(u.out) : (i \in 1 .. Len(w.out) /\ u.out[i] = w.out[i]) \/ u.out[i] = a
  BY <1>1, <1>2, <1>3
<1>5. \A k : Unanswered(w, k) /\ a.kind # k => Unanswered(u, k)  BY <1>4 DEF Unanswered
<1> QED BY <1>1, <1>4, <1>5

\* A boot, or news of the association.
LEMMA EventKeeps ==
    ASSUME NEW w, CtrlInv(w), NEW k \in {"boot", "conn", "disc"}, NEW u, SameHost(u, w),
           u.out = Append(w.out, [kind |-> k, ok |-> TRUE, n |-> 0]), u.wire = w.wire, u.nvs = w.nvs,
           u.resp = w.resp, u.ok = w.ok, u.c3w \in C3Memory, u.c3w.inited = w.c3w.inited, u.c3w.ram = w.c3w.ram
    PROVE  CtrlInv(u)
<1> DEFINE a == [kind |-> k, ok |-> TRUE, n |-> 0]
<1>0. WireInv(w) /\ PhaseInv(w)  BY DEF CtrlInv
<1>1. a \in Answers /\ a.kind \notin {"init", "storage"}  BY DEF Answers
<1> HIDE DEF a
<1>2. /\ u.out \in Seq(Answers)
      /\ \A x : Unanswered(w, x) /\ a.kind # x => Unanswered(u, x)
      /\ \A i \in 1 .. Len(u.out) : (i \in 1 .. Len(w.out) /\ u.out[i] = w.out[i]) \/ u.out[i] = a
  <2>1. w.out \in Seq(Answers) /\ u.out = Append(w.out, a)  BY <1>0 DEF WireInv, a
  <2> QED BY <1>1, <2>1, AnsweredOut
<1>3. /\ KeepsInRam(w) <=> KeepsInRam(u)
      /\ \A q : InWire(w, q) <=> InWire(u, q)
      /\ Fresh(w) => Fresh(u)
      /\ Unanswered(w, "init") => Unanswered(u, "init")
  BY <1>1, <1>2 DEF KeepsInRam, InWire, Fresh
<1>4. \A i \in 1 .. Len(u.out) : u.out[i].kind = "storage" /\ u.out[i].ok => u.c3w.ram
  BY <1>0, <1>1, <1>2 DEF WireInv
<1>5. WireInv(u)  BY <1>0, <1>2, <1>3, <1>4 DEF WireInv, SameHost
<1>6. PhaseInv(u)  BY <1>0, <1>3 DEF PhaseInv, SameHost
<1> QED BY <1>5, <1>6 DEF CtrlInv

\* What an answer of the C3 may come with: it keeps credentials only if it was not told to use its RAM.
Serves(u, w, q, a) ==
    /\ SameHost(u, w) /\ u.wire = w.wire /\ u.resp = w.resp /\ u.ok = w.ok /\ DOMAIN u = Fields
    /\ a \in Answers /\ a.kind = q /\ u.out = Append(w.out, a) /\ u.c3w \in C3Memory
    /\ u.c3w.inited => q = "init" \/ w.c3w.inited
    /\ w.c3w.ram => u.c3w.ram
    /\ q = "storage" /\ a.ok => u.c3w.ram
    /\ u.nvs = w.nvs \/ (q = "cfg" /\ w.c3w.inited /\ u.nvs = (w.nvs \/ ~w.c3w.ram))

\* So it answers every request.
LEMMA C3ServesFacts ==
    ASSUME Wifi!ConstantsOK, NEW w, DOMAIN w = Fields, w.c3w \in C3Memory, NEW q \in Wifi!Requests,
           NEW u \in Wifi!C3Serves(w, q)
    PROVE  \E a \in Answers : Serves(u, w, q, a)
<1> DEFINE A(ok, n) == [w EXCEPT !.out = Append(@, [kind |-> q, ok |-> ok, n |-> n])]
           a(ok, n) == [kind |-> q, ok |-> ok, n |-> n]
<1>0. 0 .. MaxAps \subseteq Nat  BY DEF Wifi!ConstantsOK
<1>1. \A ok \in BOOLEAN, n \in Nat : a(ok, n) \in Answers /\ a(ok, n).kind = q /\ a(ok, n).ok = ok
  BY DEF Answers
<1>2. ASSUME NEW ok \in BOOLEAN, NEW n \in Nat
      PROVE  /\ SameHost(A(ok, n), w) /\ A(ok, n).wire = w.wire /\ A(ok, n).resp = w.resp /\ A(ok, n).ok = w.ok
             /\ DOMAIN A(ok, n) = Fields /\ A(ok, n).out = Append(w.out, a(ok, n)) /\ A(ok, n).c3w = w.c3w
             /\ A(ok, n).nvs = w.nvs
  BY DEF SameHost, Fields
<1> HIDE DEF A, a
<1>3. ASSUME NEW ok \in BOOLEAN, NEW n \in Nat, u = A(ok, n), ~(q = "storage" /\ ok)
      PROVE  \E x \in Answers : Serves(u, w, q, x)
  BY <1>1, <1>2, <1>3 DEF Serves
<1>4. ASSUME NEW v \in Wifi!Trouble(w), u = [v EXCEPT !.out = Append(@, [kind |-> q, ok |-> FALSE, n |-> 0])]
      PROVE  \E x \in Answers : Serves(u, w, q, x)
  <2>1. SameControl(v, w)  BY <1>4, TroubleKeeps
  <2>2. /\ SameHost(u, w) /\ u.wire = w.wire /\ u.resp = w.resp /\ u.ok = w.ok
        /\ DOMAIN u = Fields /\ u.out = Append(w.out, a(FALSE, 0)) /\ u.c3w = w.c3w /\ u.nvs = w.nvs
    BY <1>4, <2>1 DEF SameControl, SameWire, SameHost, Fields, a
  <2>3. a(FALSE, 0) \in Answers /\ a(FALSE, 0).kind = q /\ ~a(FALSE, 0).ok  BY <1>1
  <2> QED BY <2>2, <2>3 DEF Serves
<1>5. ASSUME NEW m \in C3Memory, u = [A(TRUE, 0) EXCEPT !.c3w = m], m.inited => q = "init" \/ w.c3w.inited,
             w.c3w.ram => m.ram, q = "storage" => m.ram
      PROVE  \E x \in Answers : Serves(u, w, q, x)
  <2>1. /\ SameHost(u, w) /\ u.wire = w.wire /\ u.resp = w.resp /\ u.ok = w.ok
        /\ DOMAIN u = Fields /\ u.out = Append(w.out, a(TRUE, 0)) /\ u.c3w = m /\ u.nvs = w.nvs
    BY <1>2, <1>5 DEF SameHost, Fields
  <2> QED BY <1>1, <1>5, <2>1 DEF Serves
<1>6. CASE q = "init"
  <2>1. PICK m : m = [w.c3w EXCEPT !.inited = TRUE]
    OBVIOUS
  <2>2. m \in C3Memory /\ m.ram = w.c3w.ram  BY <2>1 DEF C3Memory
  <2>3. u = [A(TRUE, 0) EXCEPT !.c3w.inited = TRUE]  BY <1>6 DEF Wifi!C3Serves, A
  <2>4. u = [A(TRUE, 0) EXCEPT !.c3w = m]  BY <1>2, <2>1, <2>3
  <2> QED BY <1>5, <1>6, <2>2, <2>4
<1>7. CASE q # "init" /\ ~w.c3w.inited
  <2>1. u = A(FALSE, 0)  BY <1>7 DEF Wifi!C3Serves, A
  <2> QED BY <1>3, <2>1
<1>8. CASE w.c3w.inited /\ q = "storage"
  <2>1. PICK m : m = [w.c3w EXCEPT !.ram = TRUE]
    OBVIOUS
  <2>2. m \in C3Memory /\ m.ram /\ (m.inited => w.c3w.inited)  BY <2>1 DEF C3Memory
  <2>3. u = [A(TRUE, 0) EXCEPT !.c3w.ram = TRUE]
        \/ \E v \in Wifi!Trouble(w) : u = [v EXCEPT !.out = Append(@, [kind |-> q, ok |-> FALSE, n |-> 0])]
    BY <1>8 DEF Wifi!C3Serves, A
  <2>4. CASE u = [A(TRUE, 0) EXCEPT !.c3w.ram = TRUE]
    <3>1. u = [A(TRUE, 0) EXCEPT !.c3w = m]  BY <1>2, <2>1, <2>4
    <3> QED BY <1>5, <1>8, <2>2, <3>1
  <2> QED BY <1>4, <2>3, <2>4
<1>9. CASE w.c3w.inited /\ q = "cfg"
  <2>1. u = [A(TRUE, 0) EXCEPT !.nvs = @ \/ ~w.c3w.ram]  BY <1>9 DEF Wifi!C3Serves, A
  <2>2. /\ SameHost(u, w) /\ u.wire = w.wire /\ u.resp = w.resp /\ u.ok = w.ok
        /\ DOMAIN u = Fields /\ u.out = Append(w.out, a(TRUE, 0)) /\ u.c3w = w.c3w
        /\ u.nvs = (w.nvs \/ ~w.c3w.ram)
    BY <1>2, <2>1 DEF SameHost, Fields
  <2> QED BY <1>1, <1>9, <2>2 DEF Serves
<1>10. CASE w.c3w.inited /\ q = "connect"
  <2>1. PICK m : m = [w.c3w EXCEPT !.assoc = "trying"]
    OBVIOUS
  <2>2. m \in C3Memory /\ m.ram = w.c3w.ram /\ m.inited = w.c3w.inited  BY <2>1 DEF C3Memory
  <2>3. u = [A(TRUE, 0) EXCEPT !.c3w.assoc = "trying"]  BY <1>10 DEF Wifi!C3Serves, A
  <2>4. u = [A(TRUE, 0) EXCEPT !.c3w = m]  BY <1>2, <2>1, <2>3
  <2> QED BY <1>5, <1>10, <2>2, <2>4
<1>11. CASE w.c3w.inited /\ q = "scan"
  <2>1. \/ u = A(TRUE, 0)
        \/ \E v \in Wifi!Trouble(w) : u = [v EXCEPT !.out = Append(@, [kind |-> q, ok |-> FALSE, n |-> 0])]
    BY <1>11 DEF Wifi!C3Serves, A
  <2> QED BY <1>3, <1>4, <1>11, <2>1
<1>12. CASE w.c3w.inited /\ q = "num"
  <2>1. \E n \in 0 .. MaxAps : u = A(TRUE, n)  BY <1>12 DEF Wifi!C3Serves, A
  <2> QED BY <1>0, <1>3, <1>12, <2>1
<1>13. CASE w.c3w.inited /\ q \notin {"init", "storage", "cfg", "connect", "scan", "num"}
  <2>1. u = A(TRUE, 0)  BY <1>13 DEF Wifi!C3Serves, A
  <2> QED BY <1>3, <1>13, <2>1
<1> QED BY <1>6, <1>7, <1>8, <1>9, <1>10, <1>11, <1>12, <1>13

\* The C3 takes the next request off the wire and answers it.
LEMMA C3ServesKeeps ==
    ASSUME Wifi!ConstantsOK, NEW w, CtrlInv(w), w.wire # <<>>,
           NEW u \in Wifi!C3Serves([w EXCEPT !.wire = Tail(@)], Head(w.wire))
    PROVE  CtrlInv(u)
<1> DEFINE v == [w EXCEPT !.wire = Tail(@)]  q == Head(w.wire)
<1>0. WireInv(w) /\ PhaseInv(w) /\ DOMAIN w = Fields  BY DEF CtrlInv, WireInv
<1>1. /\ Tail(w.wire) \in Seq(Wifi!Requests) /\ Len(Tail(w.wire)) = Len(w.wire) - 1 /\ Len(w.wire) \in Nat \ {0}
      /\ \A i \in 1 .. Len(Tail(w.wire)) : i + 1 \in 1 .. Len(w.wire) /\ Tail(w.wire)[i] = w.wire[i + 1]
      /\ q = w.wire[1] /\ q \in Wifi!Requests
  BY <1>0 DEF WireInv
<1>2. /\ SameHost(v, w) /\ v.wire = Tail(w.wire) /\ v.nvs = w.nvs /\ v.c3w = w.c3w /\ v.resp = w.resp
      /\ v.ok = w.ok /\ v.out = w.out /\ DOMAIN v = Fields
  BY <1>0 DEF SameHost, Fields
<1> HIDE DEF v
<1>3. PICK a \in Answers : Serves(u, v, q, a)
  <2>1. v.c3w \in C3Memory /\ u \in Wifi!C3Serves(v, q)  BY <1>0, <1>2 DEF WireInv, v
  <2> QED BY <1>1, <1>2, <2>1, C3ServesFacts
<1> HIDE DEF q
<1>4. InWire(w, q)  BY <1>1 DEF InWire
<1>5. \A x : InWire(u, x) => InWire(w, x)
  <2>1. u.wire = Tail(w.wire)  BY <1>2, <1>3 DEF Serves
  <2> QED BY <1>1, <2>1 DEF InWire
<1>6. KeepsInRam(w) => KeepsInRam(u) /\ q # "init"
  BY <1>2, <1>3, <1>4, <1>5 DEF KeepsInRam, Serves
<1>7. /\ u.out \in Seq(Answers)
      /\ \A k : Unanswered(w, k) /\ a.kind # k => Unanswered(u, k)
      /\ \A i \in 1 .. Len(u.out) : (i \in 1 .. Len(w.out) /\ u.out[i] = w.out[i]) \/ u.out[i] = a
  <2>1. w.out \in Seq(Answers) /\ u.out = Append(w.out, a)
    BY <1>0, <1>2, <1>3 DEF WireInv, Serves
  <2> QED BY <2>1, AnsweredOut
<1>8. u.nvs = FALSE
  <2>1. CASE u.nvs = v.nvs
    BY <1>0, <1>2, <2>1 DEF WireInv
  <2>2. CASE q = "cfg" /\ v.c3w.inited /\ u.nvs = (v.nvs \/ ~v.c3w.ram)
    <3>1. w.c3w.ram  BY <1>0, <1>2, <1>4, <2>2 DEF WireInv, KeepsInRam
    <3>2. v.nvs = FALSE /\ v.c3w.ram  BY <1>0, <1>2, <3>1 DEF WireInv
    <3> QED BY <2>2, <3>2
  <2> QED BY <1>3, <2>1, <2>2 DEF Serves
<1>9. \A i \in 1 .. Len(u.out) : u.out[i].kind = "storage" /\ u.out[i].ok => u.c3w.ram
  BY <1>0, <1>2, <1>3, <1>7 DEF WireInv, Serves
<1>10. DOMAIN u = Fields /\ u.fdone \in Outcomes /\ u.wire \in Seq(Wifi!Requests) /\ u.c3w \in C3Memory
       /\ u.running /\ u.started
  BY <1>0, <1>1, <1>2, <1>3 DEF WireInv, Serves, SameHost
<1>11. InWire(u, "cfg") => KeepsInRam(u)  BY <1>0, <1>5, <1>6 DEF WireInv
<1>12. WireInv(u)  BY <1>7, <1>8, <1>9, <1>10, <1>11 DEF WireInv
<1>13. u.st = w.st /\ u.await = w.await /\ u.resp = w.resp /\ u.ok = w.ok /\ u.wire = Tail(w.wire)
  BY <1>2, <1>3 DEF Serves, SameHost
<1>14. ASSUME u.st = "init" PROVE u.wire = <<>>
  <2>1. w.wire = <<"init">>  BY <1>0, <1>13, <1>14 DEF PhaseInv
  <2> QED BY <1>13, <2>1
<1>15. PhaseInv(u)  BY <1>0, <1>5, <1>6, <1>13, <1>14 DEF PhaseInv, Fresh
<1> QED BY <1>12, <1>15 DEF CtrlInv

\* EN low, and EN high again: nothing that the control's state rests on is lost.
LEMMA HeldKeeps ==
    ASSUME NEW w, CtrlInv(w)
    PROVE  /\ CtrlInv(Wifi!HeldInReset(w)) /\ CtrlInv(Wifi!Released(w))
           /\ CtrlInv([Wifi!HeldInReset(w) EXCEPT !.c3 = "rom"])
<1> DEFINE r == [Wifi!HeldInReset(w) EXCEPT !.c3 = "rom"]
       Forgot(u) == /\ SameHost(u, w) /\ u.wire = w.wire /\ u.nvs = w.nvs /\ u.resp = w.resp
                        /\ u.out = <<>> /\ u.c3w = Wifi!FreshC3
<1>1. DOMAIN w = Fields  BY DEF CtrlInv, WireInv
<1>2. Forgot(Wifi!HeldInReset(w))  BY <1>1 DEF Wifi!HeldInReset, SameHost, Fields
<1>3. Forgot(Wifi!Released(w))  BY <1>1 DEF Wifi!Released, SameHost, Fields
<1>4. Forgot(r)  BY <1>2 DEF SameHost, Fields
<1>5. CtrlInv(Wifi!HeldInReset(w))  BY <1>2, ForgetKeeps
<1>6. CtrlInv(Wifi!Released(w))  BY <1>3, ForgetKeeps
<1> HIDE DEF r
<1>7. CtrlInv(r)  BY <1>4, ForgetKeeps
<1> QED BY <1>5, <1>6, <1>7 DEF r

\* esp_wifi_ctrl_reload: down, and nothing asked.
LEMMA ReloadKeeps ==
    ASSUME NEW w, CtrlInv(w)
    PROVE  CtrlInv(Wifi!Reload(w))
<1> DEFINE u == IF w.run > 0 THEN Wifi!ScanPublish(w) ELSE w
           b == IF w.started THEN Wifi!Stop(u) ELSE u
           r == [b EXCEPT !.only = FALSE, !.started = FALSE, !.tried = FALSE, !.link = FALSE, !.st = "down"]
<1>0. WireInv(w) /\ DOMAIN w = Fields  BY DEF CtrlInv, WireInv
<1>1. SameControl(u, w)  BY <1>0 DEF SameControl, SameWire, Wifi!ScanPublish, Fields
<1>2. Wifi!Reload(w) = r  BY DEF Wifi!Reload
<1> HIDE DEF u
<1>3. WireInv(u) /\ u.started = w.started /\ DOMAIN u = Fields
  BY <1>0, <1>1, SameWireKeeps DEF SameControl, SameWire
<1>4. WireInv(b) /\ Fresh(b) /\ ~b.running /\ DOMAIN b = Fields
  <2>1. CASE w.started
    <3>1. IsReset(Wifi!Stop(u)) /\ Wifi!Stop(u).running = FALSE  BY <1>3, StopResets DEF WireInv
    <3> QED BY <2>1, <3>1, ResetWire DEF IsReset
  <2>2. CASE ~w.started
    BY <1>3, <2>2 DEF WireInv
  <2> QED BY <2>1, <2>2
<1> HIDE DEF b
<1>5. /\ DOMAIN r = Fields /\ r.fdone = b.fdone /\ r.wire = b.wire /\ r.out = b.out /\ r.c3w = b.c3w
      /\ r.nvs = b.nvs /\ r.running = b.running /\ r.started = FALSE /\ r.st = "down"
  BY <1>4 DEF Fields
<1> HIDE DEF r
<1>6. Fresh(r) /\ (KeepsInRam(b) => KeepsInRam(r)) /\ (InWire(r, "cfg") => InWire(b, "cfg"))
  BY <1>4, <1>5 DEF Fresh, KeepsInRam, InWire, Unanswered
<1>7. WireInv(r)  BY <1>4, <1>5, <1>6 DEF WireInv
<1>8. PhaseInv(r)  BY <1>5, <1>6 DEF PhaseInv, Wifi!States, Confirmed, Wifi!Scanning
<1> QED BY <1>2, <1>7, <1>8 DEF CtrlInv

\* net_wifi_hold_for_flash, and its end.
LEMMA HoldKeeps ==
    ASSUME NEW w, CtrlInv(w)
    PROVE  CtrlInv(Wifi!Hold(w)) /\ CtrlInv(Wifi!Unhold(w))
<1> DEFINE h == [w EXCEPT !.paused = TRUE]
           p == [w EXCEPT !.paused = FALSE]
<1>0. WireInv(w) /\ PhaseInv(w) /\ DOMAIN w = Fields  BY DEF CtrlInv, WireInv
<1>1. SameControl(h, w) /\ SameControl(p, w)  BY <1>0 DEF SameControl, SameWire, Fields
<1>2. Wifi!Hold(w) = Wifi!Stop(h) /\ Wifi!Unhold(w) = Wifi!Reload(p)
  BY DEF Wifi!Hold, Wifi!Unhold
<1> HIDE DEF h, p
<1>3. CtrlInv(h) /\ CtrlInv(p)  BY <1>1, SameControlKeeps
<1>4. IsReset(Wifi!Stop(h)) /\ Wifi!Stop(h).st = h.st /\ Wifi!Stop(h).await = h.await
  BY <1>3, StopResets DEF CtrlInv, WireInv
<1>5. CtrlInv(Wifi!Stop(h))  BY <1>3, <1>4, ResetKeeps DEF CtrlInv, PhaseInv
<1> QED BY <1>2, <1>3, <1>5, ReloadKeeps

\* The worker's report.
LEMMA ReportKeeps ==
    ASSUME NEW w, CtrlInv(w), NEW o \in Outcomes
    PROVE  CtrlInv([w EXCEPT !.fdone = o])
<1> DEFINE u == [w EXCEPT !.fdone = o]
<1>1. DOMAIN w = Fields  BY DEF CtrlInv, WireInv
<1>2. /\ DOMAIN u = Fields /\ u.fdone = o /\ u.wire = w.wire /\ u.out = w.out /\ u.c3w = w.c3w
      /\ u.nvs = w.nvs /\ u.running = w.running /\ u.started = w.started /\ u.st = w.st /\ u.await = w.await
      /\ u.resp = w.resp /\ u.ok = w.ok
  BY <1>1 DEF Fields
<1> HIDE DEF u
<1>3. CtrlInv(u)
  BY <1>2 DEF CtrlInv, WireInv, PhaseInv, Outcomes, InWire, KeepsInRam, Fresh, Unanswered
<1> QED BY <1>3 DEF u

\* Trouble, and settings the invariant does not read.
LEMMA OtherKeeps ==
    ASSUME NEW w, CtrlInv(w), NEW x
    PROVE  /\ CtrlInv([w EXCEPT !.cfg = x]) /\ CtrlInv([w EXCEPT !.img = x]) /\ CtrlInv([w EXCEPT !.tried = x])
           /\ \A u \in Wifi!Trouble(w) : CtrlInv(u)
<1>1. DOMAIN w = Fields  BY DEF CtrlInv, WireInv
<1>2. SameControl([w EXCEPT !.cfg = x], w) /\ SameControl([w EXCEPT !.img = x], w)
      /\ SameControl([w EXCEPT !.tried = x], w)
  BY <1>1 DEF SameControl, SameWire, Fields
<1>3. \A u \in Wifi!Trouble(w) : SameControl(u, w)  BY <1>1, TroubleKeeps
<1> QED BY <1>2, <1>3, SameControlKeeps

\* The C3's own steps.
LEMMA C3StepsKeep ==
    ASSUME CtrlHolds, Wifi!C3Boots \/ Wifi!C3Joins \/ Wifi!C3Dropped \/ Wifi!C3Resets \/ Wifi!C3Hangs
    PROVE  CtrlHolds'
<1>0. CtrlInv(wc) /\ DOMAIN wc = Fields /\ wc.c3w \in C3Memory
  BY DEF CtrlHolds, CtrlInv, WireInv
<1>1. CASE Wifi!C3Boots
  <2>1. wc' = [Wifi!Event(wc, "boot") EXCEPT !.c3 = "run"]
    BY <1>1 DEF Wifi!C3Boots, Wifi!C3Step
  <2>2. /\ SameHost(wc', wc) /\ wc'.out = Append(wc.out, [kind |-> "boot", ok |-> TRUE, n |-> 0])
        /\ wc'.wire = wc.wire /\ wc'.nvs = wc.nvs /\ wc'.resp = wc.resp /\ wc'.ok = wc.ok /\ wc'.c3w = wc.c3w
    BY <1>0, <2>1 DEF Wifi!Event, SameHost, Fields
  <2>3. CtrlInv(wc')  BY <1>0, <2>2, EventKeeps
  <2> QED BY <2>3 DEF CtrlHolds
<1>2. CASE Wifi!C3Joins
  <2>1. wc' = [Wifi!Event(wc, "conn") EXCEPT !.c3w.assoc = "yes"]
    BY <1>2 DEF Wifi!C3Joins, Wifi!C3Step
  <2>2. PICK m : m = [wc.c3w EXCEPT !.assoc = "yes"]
    OBVIOUS
  <2>3. m \in C3Memory /\ m.inited = wc.c3w.inited /\ m.ram = wc.c3w.ram
    BY <1>0, <2>2 DEF C3Memory
  <2>4. /\ SameHost(wc', wc) /\ wc'.out = Append(wc.out, [kind |-> "conn", ok |-> TRUE, n |-> 0])
        /\ wc'.wire = wc.wire /\ wc'.nvs = wc.nvs /\ wc'.resp = wc.resp /\ wc'.ok = wc.ok /\ wc'.c3w = m
    BY <1>0, <2>1, <2>2 DEF Wifi!Event, SameHost, Fields
  <2>5. CtrlInv(wc')  BY <1>0, <2>3, <2>4, EventKeeps
  <2> QED BY <2>5 DEF CtrlHolds
<1>3. CASE Wifi!C3Dropped
  <2>1. PICK u \in Wifi!Trouble(wc) : wc' = [Wifi!Event(u, "disc") EXCEPT !.c3w.assoc = "no"]
    BY <1>3 DEF Wifi!C3Dropped, Wifi!C3Step
  <2>2. CtrlInv(u) /\ DOMAIN u = Fields /\ u.c3w \in C3Memory
    BY <1>0, OtherKeeps DEF CtrlInv, WireInv
  <2>3. PICK m : m = [u.c3w EXCEPT !.assoc = "no"]
    OBVIOUS
  <2>4. m \in C3Memory /\ m.inited = u.c3w.inited /\ m.ram = u.c3w.ram
    BY <2>2, <2>3 DEF C3Memory
  <2>5. /\ SameHost(wc', u) /\ wc'.out = Append(u.out, [kind |-> "disc", ok |-> TRUE, n |-> 0])
        /\ wc'.wire = u.wire /\ wc'.nvs = u.nvs /\ wc'.resp = u.resp /\ wc'.ok = u.ok /\ wc'.c3w = m
    BY <2>1, <2>2, <2>3 DEF Wifi!Event, SameHost, Fields
  <2>6. CtrlInv(wc')  BY <2>2, <2>4, <2>5, EventKeeps
  <2> QED BY <2>6 DEF CtrlHolds
<1>4. CASE Wifi!C3Resets
  BY <1>0, <1>4, OtherKeeps, HeldKeeps DEF Wifi!C3Resets, Wifi!C3Step, CtrlHolds
<1>5. CASE Wifi!C3Hangs
  <2>1. PICK u \in Wifi!Trouble(wc) : wc' = [u EXCEPT !.c3 = "dead", !.out = <<>>, !.c3w = Wifi!FreshC3]
    BY <1>5 DEF Wifi!C3Hangs, Wifi!C3Step
  <2>2. CtrlInv(u) /\ DOMAIN u = Fields  BY <1>0, OtherKeeps DEF CtrlInv, WireInv
  <2>3. SameHost(wc', u) /\ wc'.wire = u.wire /\ wc'.nvs = u.nvs /\ wc'.resp = u.resp
        /\ wc'.out = <<>> /\ wc'.c3w = Wifi!FreshC3
    BY <2>1, <2>2 DEF SameHost, Fields
  <2>4. CtrlInv(wc')  BY <2>2, <2>3, ForgetKeeps
  <2> QED BY <2>4 DEF CtrlHolds
<1> QED BY <1>1, <1>2, <1>3, <1>4, <1>5

\* The worker's and the console's steps.
LEMMA WorkerStepsKeep ==
    ASSUME CtrlHolds,
           \/ Wifi!TakeFlash \/ Wifi!RunDeferred \/ Wifi!FlashEnds \/ Wifi!WifiSet \/ Wifi!ConsoleFlash
           \/ Wifi!HoldC3 \/ Wifi!ReleaseC3 \/ Wifi!InstallImage
    PROVE  CtrlHolds'
<1>0. CtrlInv(wc) /\ DOMAIN wc = Fields  BY DEF CtrlHolds, CtrlInv, WireInv
<1>1. ASSUME NEW who, Wifi!FlashStarts(who) PROVE CtrlHolds'
  BY <1>0, <1>1, HeldKeeps, ReportKeeps DEF Wifi!FlashStarts, Outcomes, CtrlHolds
<1>2. CASE Wifi!TakeFlash
  <2>1. Wifi!FlashStarts("auto") \/ wc' \in Wifi!Trouble(wc) \/ wc' = wc
    BY <1>2 DEF Wifi!TakeFlash
  <2> QED BY <1>0, <1>1, <2>1, OtherKeeps DEF CtrlHolds
<1>3. CASE Wifi!RunDeferred
  BY <1>1, <1>3 DEF Wifi!RunDeferred
<1>4. CASE Wifi!FlashEnds
  <2>1. PICK ok \in BOOLEAN :
          LET written == [wc EXCEPT !.img = IF ok THEN "app" ELSE "none"]
              left == IF ok THEN Wifi!Released(written) ELSE Wifi!HeldInReset(written)
          IN  \E u \in IF ok \/ wc.c3 # "rom" THEN {left} ELSE Wifi!Trouble(left) :
                wc' = IF job = "auto" THEN [u EXCEPT !.fdone = IF ok THEN "ok" ELSE "failed"] ELSE Wifi!Unhold(u)
    BY <1>4 DEF Wifi!FlashEnds
  <2> DEFINE written == [wc EXCEPT !.img = IF ok THEN "app" ELSE "none"]
             left == IF ok THEN Wifi!Released(written) ELSE Wifi!HeldInReset(written)
  <2>2. PICK u \in {left} \cup Wifi!Trouble(left) :
          wc' = IF job = "auto" THEN [u EXCEPT !.fdone = IF ok THEN "ok" ELSE "failed"] ELSE Wifi!Unhold(u)
    BY <2>1
  <2>3. CtrlInv(written)  BY <1>0, OtherKeeps
  <2> HIDE DEF written
  <2>4. CtrlInv(left)  BY <2>3, HeldKeeps
  <2> HIDE DEF left
  <2>5. CtrlInv(u)  BY <2>4, OtherKeeps
  <2>6. CtrlInv([u EXCEPT !.fdone = IF ok THEN "ok" ELSE "failed"])
    <3>1. PICK o \in Outcomes : o = IF ok THEN "ok" ELSE "failed"
      BY DEF Outcomes
    <3> QED BY <2>5, <3>1, ReportKeeps
  <2> QED BY <2>2, <2>5, <2>6, HoldKeeps DEF CtrlHolds
<1>5. CASE Wifi!WifiSet
  BY <1>0, <1>5, ReloadKeeps, OtherKeeps DEF Wifi!WifiSet, CtrlHolds
<1>6. CASE Wifi!ConsoleFlash
  BY <1>0, <1>6, HoldKeeps, HeldKeeps DEF Wifi!ConsoleFlash, CtrlHolds
<1>7. CASE Wifi!HoldC3
  <2>1. wc' = [Wifi!Hold(wc) EXCEPT !.c3 = "rom"]  BY <1>7 DEF Wifi!HoldC3
  <2>2. CtrlInv(Wifi!Hold(wc)) /\ DOMAIN Wifi!Hold(wc) = Fields
    BY <1>0, HoldKeeps DEF CtrlInv, WireInv
  <2>3. SameControl(wc', Wifi!Hold(wc))  BY <2>1, <2>2 DEF SameControl, SameWire, Fields
  <2> QED BY <2>2, <2>3, SameControlKeeps DEF CtrlHolds
<1>8. CASE Wifi!ReleaseC3
  <2>1. PICK wiped \in BOOLEAN : wc' = [Wifi!HeldInReset(Wifi!Unhold(wc)) EXCEPT !.nvs = @ /\ ~wiped]
    BY <1>8 DEF Wifi!ReleaseC3
  <2> DEFINE h == Wifi!HeldInReset(Wifi!Unhold(wc))
  <2>2. CtrlInv(h)  BY <1>0, HoldKeeps, HeldKeeps
  <2> HIDE DEF h
  <2>3. wc' = [h EXCEPT !.nvs = @ /\ ~wiped] /\ h.nvs = FALSE /\ DOMAIN h = Fields
    BY <2>1, <2>2 DEF h, CtrlInv, WireInv
  <2>4. SameControl(wc', h)  BY <2>3 DEF SameControl, SameWire, Fields
  <2> QED BY <2>2, <2>4, SameControlKeeps DEF CtrlHolds
<1>9. CASE Wifi!InstallImage
  BY <1>0, <1>9, OtherKeeps DEF Wifi!InstallImage, CtrlHolds
<1> QED BY <1>2, <1>3, <1>4, <1>5, <1>6, <1>7, <1>8, <1>9

\* Every step of the net task, of the C3 and of the worker.
LEMMA CtrlStep == Wifi!ConstantsOK /\ CtrlHolds /\ [Wifi!Next]_wifiVars => CtrlHolds'
<1> SUFFICES ASSUME Wifi!ConstantsOK, CtrlHolds, [Wifi!Next]_wifiVars PROVE CtrlHolds'
  OBVIOUS
<1>0. CtrlInv(wc)  BY DEF CtrlHolds
<1>1. CASE Wifi!Poll
  <2>1. PICK u \in Wifi!ScanIntake(wc) : wc' \in Wifi!PollRest(u)
    BY <1>1 DEF Wifi!Poll
  <2>2. CtrlInv(u)  BY <1>0, ScanIntakeKeeps
  <2> QED BY <2>1, <2>2, PollRestKeeps DEF CtrlHolds
<1>2. CASE Wifi!Exchange
  <2> DEFINE u == IF wc.out = <<>> THEN wc ELSE Wifi!OnFrame([wc EXCEPT !.out = Tail(@)], Head(wc.out))
  <2>1. wc' \in IF wc.wire = <<>> THEN {u} ELSE Wifi!C3Serves([u EXCEPT !.wire = Tail(@)], Head(wc.wire))
    BY <1>2 DEF Wifi!Exchange
  <2>2. CtrlInv(u)  BY <1>0, OnFrameKeeps
  <2>3. u.wire = wc.wire  BY <1>0 DEF CtrlInv, WireInv, Wifi!OnFrame, Fields
  <2> HIDE DEF u
  <2>4. CASE wc.wire = <<>>
    BY <2>1, <2>2, <2>4 DEF CtrlHolds
  <2>5. CASE wc.wire # <<>>
    BY <2>1, <2>2, <2>3, <2>5, C3ServesKeeps DEF CtrlHolds
  <2> QED BY <2>4, <2>5
<1>3. CASE UNCHANGED wc
  BY <1>3 DEF CtrlHolds
<1>4. CASE Wifi!ScanRequest \/ UNCHANGED wifiVars
  BY <1>3, <1>4 DEF Wifi!ScanRequest, wifiVars
<1> QED BY <1>1, <1>2, <1>4, C3StepsKeep, WorkerStepsKeep DEF Wifi!Next

\* A C3 in reset has heard nothing.
LEMMA CtrlInit == Wifi!Init => CtrlHolds
<1> SUFFICES ASSUME Wifi!Init PROVE CtrlHolds
  OBVIOUS
<1>1. IsReset(wc) /\ wc.st = "down"  BY DEF Wifi!Init, IsReset, Fields, Outcomes
<1> QED BY <1>1, ResetKeeps DEF CtrlHolds, Wifi!States

\* esp_wifi_ctrl.c: no credentials reach the coprocessor's flash.
THEOREM CredentialsSafe == MCSpec => []Wifi!CredsInRam
<1>1. MCInit => CtrlHolds  BY CtrlInit DEF MCInit
<1>2. [MCNext]_mcVars => [Wifi!Next]_wifiVars  BY DEF MCNext, Rest, mcVars
<1>3. CtrlHolds /\ [Wifi!Next]_wifiVars => CtrlHolds'  BY CtrlStep, Assumptions DEF wifiVars
<1>4. CtrlHolds => Wifi!CredsInRam  BY DEF CtrlHolds, CtrlInv, WireInv, Wifi!CredsInRam
<1> QED BY <1>1, <1>2, <1>3, <1>4, PTL DEF MCSpec

\* All the parts' promises at once.
THEOREM NetIsSound == MCSpec => []NetSound
<1>1. (/\ Reload!NeverLost /\ Eth!RxSound /\ Wifi!CredsInRam
       /\ Pairing!NoReplay /\ Pairing!DoneIsDone /\ Station!OnAirAsPod) => NetSound
  BY DEF NetSound
<1> QED BY <1>1, ReloadsNeverLost, ReceiverSound, CredentialsSafe, PairingSound, StationAsPod, PTL

================================================================================
