------------------------------ MODULE CloudTraffic -----------------------------
(***************************************************************************)
(* What goes over the pod's cloud link once it is connected (cloud_client.c *)
(* and the cloud part of hw_worker.c): commands and their replies through   *)
(* the worker's single reply slot, the frames of a tunnel, and the lack of  *)
(* room on the way: the accumulator s_rx, the worker's queue, TCP's send    *)
(* buffer.  The net task preempts the worker and not the other way round.   *)
(***************************************************************************)
EXTENDS Naturals, Sequences

CONSTANTS
    Reqs,        \* the requests the server may issue, each once
    RxCap,       \* frames that fit in s_rx
    QDepth,      \* HW_WORK_QUEUE_DEPTH
    MaxChunks,   \* chunks of data the server sends over a tunnel
    MaxTunnels,  \* tunnels it opens
    MaxDrops,    \* times the link is lost
    NoReq

ConstantsOK ==
    /\ NoReq \notin Reqs /\ RxCap \in Nat \ {0} /\ QDepth \in Nat \ {0}
    /\ MaxChunks \in Nat /\ MaxTunnels \in Nat /\ MaxDrops \in Nat

VARIABLES
    unsent,                  \* requests the server has not issued on this link yet
    opened, chunk, tunnels,  \* the server's tunnel: is it open, the chunks sent; tunnels so far
    tls, s_rx_refused,       \* frames the TLS layer keeps; is it waiting to be asked again
    s_acc,                   \* the frames in s_rx
    s_tunnel,                \* the pod's tunnel slot is bound
    work, s_parked, w,       \* the worker's queue, a reset that did not fit, the item it runs
    s_cloud_pending, s_cloud_ready, s_cloud_req_id, s_cloud_reply,
    s_pend,                  \* the response that met a full buffer
    full,                    \* TCP's send buffer is full
    expected, gap,           \* the chunk the worker's stream expects, and whether one was missed
    answers, replaced,       \* responses the server got; responses given up for a newer one
    drops

inVars == <<unsent, opened, chunk, tunnels>>
rxVars == <<tls, s_rx_refused, s_acc>>
workVars == <<work, s_parked, w, expected, gap>>
slotVars == <<s_cloud_pending, s_cloud_ready, s_cloud_req_id, s_cloud_reply>>
outVars == <<s_pend, answers, replaced>>
trVars == <<inVars, rxVars, s_tunnel, workVars, slotVars, outVars, full, drops>>

Cmd(r, big) == [k |-> "cmd", r |-> r, n |-> 0, bad |-> big]
Chunk(n, bad) == [k |-> "data", r |-> NoReq, n |-> n, bad |-> bad]
Control(kind) == [k |-> kind, r |-> NoReq, n |-> 0, bad |-> FALSE]
Reset == Control("reset")

Init ==
    /\ unsent = Reqs /\ opened = FALSE /\ chunk = 0 /\ tunnels = 0
    /\ tls = <<>> /\ s_rx_refused = FALSE /\ s_acc = <<>>
    /\ s_tunnel = FALSE
    /\ work = <<>> /\ s_parked = FALSE /\ w = Control("idle")
    /\ expected = 1 /\ gap = FALSE
    /\ s_cloud_pending = FALSE /\ s_cloud_ready = FALSE
    /\ s_cloud_req_id = NoReq /\ s_cloud_reply = NoReq
    /\ s_pend = NoReq /\ answers = [r \in Reqs |-> 0] /\ replaced = {}
    /\ full = FALSE /\ drops = 0

\* cl_recv_cb over cloud_rx_append and cloud_rx_refuse: a frame that does not fit stays with TLS.
Receive(frame) ==
    IF Len(s_acc) < RxCap /\ tls = <<>>
    THEN s_acc' = Append(s_acc, frame) /\ UNCHANGED <<tls, s_rx_refused>>
    ELSE tls' = Append(tls, frame) /\ s_rx_refused' = TRUE /\ UNCHANGED s_acc

\* The server's side: a command (which may be too large), a tunnel opened or closed, tunnel data
\* (which may be garbled or too large).  It is bounded so that TLS keeps one frame at most.
ServerSends ==
    /\ tls = <<>>
    /\ \/ \E r \in unsent, big \in BOOLEAN :
            Receive(Cmd(r, big)) /\ unsent' = unsent \ {r} /\ UNCHANGED <<opened, chunk, tunnels>>
       \/ /\ ~opened /\ tunnels < MaxTunnels /\ Receive(Control("open"))
          /\ opened' = TRUE /\ chunk' = 0 /\ tunnels' = tunnels + 1 /\ UNCHANGED unsent
       \/ opened /\ Receive(Control("close")) /\ opened' = FALSE /\ UNCHANGED <<unsent, chunk, tunnels>>
       \/ \E bad \in BOOLEAN :
            /\ opened /\ chunk < MaxChunks
            /\ Receive(Chunk(chunk + 1, bad)) /\ chunk' = chunk + 1 /\ UNCHANGED <<unsent, opened, tunnels>>
    /\ UNCHANGED <<s_tunnel, workVars, slotVars, outVars, full, drops>>

\* As if what TLS keeps were never asked for.
KickNever == FALSE /\ UNCHANGED trVars

\* CL_CONNECTED: there is room again for what was refused (altcp_tls_bp_kick).
Kick ==
    /\ s_rx_refused /\ 2 * Len(s_acc) < RxCap
    /\ s_rx_refused' = FALSE
    /\ s_acc' = s_acc \o tls /\ tls' = <<>>
    /\ UNCHANGED <<inVars, s_tunnel, workVars, slotVars, outVars, full, drops>>
--------------------------------------------------------------------------------
\* cl_send_reply_frame: a full buffer keeps the response for the poll; a newer response replaces
\* one that still waits, whether it is sent or waits itself.
Respond(r) ==
    /\ IF full THEN s_pend' = r /\ UNCHANGED answers
               ELSE s_pend' = NoReq /\ answers' = [answers EXCEPT ![r] = @ + 1]
    /\ replaced' = replaced \cup ({s_pend} \ {NoReq, r})

Consume == s_acc' = Tail(s_acc) /\ UNCHANGED <<tls, s_rx_refused>>
Submit(item) == Len(work) < QDepth /\ work' = Append(work, item)

\* hw_worker_submit_tunnel_reset: parked when the queue is full, or behind one that is.
SubmitReset ==
    IF ~s_parked /\ Len(work) < QDepth
    THEN work' = Append(work, Reset) /\ UNCHANGED s_parked
    ELSE s_parked' = TRUE /\ UNCHANGED work

\* As if a second command were taken while the reply to the first is on its way.
TakesAnother == TRUE

\* hw_worker_submit_cloud: one command at a time.
OneAtATime == ~s_cloud_pending /\ ~s_cloud_ready

\* cl_handle_command_request: to the worker, or answered at once: too large, or the device is busy.
HandleCommand(f) ==
    /\ f.k = "cmd" /\ Consume
    /\ \/ /\ ~f.bad /\ OneAtATime /\ Submit(f)
          /\ s_cloud_pending' = TRUE
          /\ UNCHANGED <<s_cloud_ready, s_cloud_req_id, s_cloud_reply, outVars>>
       \/ /\ f.bad \/ ~OneAtATime \/ Len(work) >= QDepth
          /\ Respond(f.r) /\ UNCHANGED <<work, slotVars>>
    /\ UNCHANGED <<s_tunnel, s_parked>>

\* cl_handle_tunnel_open, cl_handle_tunnel_close: the virtual connection starts, or ends, fresh.
HandleTunnel(f) ==
    /\ f.k \in {"open", "close"} /\ Consume
    /\ IF f.k = "open" \/ s_tunnel THEN SubmitReset ELSE UNCHANGED <<work, s_parked>>
    /\ s_tunnel' = (f.k = "open")
    /\ UNCHANGED <<slotVars, outVars>>

\* As if a frame that cannot be decoded were dropped and the tunnel went on.
TunnelGoesOn == UNCHANGED <<s_tunnel, work, s_parked>>

\* cl_tunnel_fail: the byte stream can no longer be trusted.
TunnelFail == s_tunnel' = FALSE /\ SubmitReset

\* cl_handle_tunnel_data: dropped without a tunnel; a frame that cannot be decoded (or is too
\* large, cl_handle_text_frame) ends the tunnel; with no room for it, or a reset parked, the frame
\* stays where it is and is tried again.
HandleData(f) ==
    /\ f.k = "data" /\ Consume
    /\ \/ ~s_tunnel /\ UNCHANGED <<s_tunnel, work, s_parked>>
       \/ s_tunnel /\ f.bad /\ TunnelFail
       \/ s_tunnel /\ ~f.bad /\ ~s_parked /\ Submit(f) /\ UNCHANGED <<s_tunnel, s_parked>>
    /\ UNCHANGED <<slotVars, outVars>>

\* cl_process_ws_frames: the frames in their order, one at a time.
ProcessFrame ==
    /\ s_acc # <<>>
    /\ LET f == Head(s_acc) IN HandleCommand(f) \/ HandleTunnel(f) \/ HandleData(f)
    /\ UNCHANGED <<inVars, w, expected, gap, full, drops>>

\* net_frame_cloud_reply over hw_worker_take_cloud_reply and cloud_client_send_command_response.
FrameReply ==
    /\ s_cloud_ready
    /\ Respond(s_cloud_req_id)
    /\ s_cloud_ready' = FALSE /\ s_cloud_pending' = FALSE
    /\ UNCHANGED <<s_cloud_req_id, s_cloud_reply, inVars, rxVars, s_tunnel, workVars, full, drops>>

\* CL_CONNECTED: the response that met a full buffer.
Resend ==
    /\ s_pend # NoReq /\ ~full
    /\ s_pend' = NoReq /\ answers' = [answers EXCEPT ![s_pend] = @ + 1]
    /\ UNCHANGED <<replaced, inVars, rxVars, s_tunnel, workVars, slotVars, full, drops>>

\* TCP fills and drains.
Buffer == full' = ~full /\ UNCHANGED <<inVars, rxVars, s_tunnel, workVars, slotVars, outVars, drops>>

\* cl_backoff over cl_drop_link: what was received or kept is gone, the tunnel ends, and requests
\* of the old link are nobody's any more; the worker goes on with what it has.  Replies that
\* become ready before the next connection are dropped (cloud_client_send_command_response).
LinkLost ==
    /\ drops < MaxDrops /\ drops' = drops + 1
    /\ tls' = <<>> /\ s_acc' = <<>> /\ s_rx_refused' = FALSE
    /\ s_tunnel' = FALSE /\ opened' = FALSE
    /\ IF s_tunnel THEN SubmitReset ELSE UNCHANGED <<work, s_parked>>
    /\ s_pend' = NoReq /\ full' = FALSE
    /\ IF s_cloud_ready THEN s_cloud_ready' = FALSE /\ s_cloud_pending' = FALSE
                        ELSE UNCHANGED <<s_cloud_ready, s_cloud_pending>>
    /\ replaced' = replaced \cup {r \in Reqs \ unsent : answers[r] = 0}
    /\ UNCHANGED <<unsent, chunk, tunnels, w, expected, gap, s_cloud_req_id, s_cloud_reply, answers>>
--------------------------------------------------------------------------------
\* The worker takes an item: a command runs; a chunk goes into the stream; a reset starts it over.
WorkerTakes ==
    /\ w.k = "idle" /\ work # <<>>
    /\ work' = Tail(work)
    /\ LET i == Head(work) IN
         CASE i.k = "cmd"   -> w' = i /\ UNCHANGED <<expected, gap>>
           [] i.k = "data"  -> /\ gap' = (gap \/ i.n # expected)
                               /\ expected' = i.n + 1 /\ UNCHANGED w
           [] i.k = "reset" -> expected' = 1 /\ UNCHANGED <<gap, w>>
    /\ UNCHANGED <<inVars, rxVars, s_tunnel, s_parked, slotVars, outVars, full, drops>>

\* apply_parked_teardowns, with the queue empty.
WorkerUnparks ==
    /\ w.k = "idle" /\ work = <<>> /\ s_parked
    /\ s_parked' = FALSE /\ expected' = 1
    /\ UNCHANGED <<inVars, rxVars, s_tunnel, work, w, gap, slotVars, outVars, full, drops>>

\* As if the reply were announced before it is written.
WorkerRepliesEarly ==
    /\ w.k = "cmd"
    /\ \/ ~s_cloud_ready /\ s_cloud_reply # w.r /\ s_cloud_ready' = TRUE
          /\ s_cloud_req_id' = w.r /\ UNCHANGED <<s_cloud_reply, w>>
       \/ s_cloud_req_id = w.r /\ s_cloud_reply # w.r
          /\ s_cloud_reply' = w.r /\ w' = Control("idle")
          /\ UNCHANGED <<s_cloud_ready, s_cloud_req_id>>
    /\ UNCHANGED <<s_cloud_pending, inVars, rxVars, s_tunnel, work, s_parked, expected, gap, outVars, full, drops>>

\* WK_CLOUD: the reply and its request are written before they are announced.
WorkerReplies ==
    /\ w.k = "cmd"
    /\ \/ s_cloud_reply # w.r /\ s_cloud_reply' = w.r /\ UNCHANGED <<s_cloud_req_id, s_cloud_ready, w>>
       \/ s_cloud_reply = w.r /\ s_cloud_req_id # w.r
          /\ s_cloud_req_id' = w.r /\ UNCHANGED <<s_cloud_reply, s_cloud_ready, w>>
       \/ s_cloud_reply = w.r /\ s_cloud_req_id = w.r
          /\ s_cloud_ready' = TRUE /\ w' = Control("idle")
          /\ UNCHANGED <<s_cloud_reply, s_cloud_req_id>>
    /\ UNCHANGED <<s_cloud_pending, inVars, rxVars, s_tunnel, work, s_parked, expected, gap, outVars, full, drops>>

Net == Kick \/ ProcessFrame \/ FrameReply \/ Resend
Worker == WorkerTakes \/ WorkerUnparks \/ WorkerReplies
Next == ServerSends \/ Net \/ Buffer \/ LinkLost \/ Worker

\* Net task and worker run; TCP's buffer drains again and again.
Fairness ==
    /\ WF_trVars(Kick) /\ WF_trVars(ProcessFrame) /\ WF_trVars(FrameReply) /\ SF_trVars(Resend)
    /\ WF_trVars(WorkerTakes) /\ WF_trVars(WorkerUnparks) /\ WF_trVars(WorkerReplies)
    /\ WF_trVars(full /\ Buffer)

Spec == Init /\ [][Next]_trVars /\ Fairness
--------------------------------------------------------------------------------
\* The types of the traffic's state.
TypeOK ==
    /\ unsent \subseteq Reqs /\ opened \in BOOLEAN /\ chunk \in 0..MaxChunks
    /\ Len(s_acc) <= RxCap /\ Len(tls) <= 1 /\ Len(work) <= QDepth
    /\ s_cloud_req_id \in Reqs \cup {NoReq} /\ s_cloud_reply \in Reqs \cup {NoReq}
    /\ s_pend \in Reqs \cup {NoReq} /\ replaced \subseteq Reqs
    /\ expected \in 1..MaxChunks + 1 /\ tunnels \in 0..MaxTunnels /\ drops \in 0..MaxDrops

\* cloud_client.c: a raw stream (load_bin, spi_stream) cannot skip a frame: within a tunnel the
\* worker gets every chunk in its order, or the tunnel was ended.
NoGap == ~gap

Pending(seq) == {seq[i].r : i \in DOMAIN seq} \ {NoReq}
OnTheWay == Pending(tls) \cup Pending(s_acc) \cup Pending(work) \cup ({w.r, s_pend} \ {NoReq})
            \cup (IF s_cloud_ready THEN {s_cloud_req_id} ELSE {})

\* hw_worker.c: the slot of the worker's reply holds one at a time.  A request the server issued
\* on this link is answered, or still on its way; it is answered once; and what is announced in
\* the slot is the reply to that request.
Accounted ==
    /\ \A r \in Reqs \ (unsent \cup replaced) :
         IF r \in OnTheWay THEN answers[r] = 0 ELSE answers[r] = 1
    /\ s_cloud_ready => s_cloud_reply = s_cloud_req_id

\* cloud_client.c: backpressure ends: frames TLS keeps because there was no room are read.
RefusedIsRead == []<>(tls = <<>>)
================================================================================
