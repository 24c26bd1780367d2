------------------------------ MODULE PowerProfile ------------------------------
(***************************************************************************)
(* power_profile.c and command_handler_power.c: the current profile of a     *)
(* rail.  The sampler and the reply run in the hardware worker's passes, the *)
(* commands in between, several in one batch.  A sample is its weight: how   *)
(* many readings a kept value stands for.                                    *)
(***************************************************************************)
EXTENDS Naturals, Sequences

CONSTANTS Conns, Cloud, NoConn,     \* stream connections, the cloud's command channel
          Keeps,                    \* the numbers of samples a profile may ask to keep
          FrameSamples,             \* PP_FRAME_SAMPLES
          MaxErrors,                \* PP_MAX_I2C_ERRORS
          MaxReadings, MaxProfiles, MaxLeaves

ConstantsOK ==
    /\ Cloud \notin Conns /\ NoConn \notin Conns \cup {Cloud} /\ Keeps \subseteq Nat
    /\ {FrameSamples, MaxErrors, MaxReadings} \subseteq Nat \ {0} /\ {MaxProfiles, MaxLeaves} \subseteq Nat

VARIABLES
    ps,             \* any, running, no (which profile), n (readings), i2c_errors
    dec,            \* pp_decim_t: cap, bin, the weights kept, acc_n
    s_reply,        \* active, conn_id, next
    s_oneshot,      \* pending, conn_id; ghost: the profile it asked for
    client,         \* by connection: up, then what its current reply brought
    profiles, leaves

ppVars == <<ps, dec, s_reply, s_oneshot, client, profiles, leaves>>

BinMax == MaxReadings + 1           \* UINT32_MAX: a bin that never fills
NoReply == [prof |-> 0, count |-> 0, torn |-> FALSE, end |-> FALSE]
Fresh == [up |-> TRUE, room |-> TRUE, got |-> NoReply]

TypeOK ==
    /\ ps \in [any : BOOLEAN, running : BOOLEAN, no : 0 .. MaxProfiles, n : 0 .. MaxReadings, errs : 0 .. MaxErrors]
    /\ dec \in [cap : Nat, bin : 1 .. 2 * BinMax, kept : Seq(1 .. MaxReadings), acc : 0 .. MaxReadings]
    /\ s_reply \in [active : BOOLEAN, conn : Conns \cup {Cloud, NoConn}, next : Nat]
    /\ s_oneshot \in [pending : BOOLEAN, conn : Conns \cup {NoConn}, of : 0 .. MaxProfiles]
    /\ profiles \in 0 .. MaxProfiles /\ leaves \in 0 .. MaxLeaves
    /\ \A c \in Conns \cup {Cloud} : {client[c].up, client[c].room} \subseteq BOOLEAN

Empty == [cap |-> 0, bin |-> 1, kept |-> <<>>, acc |-> 0]
Quiet == [active |-> FALSE, conn |-> NoConn, next |-> 0]
NoOneshot == [pending |-> FALSE, conn |-> NoConn, of |-> 0]

Init ==
    /\ ps = [any |-> FALSE, running |-> FALSE, no |-> 0, n |-> 0, errs |-> 0] /\ dec = Empty
    /\ s_reply = Quiet /\ s_oneshot = NoOneshot /\ client = [c \in Conns \cup {Cloud} |-> Fresh]
    /\ profiles = 0 /\ leaves = 0

\* pp_decim_init: an even capacity; one sample is the average of the whole profile.
DecimInit(keep) == [cap |-> IF keep >= 2 THEN keep - (keep % 2) ELSE keep, bin |-> IF keep = 1 THEN BinMax ELSE 1,
                    kept |-> <<>>, acc |-> 0]

\* decim_push, decim_merge: pairs become one value each, a bin twice as large.
Push(d) == [d EXCEPT !.kept = Append(@, d.acc), !.acc = 0]
Merge(d) == [d EXCEPT !.kept = [i \in 1 .. Len(@) \div 2 |-> @[2 * i - 1] + @[2 * i]], !.bin = 2 * @]

\* As if the bin under way were stored with the halved ones.
AddThenPush(d) ==
    LET e == [d EXCEPT !.acc = @ + 1]
    IN  IF d.cap = 0 THEN d ELSE IF e.acc < e.bin THEN e ELSE IF Len(e.kept) = e.cap THEN Push(Merge(e)) ELSE Push(e)

\* pp_decim_add: a full store is halved and the bin under way grows to the new size.
Add(d) ==
    LET e == [d EXCEPT !.acc = @ + 1]
    IN  IF d.cap = 0 THEN d ELSE IF e.acc < e.bin THEN e ELSE IF Len(e.kept) = e.cap THEN Merge(e) ELSE Push(e)

\* pp_decim_finish.
DecimFinish(d) ==
    IF d.cap = 0 \/ d.acc = 0 THEN d ELSE Push(IF Len(d.kept) = d.cap THEN Merge(d) ELSE d)

HasResult == ps.any /\ ~ps.running
Kept == IF HasResult THEN Len(dec.kept) ELSE 0

\* finish, power_profile_stop, power_profile_discard.
Finish == ps' = [ps EXCEPT !.running = FALSE] /\ dec' = DecimFinish(dec)
Stop == IF ps.running THEN Finish ELSE UNCHANGED <<ps, dec>>
Discard == ps' = [ps EXCEPT !.any = FALSE] /\ dec' = Empty

\* reply_begin: the first pump follows in the same pass or finds no room.
ReplyBegin(c) ==
    /\ s_reply' = [active |-> TRUE, conn |-> c, next |-> 0]
    /\ client' = [client EXCEPT ![c].got = [NoReply EXCEPT !.prof = ps.no]]

\* command_handler_poll goes on to power_profile_service: a one-shot is answered in the pass that ends its sampler.
Answer ==
    IF s_oneshot.pending /\ ~s_reply.active
    THEN s_oneshot' = [s_oneshot EXCEPT !.pending = FALSE] /\ ReplyBegin(s_oneshot.conn)
    ELSE UNCHANGED <<s_oneshot, s_reply, client>>

\* power_profile_poll: the time is over, or one reading, or a failed one.
Poll(what) ==
    /\ ps.running /\ UNCHANGED <<profiles, leaves>>
    /\ \/ what = "over" /\ Finish /\ Answer
       \/ /\ what = "reading" /\ ps.n < MaxReadings /\ UNCHANGED <<s_reply, s_oneshot, client>>
          /\ ps' = [ps EXCEPT !.n = @ + 1, !.errs = 0] /\ dec' = Add(dec)
       \/ /\ what = "error"
          /\ IF ps.errs + 1 >= MaxErrors
             THEN ps' = [ps EXCEPT !.running = FALSE, !.errs = @ + 1] /\ dec' = DecimFinish(dec) /\ Answer
             ELSE ps' = [ps EXCEPT !.errs = @ + 1] /\ UNCHANGED <<dec, s_reply, s_oneshot, client>>

\* As if a client that left had read the result.
GivesUpDiscards == s_reply' = Quiet /\ Discard

\* The reply ends incomplete: the connection is dropped, the result stays.
GivesUp == s_reply' = Quiet /\ UNCHANGED <<ps, dec>>

\* One frame: a run of samples, with the last ones the end; a result that went away meanwhile would show as torn.
Frame(c, k) ==
    LET last == s_reply.next + k >= Kept
    IN  /\ client' = [client EXCEPT ![c].got.count = @ + k, ![c].got.end = last,
                                    ![c].got.torn = @ \/ ~HasResult \/ client[c].got.prof # ps.no]
        /\ IF last THEN s_reply' = Quiet /\ Discard
           ELSE s_reply' = [s_reply EXCEPT !.next = @ + k] /\ UNCHANGED <<ps, dec>>

\* As if a client that stopped reading were waited for.
StallsNever == FALSE

\* PP_REPLY_STALL_MS without room.
Stalls == TRUE

\* reply_pump, one frame a step: no more than fits, a client that left, a client that stopped reading.
ReplyPump ==
    /\ s_reply.active /\ UNCHANGED <<s_oneshot, profiles, leaves>>
    /\ LET c == s_reply.conn IN
       \/ /\ client[c].up /\ client[c].room
          /\ LET left == Kept - s_reply.next
             IN  \E k \in IF left = 0 THEN {0} ELSE 1 .. (IF left > FrameSamples THEN FrameSamples ELSE left) :
                    Frame(c, k)
       \/ client[c].up /\ ~client[c].room /\ Stalls /\ GivesUp /\ client' = [client EXCEPT ![c].up = FALSE]
       \/ ~client[c].up /\ GivesUp /\ UNCHANGED client

\* power_profile_service: the answer of a one-shot whose profile a refused stop ended.
ServiceOneshot ==
    /\ s_oneshot.pending /\ HasResult /\ ~s_reply.active
    /\ s_oneshot' = [s_oneshot EXCEPT !.pending = FALSE] /\ ReplyBegin(s_oneshot.conn)
    /\ UNCHANGED <<ps, dec, profiles, leaves>>

\* handle_power_profile, stop.  The cloud's channel cannot carry samples: refused, after the profile was stopped.
CmdStop(c) ==
    /\ ~s_reply.active /\ (ps.running \/ HasResult) /\ client[c].up
    /\ Stop
    /\ IF c = Cloud /\ Len(dec'.kept) > 0
       THEN UNCHANGED <<s_reply, s_oneshot, client>>
       ELSE s_oneshot' = [s_oneshot EXCEPT !.pending = FALSE] /\ ReplyBegin(c)
    /\ UNCHANGED <<profiles, leaves>>

\* As if a start did not look at a reply under way.
MayStartAnyway == TRUE

\* A result still being sent is not replaced.
MayStart == ~s_reply.active

\* power_profile_start: no memory, no answer on the bus.  The previous result goes before the monitor is asked.
StartSampler(no, keep, ok) ==
    IF ok THEN ps' = [any |-> TRUE, running |-> TRUE, no |-> no, n |-> 0, errs |-> 0] /\ dec' = DecimInit(keep)
    ELSE Discard

\* handle_power_profile, start and one-shot.
CmdStart(c, keep, oneshot) ==
    /\ MayStart /\ ~ps.running /\ client[c].up /\ (c = Cloud => ~oneshot) /\ profiles < MaxProfiles
    /\ profiles' = profiles + 1
    /\ \E ok \in BOOLEAN :
          /\ StartSampler(profiles', keep, ok)
          /\ s_oneshot' = IF ok /\ oneshot THEN [pending |-> TRUE, conn |-> c, of |-> profiles'] ELSE s_oneshot
    /\ UNCHANGED <<s_reply, client, leaves>>

\* power_profile_conn_closed: a one-shot nobody waits for stops; then the connection is another client's.
ConnClosed(c) ==
    /\ c \in Conns /\ ~client[c].up
    /\ s_reply' = IF s_reply.active /\ s_reply.conn = c THEN Quiet ELSE s_reply
    /\ IF s_oneshot.pending /\ s_oneshot.conn = c
       THEN s_oneshot' = [s_oneshot EXCEPT !.pending = FALSE] /\ Stop
       ELSE UNCHANGED <<s_oneshot, ps, dec>>
    /\ client' = [client EXCEPT ![c] = Fresh] /\ UNCHANGED <<profiles, leaves>>

\* The client: leaves, stops reading, reads again.
Leaves(c) == /\ client[c].up /\ leaves < MaxLeaves /\ leaves' = leaves + 1 /\ c \in Conns
             /\ client' = [client EXCEPT ![c].up = FALSE] /\ UNCHANGED <<ps, dec, s_reply, s_oneshot, profiles>>
StopsReading(c) == /\ client[c].up /\ client[c].room /\ leaves < MaxLeaves /\ leaves' = leaves + 1 /\ c \in Conns
                   /\ client' = [client EXCEPT ![c].room = FALSE]
                   /\ UNCHANGED <<ps, dec, s_reply, s_oneshot, profiles>>

Next ==
    \/ \E what \in {"over", "reading", "error"} : Poll(what)
    \/ ServiceOneshot \/ ReplyPump
    \/ \E c \in Conns \cup {Cloud} :
          \/ CmdStop(c) \/ ConnClosed(c) \/ Leaves(c) \/ StopsReading(c)
          \/ \E keep \in Keeps, oneshot \in BOOLEAN : CmdStart(c, keep, oneshot)

Fairness == WF_ppVars(Poll("over")) /\ WF_ppVars(ServiceOneshot) /\ WF_ppVars(ReplyPump)
            /\ \A c \in Conns : WF_ppVars(ConnClosed(c))
Spec == Init /\ [][Next]_ppVars /\ Fairness
--------------------------------------------------------------------------------
(* Properties. *)

\* However often the store was halved, the kept values weigh the same, but for the last one of a stopped profile, they
\* stand for every reading taken, and no more of them are kept than asked for.
BinsEven ==
    LET kept == dec.kept
        last == Len(kept)
    IN  ps.any /\ dec.cap > 0 =>
            /\ last <= dec.cap /\ \A i \in 1 .. last : kept[i] = dec.bin \/ (~ps.running /\ i = last /\ kept[i] <= dec.bin)
            /\ ps.n = dec.acc + (IF last = 0 THEN 0 ELSE dec.bin * (last - 1) + kept[last])

\* A reply that came to its end brought one profile's result, all of it.
ReplyWhole == \A c \in Conns \cup {Cloud} : ~client[c].got.torn

\* A result is kept until a client has read it to its end or another profile is started: not lost with the connection
\* that was reading it.
ResultGoes ==
    ps.any /\ ~ps.any' =>
        profiles' # profiles \/ \E c \in Conns \cup {Cloud} : client'[c].got.end /\ client'[c].got.prof = ps.no
KeptUntilRead == [][ResultGoes]_ppVars

\* A reply ends, also when its client neither reads nor leaves; a one-shot is answered or its
\* connection closed, unless another profile took its place (OneshotOwn).
OneshotOver == ~s_oneshot.pending \/ ~ps.any \/ ps.no # s_oneshot.of
ProfileEnds == []<>(~s_reply.active) /\ []<>OneshotOver

================================================================================
