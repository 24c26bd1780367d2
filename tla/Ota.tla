---------------------------------- MODULE Ota ----------------------------------
(***************************************************************************)
(* ota.c with its callers (command_handler_ota.c, the ota.* frames of       *)
(* hw_worker.c): one staging area in PSRAM, shared by the cloud, the USB    *)
(* console and the LAN connections.  Everything runs on the worker task, so *)
(* one call is one step; the order of the calls is free.                    *)
(***************************************************************************)
EXTENDS Integers, TLAPS

CONSTANTS
    Cloud, Usb, Lan,   \* owners: OTA_OWNER_CLOUD, OTA_OWNER_USB, OTA_OWNER_LAN(0) ...
    NoOwner,           \* OTA_OWNER_NONE
    Images, Junk,      \* what a chunk of PSRAM may hold: a part of an image, or anything else
    Size,              \* chunks of an image
    Kinds,             \* the targets that updates are begun for
    Installable,       \* images that fit this flash, enforce signatures if that is the policy, parse
    Required,          \* fw_sign_policy() is FW_SIG_POLICY_REQUIRED
    Takeover,          \* OTA_TAKEOVER_IDLE_MS
    StageIdle,         \* OTA_STAGE_IDLE_MS
    VerifiedHold,      \* OTA_VERIFIED_HOLD_MS
    Nothing            \* no install yet, or a slot that was emptied

Owners == {Cloud, Usb} \cup Lan

ASSUME OwnersAssumption == Cloud # Usb /\ {Cloud, Usb} \cap Lan = {} /\ NoOwner \notin Owners
ASSUME SizeAssumption == Size \in Nat \ {0}
ASSUME TimesAssumption == {Takeover, StageIdle, VerifiedHold} \subseteq Nat \ {0}
ASSUME ImagesAssumption ==
    Junk \notin Images /\ Installable \subseteq Images /\ Required \in BOOLEAN

Chunks == 0 .. Size - 1

\* The firmware; gw0, gw1 and esp; the Wi-Fi bridge's image; the company CA.  (The LAN
\* certificate is parsed and stored by lan_tls.c, without a slot of the blob store.)
Targets == {"firmware", "code", "bridge", "config"}
Installs == [target : Targets, image : Images \cup {Junk}, signed : BOOLEAN]

States == {"idle", "receiving", "verified", "error", "installed"}
Unmarked == -1   \* a watchdog mark of 0

ASSUME KindsAssumption == Kinds \subseteq Targets

VARIABLES
    s_state, s_owner, s_orphan, s_target, s_received,
    s_expect,     \* the image whose digest begin gave
    s_sig,        \* begin came with a good manifest for it
    psram,        \* the staging area
    idle_ms,      \* s_clock_ms - s_activity_ms, up to Takeover
    s_wd_seen, wd_ms,   \* s_received at the mark, time since s_wd_mark_ms
    hold_ms,      \* time since s_verified_mark_ms
    s_ref_owner,  \* who was refused last, and sees only that
    installed     \* what was flashed or stored last

session == <<s_state, s_owner, s_orphan, s_target, s_received, s_expect, s_sig, psram>>
clocks == <<idle_ms, s_wd_seen, wd_ms, hold_ms>>
vars == <<session, clocks, s_ref_owner, installed>>

Init ==
    /\ s_state = "idle" /\ s_owner = NoOwner /\ s_orphan = FALSE
    /\ s_target = "firmware" /\ s_received = 0
    /\ s_expect \in Images /\ s_sig = FALSE /\ psram = [c \in Chunks |-> Junk]
    /\ idle_ms = 0 /\ s_wd_seen = 0 /\ wd_ms = Unmarked /\ hold_ms = Unmarked
    /\ s_ref_owner = NoOwner
    /\ installed = Nothing

--------------------------------------------------------------------------------
SessionActive == s_state \in {"receiving", "verified"}
MayAdopt(who) == s_orphan /\ who \in Lan /\ s_owner \in Lan
MayAct(who) == ~SessionActive \/ s_owner \in {NoOwner, who} \/ MayAdopt(who)
Abandoned == idle_ms >= Takeover

\* A variant for mutation checks: a closed LAN connection leaves its session to anyone.
MayReplaceOrphan(who) == MayAct(who) \/ s_owner = who \/ Abandoned \/ s_orphan
MayReplace(who) == MayAct(who) \/ s_owner = who \/ Abandoned

\* adopt(): a LAN connection carries on with the session of a closed one.
AdoptedBy(who) == IF SessionActive /\ s_owner # who /\ MayAdopt(who) THEN who ELSE s_owner
Adopt(who) ==
    /\ s_owner' = AdoptedBy(who)
    /\ s_orphan' = (s_orphan /\ AdoptedBy(who) # who)

\* A variant: clear_refusal() does nothing.
RefusalKept(who) == s_ref_owner
RefusalCleared(who) == IF s_ref_owner = who THEN NoOwner ELSE s_ref_owner

StagedIs(image) == \A c \in Chunks : psram[c] = image

--------------------------------------------------------------------------------
\* check_signature, which begin_signed skips for configuration.
SigAccepted(target, sig) == target = "bridge" \/ (target # "config" /\ Required) => sig

MarksReset == s_wd_seen' = 0 /\ wd_ms' = Unmarked /\ hold_ms' = Unmarked

\* ota_begin_owned: a bad size or digest (malformed, before the signature is looked at) or a
\* signature the policy refuses puts the new owner's session in ERROR.
Begin(who, target, image, manifest) ==
    /\ MayReplace(who)
    /\ s_ref_owner' = RefusalCleared(who)
    /\ s_owner' = who
    /\ s_orphan' = FALSE
    /\ s_target' = target
    /\ s_sig' = (manifest = "good" /\ target # "config")
    /\ IF manifest # "malformed" /\ SigAccepted(target, manifest = "good")
       THEN /\ s_expect' = image
            /\ s_received' = 0
            /\ s_state' = "receiving"
            /\ MarksReset
       ELSE /\ s_state' = "error"
            /\ UNCHANGED <<s_expect, s_received, s_wd_seen, wd_ms, hold_ms>>
    /\ idle_ms' = 0
    /\ UNCHANGED <<psram, installed>>

\* A variant: the high-water mark is one too far.
DataOffByOne(who, c, part) ==
    /\ MayAct(who) /\ Adopt(who)
    /\ s_state = "receiving"
    /\ idle_ms' = 0
    /\ psram' = [psram EXCEPT ![c] = part]
    /\ s_received' = c + 2
    /\ UNCHANGED <<s_state, s_target, s_expect, s_sig, s_wd_seen, wd_ms, hold_ms, s_ref_owner, installed>>

\* ota_data_by: a chunk is staged.
Data(who, c, part) ==
    /\ MayAct(who)
    /\ Adopt(who)
    /\ s_state = "receiving"
    /\ idle_ms' = 0
    /\ psram' = [psram EXCEPT ![c] = part]
    /\ s_received' = IF c + 1 > s_received THEN c + 1 ELSE s_received
    /\ UNCHANGED <<s_state, s_target, s_expect, s_sig, s_wd_seen, wd_ms, hold_ms, s_ref_owner, installed>>

\* ota_data_by: not receiving, a chunk out of range, or one the PSRAM did not take.
DataFails(who) ==
    /\ MayAct(who)
    /\ Adopt(who)
    /\ idle_ms' = IF s_state = "receiving" THEN 0 ELSE idle_ms
    /\ s_state' = "error"
    /\ UNCHANGED <<s_target, s_received, s_expect, s_sig, psram, s_wd_seen, wd_ms, hold_ms,
                   s_ref_owner, installed>>

EndPasses ==
    /\ s_received >= Size
    /\ StagedIs(s_expect)
    /\ s_target \in {"firmware", "config"} => s_expect \in Installable

\* ota_end_by; a PSRAM read may fail.
End(who) ==
    /\ MayAct(who)
    /\ Adopt(who)
    /\ s_state' \in {"error"} \cup (IF s_state = "receiving" /\ EndPasses THEN {"verified"} ELSE {})
    /\ idle_ms' = 0
    /\ UNCHANGED <<s_target, s_received, s_expect, s_sig, psram, s_wd_seen, wd_ms, hold_ms,
                   s_ref_owner, installed>>

\* ota_abort.
Aborted ==
    /\ s_owner' = NoOwner /\ s_orphan' = FALSE
    /\ s_state' = "idle" /\ s_target' = "firmware" /\ s_received' = 0

\* ota_abort_by, when it is not refused.
Abort(who) ==
    /\ MayReplace(who)
    /\ s_ref_owner' = RefusalCleared(who)
    /\ Aborted
    /\ UNCHANGED <<s_expect, s_sig, psram, clocks, installed>>

Install == [target |-> s_target, image |-> s_expect, signed |-> s_sig]

\* A variant: the firmware is flashed as it was verified, without the second hash.
FlashUnchecked(who) ==
    /\ MayAct(who) /\ s_state = "verified" /\ s_target = "firmware"
    /\ installed' = [target |-> "firmware", image |-> IF StagedIs(s_expect) THEN s_expect ELSE Junk,
                      signed |-> s_sig]
    /\ s_state' = "idle" /\ s_owner' = NoOwner /\ s_orphan' = FALSE
    /\ s_target' = "firmware" /\ s_received' = 0
    /\ s_ref_owner' = NoOwner
    /\ idle_ms' = 0 /\ s_wd_seen' = 0 /\ wd_ms' = Unmarked /\ hold_ms' = Unmarked
    /\ UNCHANGED <<s_expect, s_sig, psram>>

\* ota_commit of a firmware still intact: it is flashed and the pod resets.
CommitFirmware(who) ==
    /\ MayAct(who) /\ s_state = "verified" /\ s_target = "firmware"
    /\ StagedIs(s_expect)
    /\ installed' = Install
    /\ s_state' = "idle" /\ s_owner' = NoOwner /\ s_orphan' = FALSE
    /\ s_target' = "firmware" /\ s_received' = 0
    /\ s_ref_owner' = NoOwner
    /\ idle_ms' = 0 /\ s_wd_seen' = 0 /\ wd_ms' = Unmarked /\ hold_ms' = Unmarked
    /\ UNCHANGED <<s_expect, s_sig, psram>>

\* ota_commit that does not reset: no verified image (nothing happens), the image changed under
\* it or cannot be read, or the raw PSRAM read does not match (still verified).
CommitRefused(who) ==
    /\ MayAct(who)
    /\ Adopt(who)
    /\ \/ s_state # "verified" /\ UNCHANGED s_state
       \/ s_state = "verified" /\ s_target = "firmware"
          /\ s_state' \in {"error"} \cup (IF StagedIs(s_expect) THEN {"verified"} ELSE {})
    /\ UNCHANGED <<s_target, s_received, s_expect, s_sig, psram, clocks, s_ref_owner, installed>>

\* ota_install_blob: blob_store_write empties the slot first and hashes what it wrote.
CommitBlob(who) ==
    /\ MayAct(who) /\ s_state = "verified" /\ s_target # "firmware"
    /\ Adopt(who)
    /\ \/ StagedIs(s_expect) /\ s_state' = "installed"
          /\ installed' = Install
       \/ installed' = Nothing /\ s_state' = "error"
    /\ UNCHANGED <<s_target, s_received, s_expect, s_sig, psram, clocks, s_ref_owner>>

--------------------------------------------------------------------------------
\* refuse(): into the session's ERROR if `who` might replace it, else for its eyes only.
Refuse(who) ==
    /\ IF MayReplace(who)
       THEN s_state' = "error" /\ s_owner' = who /\ s_orphan' = FALSE
            /\ s_ref_owner' = RefusalCleared(who)
       ELSE s_ref_owner' = who /\ UNCHANGED <<s_state, s_owner, s_orphan>>
    /\ UNCHANGED <<s_target, s_received, s_expect, s_sig, psram, clocks, installed>>

\* The ota.* frames refuse through Refuse: a begin with a bad target or while a capture runs, or
\* on somebody's session; data, end and commit on somebody's session, an abort on one that may
\* not be replaced.  (Their guards imply nothing beyond a begin's: one action stands for all.)
\* The JSON commands of all transports answer such a call with an error and leave everything
\* alone.
FrameRefused == Refuse(Cloud)

--------------------------------------------------------------------------------
Older(a, max) == IF a < max THEN a + 1 ELSE a

\* A variant: every pass marks a verified image anew.
VerifiedPassMarks ==
    /\ hold_ms' = 0
    /\ UNCHANGED <<session, s_wd_seen, wd_ms>>

\* A verified image nobody commits.
VerifiedPass ==
    /\ IF hold_ms = Unmarked
       THEN hold_ms' = 0 /\ UNCHANGED session
       ELSE /\ hold_ms' = Older(hold_ms, VerifiedHold)
            /\ IF hold_ms + 1 < VerifiedHold THEN UNCHANGED session
               ELSE Aborted /\ UNCHANGED <<s_expect, s_sig, psram>>
    /\ UNCHANGED <<s_wd_seen, wd_ms>>

\* An upload: new bytes re-arm the mark.
ReceivingPass ==
    /\ hold_ms' = Unmarked
    /\ IF s_received # s_wd_seen \/ wd_ms = Unmarked
       THEN s_wd_seen' = s_received /\ wd_ms' = 0 /\ UNCHANGED session
       ELSE /\ wd_ms' = Older(wd_ms, StageIdle)
            /\ UNCHANGED s_wd_seen
            /\ IF wd_ms + 1 < StageIdle THEN UNCHANGED session
               ELSE Aborted /\ UNCHANGED <<s_expect, s_sig, psram>>

\* ota_watchdog, one time unit later.
Watchdog ==
    /\ idle_ms' = Older(idle_ms, Takeover)
    /\ \/ s_state = "verified" /\ VerifiedPass
       \/ s_state = "receiving" /\ ReceivingPass
       \/ ~SessionActive /\ hold_ms' = Unmarked /\ wd_ms' = 0 /\ UNCHANGED <<session, s_wd_seen>>
    /\ UNCHANGED <<s_ref_owner, installed>>

\* Another PSRAM master (a capture that was orphaned or slipped past the gate) writes there.
Scribble(c) ==
    /\ psram' = [psram EXCEPT ![c] = Junk]
    /\ UNCHANGED <<s_state, s_owner, s_orphan, s_target, s_received, s_expect, s_sig, clocks, s_ref_owner,
                   installed>>

\* A LAN connection closes: ota_owner_gone.  (A client may connect to a free slot at any time, so
\* the open connections are no part of the state.)
Gone(n) ==
    /\ s_orphan' = (s_orphan \/ (SessionActive /\ s_owner = n))
    /\ UNCHANGED <<s_state, s_owner, s_target, s_received, s_expect, s_sig, psram, clocks, s_ref_owner,
                   installed>>

Op(who) ==
    \/ \E t \in Kinds, i \in Images, m \in {"good", "missing", "malformed"} : Begin(who, t, i, m)
    \/ \E c \in Chunks, p \in Images \cup {Junk} : Data(who, c, p)
    \/ DataFails(who)
    \/ End(who)
    \/ Abort(who)
    \/ CommitFirmware(who)
    \/ CommitRefused(who)
    \/ CommitBlob(who)

Next ==
    \/ \E who \in Owners : Op(who)
    \/ FrameRefused
    \/ \E n \in Lan : Gone(n)
    \/ Watchdog
    \/ \E c \in Chunks : Scribble(c)

\* The worker calls ota_watchdog on every pass.
Fairness == WF_vars(Watchdog)

Spec == Init /\ [][Next]_vars /\ Fairness

--------------------------------------------------------------------------------
Marks(max) == Unmarked .. max

\* The types of the state.
TypeOK ==
    /\ s_state \in States /\ s_owner \in Owners \cup {NoOwner} /\ s_orphan \in BOOLEAN
    /\ s_target \in Targets /\ s_received \in 0 .. Size
    /\ s_expect \in Images /\ psram \in [Chunks -> Images \cup {Junk}]
    /\ idle_ms \in 0 .. Takeover
    /\ s_wd_seen \in 0 .. Size /\ wd_ms \in Marks(StageIdle) /\ hold_ms \in Marks(VerifiedHold)
    /\ s_ref_owner \in Owners \cup {NoOwner}
    /\ s_sig \in BOOLEAN /\ installed \in Installs \cup {Nothing}

\* The owner of a live session sees that session in its status, never an old refusal.
OwnerSeesSession == SessionActive => s_ref_owner # s_owner

\* Whatever wrote into the staging area and whoever sent it, the pod only ever runs a firmware
\* that was whole when it was flashed, and a signed one where the policy asks for it; the same
\* for the blobs it stores.
InstalledIsWhole ==
    installed # Nothing =>
        /\ installed.image \in Images
        /\ SigAccepted(installed.target, installed.signed)
        /\ installed.target \in {"firmware", "config"} => installed.image \in Installable

\* Both: what the pod installs, and what the owner of an update is told.
UpdateSound == OwnerSeesSession /\ InstalledIsWhole

\* `who` has no claim on the live session.
Foreign(who) ==
    SessionActive /\ s_owner # NoOwner /\ who # s_owner /\ ~(s_orphan /\ who \in Lan)

\* A session that made progress lately changes only by its owner's calls, or, once the owning
\* LAN connection has closed, by those of another LAN connection.
SessionProtected ==
    [][\/ UNCHANGED session
       \/ Abandoned
       \/ \A who \in Owners :
             Foreign(who) => ~Op(who) /\ (who = Cloud => ~FrameRefused)]_vars

\* If nobody calls any more, the pod does not stay busy with an update.
NotBusyForever == <>[][Watchdog]_vars => <>[]~SessionActive

--------------------------------------------------------------------------------
(***************************************************************************)
(* Proofs, for every set of connections, images and targets, and all sizes *)
(* and times.                                                               *)
(***************************************************************************)
\* Only a frame of the cloud leaves a refusal for its sender; and a live session has an owner.
OwnersKnown ==
    /\ s_ref_owner \in {NoOwner, Cloud}
    /\ SessionActive => s_owner \in Owners

\* What the manifest and the checks of ota_end_by have established stays so until the image is
\* committed: a call that changes one of them ends the session.
Vetted ==
    /\ SessionActive => SigAccepted(s_target, s_sig)
    /\ s_state = "verified" /\ s_target \in {"firmware", "config"} => s_expect \in Installable

OtaInv == TypeOK /\ UpdateSound /\ OwnersKnown /\ Vetted

\* The types survive every call of an owner.
LEMMA OpTypes == ASSUME TypeOK, NEW who \in Owners, Op(who) PROVE TypeOK'
<1> USE SizeAssumption, TimesAssumption, KindsAssumption, ImagesAssumption
<1> USE DEF Chunks, Marks, Unmarked, States
<1>0. AdoptedBy(who) \in Owners \cup {NoOwner} /\ RefusalCleared(who) \in Owners \cup {NoOwner}
  BY DEF AdoptedBy, RefusalCleared, TypeOK
<1>1. ASSUME NEW t \in Kinds, NEW i \in Images, NEW m \in {"good", "missing", "malformed"},
             Begin(who, t, i, m)
      PROVE  TypeOK'
  <2>1. s_orphan' \in BOOLEAN /\ s_sig' \in BOOLEAN
    BY <1>1 DEF Begin
  <2>2. t \in Targets
    OBVIOUS
  <2> QED  BY <1>0, <1>1, <2>1, <2>2 DEF Begin, TypeOK, MarksReset
<1>2. ASSUME NEW c \in Chunks, NEW p \in Images \cup {Junk}, Data(who, c, p)
      PROVE  TypeOK'
  <2>1. s_orphan' \in BOOLEAN
    BY <1>2 DEF Data, Adopt
  <2>2. s_received' \in 0 .. Size
    BY <1>2 DEF Data, TypeOK
  <2> QED  BY <1>0, <1>2, <2>1, <2>2 DEF Data, Adopt, TypeOK
<1>3. CASE DataFails(who)
  <2>1. s_orphan' \in BOOLEAN
    BY <1>3 DEF DataFails, Adopt
  <2> QED  BY <1>0, <1>3, <2>1 DEF DataFails, Adopt, TypeOK
<1>4. CASE End(who)
  <2>1. s_orphan' \in BOOLEAN
    BY <1>4 DEF End, Adopt
  <2> QED  BY <1>0, <1>4, <2>1 DEF End, Adopt, TypeOK
<1>5. CASE Abort(who)
  <2>1. s_orphan' \in BOOLEAN
    BY <1>5 DEF Abort, Aborted
  <2> QED  BY <1>0, <1>5, <2>1 DEF Abort, Aborted, TypeOK, Targets, clocks
<1>i. Install \in Installs
  BY DEF Install, Installs, TypeOK
<1>6. CASE CommitFirmware(who)
  <2>1. s_orphan' \in BOOLEAN
    BY <1>6 DEF CommitFirmware
  <2> QED  BY <1>i, <1>6, <2>1 DEF CommitFirmware, TypeOK, Targets
<1>7. CASE CommitRefused(who)
  <2>1. s_orphan' \in BOOLEAN
    BY <1>7 DEF CommitRefused, Adopt
  <2> QED  BY <1>0, <1>7, <2>1 DEF CommitRefused, Adopt, TypeOK, clocks
<1>8. CASE CommitBlob(who)
  <2>1. s_orphan' \in BOOLEAN
    BY <1>8 DEF CommitBlob, Adopt
  <2> QED  BY <1>0, <1>i, <1>8, <2>1 DEF CommitBlob, Adopt, TypeOK, clocks
<1> QED  BY <1>1, <1>2, <1>3, <1>4, <1>5, <1>6, <1>7, <1>8 DEF Op

\* The types survive every step.
LEMMA TypesStep == ASSUME TypeOK, [Next]_vars PROVE TypeOK'
<1> USE SizeAssumption, TimesAssumption, ImagesAssumption
<1> USE DEF Chunks, Marks, Unmarked, States
<1>1. ASSUME NEW who \in Owners, Op(who) PROVE TypeOK'
  BY <1>1, OpTypes
<1>2. CASE FrameRefused
  <2>1. Cloud \in Owners
    BY DEF Owners
  <2>2. s_orphan' \in BOOLEAN
    BY <1>2 DEF FrameRefused, Refuse, TypeOK
  <2> QED  BY <1>2, <2>1, <2>2 DEF FrameRefused, Refuse, RefusalCleared, TypeOK, clocks
<1>3. ASSUME NEW n \in Lan, Gone(n) PROVE TypeOK'
  <2>1. s_orphan' \in BOOLEAN
    BY <1>3 DEF Gone
  <2> QED  BY <1>3, <2>1 DEF Gone, TypeOK, clocks
<1>4. CASE Watchdog
  <2>1. idle_ms' \in 0 .. Takeover
    BY <1>4 DEF Watchdog, Older, TypeOK
  <2>2. s_wd_seen' \in 0 .. Size /\ wd_ms' \in -1 .. StageIdle /\ hold_ms' \in -1 .. VerifiedHold
    BY <1>4 DEF Watchdog, VerifiedPass, ReceivingPass, Older, TypeOK, session
  <2>3. UNCHANGED session \/ (Aborted /\ UNCHANGED <<s_expect, s_sig, psram>>)
    BY <1>4 DEF Watchdog, VerifiedPass, ReceivingPass
  <2>4. s_orphan' \in BOOLEAN
    BY <2>3 DEF session, Aborted, TypeOK
  <2> QED  BY <1>4, <2>1, <2>2, <2>3, <2>4 DEF Watchdog, session, Aborted, TypeOK, Targets
<1>5. ASSUME NEW c \in Chunks, Scribble(c) PROVE TypeOK'
  BY <1>5 DEF Scribble, TypeOK, clocks
<1>6. CASE UNCHANGED vars
  BY <1>6 DEF vars, session, clocks, TypeOK
<1> QED  BY <1>1, <1>2, <1>3, <1>4, <1>5, <1>6 DEF Next

\* The names in use are different ones.
LEMMA OwnerNames ==
    /\ Cloud \in Owners /\ NoOwner \notin Owners /\ Cloud # NoOwner
    /\ \A n \in Lan : n \in Owners /\ n # Cloud /\ n # NoOwner
  BY OwnersAssumption DEF Owners

\* adopt() leaves the session to its owner or hands it to a LAN connection, so no refusal
\* that was left for the cloud hides it.
LEMMA AdoptKeeps ==
    ASSUME TypeOK, OwnersKnown, OwnerSeesSession, NEW who \in Owners, Adopt(who), SessionActive,
           s_ref_owner' = s_ref_owner
    PROVE  s_owner' \in Owners /\ s_ref_owner' # s_owner'
  BY OwnerNames DEF Adopt, AdoptedBy, MayAdopt, OwnersKnown, OwnerSeesSession

\* Status and owner: no step hides a live session from its owner.
LEMMA OwnersStep ==
    ASSUME TypeOK, OwnersKnown, OwnerSeesSession, [Next]_vars
    PROVE  (OwnersKnown /\ OwnerSeesSession)'
<1> USE OwnerNames DEF OwnersKnown, OwnerSeesSession, SessionActive
<1>1. ASSUME NEW who \in Owners, Op(who) PROVE (OwnersKnown /\ OwnerSeesSession)'
  <2>1. ASSUME NEW t \in Kinds, NEW i \in Images, NEW m \in {"good", "missing", "malformed"},
               Begin(who, t, i, m)
        PROVE  (OwnersKnown /\ OwnerSeesSession)'
    BY <2>1 DEF Begin, RefusalCleared
  <2>2. ASSUME NEW c \in Chunks, NEW p \in Images \cup {Junk}, Data(who, c, p)
        PROVE  (OwnersKnown /\ OwnerSeesSession)'
    BY <2>2, AdoptKeeps DEF Data
  <2>3. CASE DataFails(who)
    BY <2>3 DEF DataFails
  <2>4. CASE End(who)
    BY <2>4, AdoptKeeps DEF End
  <2>5. CASE Abort(who)
    BY <2>5 DEF Abort, Aborted, RefusalCleared
  <2>6. CASE CommitFirmware(who)
    BY <2>6 DEF CommitFirmware
  <2>7. CASE CommitRefused(who)
    BY <2>7, AdoptKeeps DEF CommitRefused
  <2>8. CASE CommitBlob(who)
    BY <2>8 DEF CommitBlob
  <2> QED  BY <1>1, <2>1, <2>2, <2>3, <2>4, <2>5, <2>6, <2>7, <2>8 DEF Op
<1>2. CASE FrameRefused
  BY <1>2 DEF FrameRefused, Refuse, RefusalCleared, MayReplace
<1>3. ASSUME NEW n \in Lan, Gone(n) PROVE (OwnersKnown /\ OwnerSeesSession)'
  BY <1>3 DEF Gone
<1>4. CASE Watchdog
  <2>1. UNCHANGED session \/ Aborted
    BY <1>4 DEF Watchdog, VerifiedPass, ReceivingPass
  <2> QED  BY <1>4, <2>1 DEF Watchdog, session, Aborted
<1>5. ASSUME NEW c \in Chunks, Scribble(c) PROVE (OwnersKnown /\ OwnerSeesSession)'
  BY <1>5 DEF Scribble
<1>6. CASE UNCHANGED vars
  BY <1>6 DEF vars, session
<1> QED  BY <1>1, <1>2, <1>3, <1>4, <1>5, <1>6 DEF Next

\* A step that keeps what was vetted, its target and its signature keeps it vetted.
LEMMA VettedKept ==
    ASSUME Vetted, UNCHANGED <<s_target, s_expect, s_sig>>,
           SessionActive' => SessionActive, s_state' = "verified" => s_state = "verified"
    PROVE  Vetted'
  BY DEF Vetted, SigAccepted

\* What is installed: no step installs, or leaves ready to install, what was not checked.
LEMMA InstallStep ==
    ASSUME TypeOK, Vetted, InstalledIsWhole, [Next]_vars
    PROVE  (Vetted /\ InstalledIsWhole)'
<1>w. installed' = installed => InstalledIsWhole'
  BY DEF InstalledIsWhole, SigAccepted
<1>i. ASSUME s_state = "verified", installed' = Install PROVE InstalledIsWhole'
  <2>1. SigAccepted(s_target, s_sig) /\ s_expect \in Images
        /\ (s_target \in {"firmware", "config"} => s_expect \in Installable)
    BY <1>i DEF Vetted, SessionActive, TypeOK
  <2>2. /\ installed'.target = s_target /\ installed'.image = s_expect
        /\ installed'.signed = s_sig
    BY <1>i DEF Install
  <2> QED  BY <2>1, <2>2 DEF InstalledIsWhole, SigAccepted
<1>1. ASSUME NEW who \in Owners, Op(who) PROVE (Vetted /\ InstalledIsWhole)'
  <2>1. ASSUME NEW t \in Kinds, NEW i \in Images, NEW m \in {"good", "missing", "malformed"},
               Begin(who, t, i, m)
        PROVE  Vetted'
    <3>1. CASE m # "malformed" /\ SigAccepted(t, m = "good")
      <4>1. s_state' = "receiving" /\ s_target' = t /\ s_sig' = (m = "good" /\ t # "config")
        BY <2>1, <3>1 DEF Begin
      <4>2. SigAccepted(t, m = "good" /\ t # "config")
        BY <3>1 DEF SigAccepted
      <4> QED  BY <4>1, <4>2 DEF Vetted, SigAccepted
    <3>2. CASE ~(m # "malformed" /\ SigAccepted(t, m = "good"))
      BY <2>1, <3>2 DEF Begin, Vetted, SessionActive
    <3> QED  BY <3>1, <3>2
  <2>2. ASSUME NEW c \in Chunks, NEW p \in Images \cup {Junk}, Data(who, c, p)
        PROVE  Vetted'
    BY <2>2, VettedKept DEF Data, SessionActive
  <2>3. ASSUME DataFails(who) PROVE Vetted'
    BY <2>3 DEF DataFails, Vetted, SessionActive
  <2>4. ASSUME End(who) PROVE Vetted'
    <3>1. CASE s_state' = "error"
      BY <3>1 DEF Vetted, SessionActive
    <3>2. CASE s_state = "receiving" /\ EndPasses /\ s_state' = "verified"
      <4>1. SigAccepted(s_target, s_sig)
        BY <3>2 DEF Vetted, SessionActive
      <4>2. UNCHANGED <<s_target, s_expect, s_sig>>
        BY <2>4 DEF End
      <4> QED  BY <3>2, <4>1, <4>2 DEF EndPasses, Vetted, SigAccepted
    <3> QED  BY <2>4, <3>1, <3>2 DEF End
  <2>5. ASSUME Abort(who) PROVE Vetted'
    BY <2>5 DEF Abort, Aborted, Vetted, SessionActive
  <2>6. ASSUME CommitFirmware(who) PROVE Vetted'
    BY <2>6 DEF CommitFirmware, Vetted, SessionActive
  <2>7. ASSUME CommitRefused(who) PROVE Vetted'
    BY <2>7, VettedKept DEF CommitRefused, SessionActive
  <2>8. ASSUME CommitBlob(who) PROVE Vetted'
    BY <2>8 DEF CommitBlob, Vetted, SessionActive
  <2>9. Vetted'
    BY <1>1, <2>1, <2>2, <2>3, <2>4, <2>5, <2>6, <2>7, <2>8 DEF Op
  <2>10. \/ installed' = installed \/ installed' = Nothing
         \/ s_state = "verified" /\ installed' = Install
    BY <1>1 DEF Op, Begin, Data, DataFails, End, Abort, CommitFirmware, CommitRefused, CommitBlob
  <2>11. installed' = Nothing => InstalledIsWhole'
    BY DEF InstalledIsWhole
  <2> QED  BY <1>w, <1>i, <2>9, <2>10, <2>11
<1>2. CASE FrameRefused
  <2>1. installed' = installed /\ UNCHANGED <<s_target, s_expect, s_sig>>
        /\ (s_state' = "error" \/ s_state' = s_state)
    BY <1>2 DEF FrameRefused, Refuse
  <2> QED  BY <1>w, <2>1, VettedKept DEF SessionActive
<1>3. ASSUME NEW n \in Lan, Gone(n) PROVE (Vetted /\ InstalledIsWhole)'
  BY <1>w, <1>3, VettedKept DEF Gone, SessionActive
<1>4. CASE Watchdog
  <2>1. UNCHANGED session \/ Aborted
    BY <1>4 DEF Watchdog, VerifiedPass, ReceivingPass
  <2>2. UNCHANGED session => Vetted'
    BY VettedKept DEF session, SessionActive
  <2>3. Aborted => Vetted'
    BY DEF Aborted, Vetted, SessionActive
  <2> QED  BY <1>w, <1>4, <2>1, <2>2, <2>3 DEF Watchdog
<1>5. ASSUME NEW c \in Chunks, Scribble(c) PROVE (Vetted /\ InstalledIsWhole)'
  BY <1>w, <1>5, VettedKept DEF Scribble, SessionActive
<1>6. CASE UNCHANGED vars
  BY <1>w, <1>6, VettedKept DEF vars, session, SessionActive
<1> QED  BY <1>1, <1>2, <1>3, <1>4, <1>5, <1>6 DEF Next

\* A boot starts with no session.
LEMMA OtaInvInit == Init => OtaInv
<1> SUFFICES ASSUME Init PROVE OtaInv
  OBVIOUS
<1>1. s_orphan \in BOOLEAN /\ s_sig \in BOOLEAN
  BY DEF Init
<1>2. TypeOK
  BY <1>1, SizeAssumption, TimesAssumption
     DEF Init, TypeOK, States, Targets, Chunks, Marks, Unmarked
<1>3. ~SessionActive /\ s_state # "verified"
  BY DEF Init, SessionActive
<1>4. UpdateSound
  BY <1>3 DEF Init, UpdateSound, OwnerSeesSession, InstalledIsWhole
<1>5. OwnersKnown /\ Vetted
  BY <1>3 DEF Init, OwnersKnown, Vetted
<1> QED  BY <1>2, <1>4, <1>5 DEF OtaInv

\* ota.c: in every state of the staging area.
LEMMA OtaInvariant == Spec => []OtaInv
<1>1. OtaInv /\ [Next]_vars => OtaInv'
  BY TypesStep, OwnersStep, InstallStep DEF OtaInv, UpdateSound
<1> QED  BY <1>1, OtaInvInit, PTL DEF Spec

\* The staging area's state stays in its types (TypeOK): no chunk is counted beyond the
\* image and no mark of the watchdog runs past its limit.
THEOREM OtaTypes == Spec => []TypeOK
<1>1. OtaInv => TypeOK  BY DEF OtaInv
<1> QED  BY <1>1, OtaInvariant, PTL

\* ota.c: the pod installs only images that are whole, that parse, and that are signed where
\* the policy asks for it, whatever the other masters of the PSRAM write and in whatever order
\* the owners call; and the owner of a live session sees it (UpdateSound).
THEOREM UpdatesSound == Spec => []UpdateSound
<1>1. OtaInv => UpdateSound  BY DEF OtaInv
<1> QED  BY <1>1, OtaInvariant, PTL

\* may_act and may_replace: until a session is abandoned, no step of somebody without a claim
\* on it changes it (SessionProtected).
THEOREM SessionsProtected == Spec => SessionProtected
<1> DEFINE P == \/ UNCHANGED session
                \/ Abandoned
                \/ \A who \in Owners :
                      Foreign(who) => ~Op(who) /\ (who = Cloud => ~FrameRefused)
<1>1. ASSUME NEW who \in Owners, Foreign(who), ~Abandoned PROVE ~MayAct(who) /\ ~MayReplace(who)
  BY <1>1 DEF Foreign, MayAct, MayAdopt, MayReplace
<1>2. ASSUME NEW who \in Owners, ~MayAct(who), ~MayReplace(who) PROVE ~Op(who)
  BY <1>2 DEF Op, Begin, Data, DataFails, End, Abort, CommitFirmware, CommitRefused, CommitBlob
<1>3. ~MayReplace(Cloud) /\ FrameRefused => UNCHANGED session
  BY DEF FrameRefused, Refuse, session
<1>4. [Next]_vars => [P]_vars
  BY <1>1, <1>2, <1>3
<1> QED  BY <1>4, PTL DEF Spec, SessionProtected
================================================================================
