-------------------------------- MODULE LanCert --------------------------------
(* The pod's LAN TLS certificate: lan_tls.c (load or generate at boot, generate  *)
(* on request, check and install an upload) and lan_tls_pem.c (split the upload).*)
(* The record in the A/B store is one register that a save replaces whole (the   *)
(* store itself is AbStore).  A certificate is [by, n, pair]: who made it, which *)
(* one it is, and whether its key belongs to it; an upload is the lines of its   *)
(* PEM text.  Every job may run out of heap or random numbers, or fail to save.  *)
EXTENDS Naturals, SequencesExt

CONSTANTS MaxCertFaults, MaxCertCmds

ConstantsOK == {MaxCertFaults, MaxCertCmds} \subseteq Nat

VARIABLES
    lcUp,       \* the net task has run lan_tls_init
    lcStore,    \* the record: a certificate, or by = "none" or "damaged"
    s_cur,      \* the certificate of the listener's configuration
    s_info,     \* [ready, cert]: what lan_tls reports
    lcStaged,   \* the upload in PSRAM: [text, cert]
    lcOta,      \* the upload's session: "idle", "verified" or "installed"
    lcSaid,     \* [op, ok]: the last answer
    lcBoot,     \* the fault the last boot met
    lcFaults, lcCmds

lcVars == <<lcUp, lcStore, s_cur, s_info, lcStaged, lcOta, lcSaid, lcBoot, lcFaults, lcCmds>>

Cert(by, n, pair) == [by |-> by, n |-> n, pair |-> pair]
NoCert == Cert("none", 0, FALSE)
Real(c) == c.by \in {"pod", "user"}

--------------------------------------------------------------------------------
(* lan_tls_pem_split: one pass over the lines; what is between a BEGIN and the next END belongs to that block. *)

Texts == { <<"key", "x", "end", "cert", "x", "end">>,
           <<"cert", "x", "end", "key", "x", "end", "other", "x", "end">>,
           <<"cert", "x", "key", "x", "end">>,          \* the certificate has no END
           <<"key", "x", "end", "cert", "x">>,
           <<"key", "proc", "x", "end", "cert", "x", "end">>,
           <<"encrypted", "x", "end", "cert", "x", "end">>,
           <<"key", "x", "end", "key", "x", "end", "cert", "x", "end">>,
           <<"cert", "x", "end">>, <<"key", "x", "end">> }

SplitLine(s, line) ==
    CASE s.bad -> s
      [] s.in = "none" /\ line = "cert" -> [s EXCEPT !.in = "cert", !.certs = @ + 1]
      [] s.in = "none" /\ line = "key" -> [s EXCEPT !.in = "key", !.keys = @ + 1, !.bad = s.keys > 0]
      [] s.in = "none" /\ line = "encrypted" -> [s EXCEPT !.bad = TRUE]
      [] s.in = "none" /\ line = "other" -> [s EXCEPT !.in = "other"]
      [] s.in = "key" /\ line = "proc" -> [s EXCEPT !.bad = TRUE]      \* Proc-Type: 4,ENCRYPTED
      [] s.in # "none" /\ line = "end" -> [s EXCEPT !.in = "none"]
      [] OTHER -> s

Split(text) ==
    LET s == FoldLeft(SplitLine, [in |-> "none", keys |-> 0, certs |-> 0, bad |-> FALSE], text)
    IN  ~s.bad /\ s.in = "none" /\ s.keys > 0 /\ s.certs > 0

(* check_pair: needs random numbers, then both parse and belong together *)
PairOK(c, f) == f # "rng" /\ c.pair

--------------------------------------------------------------------------------
Init ==
    /\ lcUp = FALSE /\ s_cur = NoCert /\ s_info = [ready |-> FALSE, cert |-> NoCert]
    /\ lcStore \in {NoCert, Cert("damaged", 0, FALSE), Cert("user", 0, TRUE)}
    /\ lcStaged = [text |-> <<>>, cert |-> NoCert] /\ lcOta = "idle" /\ lcSaid = [op |-> "none", ok |-> FALSE]
    /\ lcBoot = "none" /\ lcFaults = 0 /\ lcCmds = 0

(* what may go wrong in one job: no heap, no random numbers, a failed save, no heap for the configuration *)
Faults == IF lcFaults < MaxCertFaults THEN {"none", "mem", "rng", "save", "config"} ELSE {"none"}
Count(f) == lcFaults' = lcFaults + (IF f = "none" THEN 0 ELSE 1)

(* apply_record: the configuration is built from a record that is whole and whose pair checks *)
Applies(c, f) == Real(c) /\ PairOK(c, f) /\ f # "config"
Used(c) == s_cur' = c /\ s_info' = [ready |-> TRUE, cert |-> c]

(* regenerate_here: generate, store, use; each step only after the one before it *)
Generates(f) == f \notin {"mem", "rng"}
Saves(f) == f # "save"

(* lan_tls_init: the stored record if it can be used, else a new one; a fault that hit the stored one is over
   when the new one is made, or hits that too *)
BootTries == Faults \X Faults
NewCert(n) == Cert("pod", n, TRUE)
Store(c) == lcStore' = c
LoadsStored(f) == f # "mem" /\ Applies(lcStore, f)
(* broken: a record that does not load is left alone *)
RegeneratesNever(f, g) ==
    /\ s_cur' = NoCert /\ s_info' = [ready |-> FALSE, cert |-> NoCert] /\ UNCHANGED lcStore
Regenerates(f, g) ==
    LET c == NewCert(lcCmds + 1) IN
    /\ lcStore' = IF Generates(g) /\ Saves(g) THEN c ELSE lcStore
    /\ IF Generates(g) /\ Saves(g) /\ Applies(c, g) THEN Used(c)
       ELSE s_cur' = NoCert /\ s_info' = [ready |-> FALSE, cert |-> NoCert]

Boot ==
    /\ ~lcUp /\ lcUp' = TRUE
    /\ \E t \in BootTries :
        /\ Count(IF t[1] = "none" THEN t[2] ELSE t[1]) /\ lcBoot' = t[2]
        /\ \/ LoadsStored(t[1]) /\ Used(lcStore) /\ UNCHANGED lcStore
           \/ ~LoadsStored(t[1]) /\ Regenerates(t[1], t[2])
    /\ lcCmds' = lcCmds + 1
    /\ UNCHANGED <<lcStaged, lcOta, lcSaid>>

(* the staging area and its session are RAM *)
Reset ==
    /\ lcUp /\ lcCmds < MaxCertCmds
    /\ lcUp' = FALSE /\ s_cur' = NoCert /\ s_info' = [ready |-> FALSE, cert |-> NoCert]
    /\ lcStaged' = [text |-> <<>>, cert |-> NoCert] /\ lcOta' = "idle"
    /\ UNCHANGED <<lcStore, lcSaid, lcBoot, lcFaults, lcCmds>>

--------------------------------------------------------------------------------
Job == lcUp /\ lcCmds < MaxCertCmds /\ lcCmds' = lcCmds + 1 /\ UNCHANGED <<lcUp, lcBoot>>
Says(op, ok) == lcSaid' = [op |-> op, ok |-> ok]
Unused == UNCHANGED <<s_cur, s_info>>

(* lan_tls_regenerate: the save comes before the use, so an error of the use leaves the new record stored *)
Regenerate ==
    /\ Job
    /\ \E f \in Faults :
        LET c == NewCert(lcCmds + 1)  saved == Generates(f) /\ Saves(f)  used == saved /\ Applies(c, f)
        IN  /\ Count(f) /\ Says("regenerate", used)
            /\ IF saved THEN Store(c) ELSE UNCHANGED lcStore
            /\ IF used THEN Used(c) ELSE Unused
    /\ UNCHANGED <<lcStaged, lcOta>>

(* the checks both ota_end (store = FALSE) and ota_commit make of the staged bundle *)
Checks(u, f) == f # "mem" /\ Split(u.text) /\ PairOK(u.cert, f)
(* broken: what was verified is stored *)
ChecksOnce(u, f) == lcOta = "verified" \/ (f # "mem" /\ Split(u.text) /\ PairOK(u.cert, f))
ChecksAgain(u, f) == Checks(u, f)

Uploads == {[text |-> t, cert |-> Cert("user", lcCmds + 1, p)] : t \in Texts, p \in BOOLEAN}

(* ota_end of target "tls": lan_tls_validate_staged *)
Upload ==
    /\ Job
    /\ \E u \in Uploads, f \in Faults :
        /\ lcStaged' = u /\ Count(f)
        /\ lcOta' = IF Checks(u, f) THEN "verified" ELSE "idle"
        /\ Says("upload", Checks(u, f))
    /\ Unused /\ UNCHANGED lcStore

(* the staging area is written between ota_end and ota_commit *)
Overwritten ==
    /\ lcOta = "verified" /\ lcFaults < MaxCertFaults /\ lcFaults' = lcFaults + 1
    /\ \E u \in Uploads : lcStaged' = u
    /\ Unused /\ UNCHANGED <<lcUp, lcBoot, lcStore, lcOta, lcSaid, lcCmds>>

(* ota_commit: ota_install_staged_config, lan_tls_install, install_job *)
Install ==
    /\ Job /\ lcOta = "verified"
    /\ \E f \in Faults :
        LET c == lcStaged.cert  ok == ChecksAgain(lcStaged, f)
            saved == ok /\ Saves(f)  used == saved /\ Applies(c, f)
        IN  /\ Count(f) /\ Says("install", used)
            /\ IF saved THEN Store(c) ELSE UNCHANGED lcStore
            /\ IF used THEN Used(c) ELSE Unused
            /\ lcOta' = IF used THEN "installed" ELSE lcOta
    /\ UNCHANGED lcStaged

Next == Boot \/ Reset \/ Regenerate \/ Upload \/ Overwritten \/ Install

Spec == Init /\ [][Next]_lcVars

--------------------------------------------------------------------------------
Certs == [by : {"none", "damaged", "pod", "user"}, n : Nat, pair : BOOLEAN]
TypeOK ==
    /\ lcUp \in BOOLEAN /\ {lcStore, s_cur, s_info.cert} \subseteq Certs /\ s_info.ready \in BOOLEAN
    /\ lcOta \in {"idle", "verified", "installed"} /\ lcFaults \in 0..MaxCertFaults

(* Whatever is stored, served or reported is a certificate with its own key, and what lan_tls reports is what
   new connections get, although the staged upload may have changed after ota_end checked it and every step of
   a change can fail. *)
ServesPairs ==
    /\ \A c \in {lcStore, s_cur} : Real(c) => c.pair
    /\ s_info.ready = Real(s_cur) /\ (s_info.ready => s_info.cert = s_cur)

(* A pod is not left without TLS: after a boot whose last attempt met no fault the listener has a certificate,
   whatever the flash held. *)
AlwaysTls == lcUp /\ lcBoot = "none" => Real(s_cur)

================================================================================
