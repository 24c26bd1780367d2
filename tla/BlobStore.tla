------------------------------- MODULE BlobStore -------------------------------
(***************************************************************************)
(* blob_store.c: one slot of the W25Q, written in place, with the power     *)
(* failing at any flash operation.  An erase or a program cut short leaves  *)
(* its unit torn; a torn header or commit word fails its check.             *)
(***************************************************************************)
EXTENDS Naturals

CONSTANTS
    Blobs,       \* contents
    Pages,       \* the largest blob, in pages of one erase unit each
    Long,        \* blobs of that size: their first erase is a 64 KB block, header and data
    Blank, Torn, None

ConstantsOK ==
    Pages \in Nat \ {0} /\ Long \subseteq Blobs /\ {Blank, Torn, None} \cap Blobs = {}

VARIABLES
    header,          \* Blank, Torn, or the blob it names
    commit,          \* BLOB_COMMIT_MAGIC is there
    data,            \* by page: Blank, Torn, or the blob it is part of
    s_info,          \* the cached header, None if the slot counts as empty
    up,              \* FALSE between a power cut and blob_store_load
    pc, blob, page   \* the write under way

vars == <<header, commit, data, s_info, up, pc, blob, page>>
flashed == <<header, commit, data>>

PageNos == 1 .. Pages
Length(b) == IF b \in Long THEN Pages ELSE 1

Init ==
    /\ header = Blank /\ commit = FALSE /\ data = [p \in PageNos |-> Blank]
    /\ s_info = None /\ up = TRUE
    /\ pc = "idle" /\ blob \in Blobs /\ page = 0

\* A variant for mutation checks: any header counts.
AnyHeader == header
\* load_slot
Loaded == IF header \in Blobs /\ commit THEN header ELSE None

\* blob_store_write, up to the first erase: empty from here on.
Write(b) ==
    /\ up /\ pc = "idle"
    /\ blob' = b /\ page' = 0 /\ pc' = "erase"
    /\ s_info' = None
    /\ UNCHANGED <<flashed, up>>

\* The pages in an erase unit; unit 0 is the header's.
Unit(u) == IF u = 0 THEN (IF blob \in Long THEN {1} ELSE {}) ELSE {u}

\* The erase of a unit leaves it Blank, or Torn if it is cut short.
EraseTo(u, value) ==
    /\ data' = [p \in PageNos |-> IF p \in Unit(u) THEN value ELSE data[p]]
    /\ header' = IF u = 0 THEN value ELSE header
    /\ commit' = (commit /\ u # 0)

\* A variant: the header goes last.
EraseHeaderLast ==
    /\ up /\ pc = "erase"
    /\ EraseTo(IF page = Length(blob) THEN 0 ELSE page + 1, Blank)
    /\ IF page = Length(blob) THEN pc' = "program" /\ page' = 0 ELSE page' = page + 1 /\ UNCHANGED pc
    /\ UNCHANGED <<s_info, up, blob>>

\* erase_range, a unit at a time, the header's first.
Erase ==
    /\ up /\ pc = "erase"
    /\ EraseTo(page, Blank)
    /\ IF page = Length(blob) THEN pc' = "program" /\ page' = 0 ELSE page' = page + 1 /\ UNCHANGED pc
    /\ UNCHANGED <<s_info, up, blob>>

\* The source is the PSRAM or a download: it may hold something else by now.
Program(b) ==
    /\ up /\ pc = "program" /\ page < Length(blob)
    /\ data' = [data EXCEPT ![page + 1] = b]
    /\ page' = page + 1
    /\ UNCHANGED <<header, commit, s_info, up, pc, blob>>

DataIs(b) == \A p \in 1 .. Length(b) : data[p] = b

\* A variant: what was written is not hashed back.
HashSkipped ==
    /\ up /\ pc = "program" /\ page = Length(blob)
    /\ pc' = "header"
    /\ UNCHANGED <<flashed, s_info, up, blob, page>>

\* hash_flash against the digest that was asked for.
Hash ==
    /\ up /\ pc = "program" /\ page = Length(blob)
    /\ pc' = IF DataIs(blob) THEN "header" ELSE "idle"
    /\ UNCHANGED <<flashed, s_info, up, blob, page>>

\* A variant: the cached header is taken over before the commit word is written.
ProgramHeaderEarly ==
    /\ up /\ pc = "header"
    /\ header' = blob
    /\ s_info' = blob
    /\ pc' = "commit"
    /\ UNCHANGED <<commit, data, up, blob, page>>

ProgramHeader ==
    /\ up /\ pc = "header"
    /\ header' = blob
    /\ pc' = "commit"
    /\ UNCHANGED <<commit, data, s_info, up, blob, page>>

\* The commit word, then load_slot reads the slot back.
ProgramCommit ==
    /\ up /\ pc = "commit"
    /\ commit' = TRUE
    /\ UNCHANGED <<header, data, up, blob, page>>
    /\ s_info' = Loaded'
    /\ pc' = "idle"

\* What an operation that fails or is cut short may leave behind.
Interrupted ==
    \/ UNCHANGED flashed
    \/ pc = "erase" /\ EraseTo(page, Torn)
    \/ pc = "program" /\ page < Length(blob) /\ data' = [data EXCEPT ![page + 1] = Torn]
       /\ UNCHANGED <<header, commit>>
    \/ pc = "header" /\ header' = Torn /\ UNCHANGED <<commit, data>>

\* An erase, a program or a source read reports failure: the write is given up.
GiveUp ==
    /\ up /\ pc # "idle"
    /\ Interrupted
    /\ pc' = "idle"
    /\ UNCHANGED <<s_info, up, blob, page>>

\* blob_store_clear: the header's sector only; its erase may fail.
Clear ==
    /\ up /\ pc = "idle"
    /\ \/ header' = Blank /\ commit' = FALSE /\ UNCHANGED data
       \/ UNCHANGED flashed
    /\ s_info' = None
    /\ UNCHANGED <<up, pc, blob, page>>

\* The power fails, in the middle of an operation (blob_store_clear's erase too) or between two.
PowerCut ==
    /\ up
    /\ up' = FALSE /\ s_info' = None /\ pc' = "idle"
    /\ \/ Interrupted
       \/ pc = "idle" /\ header' = Torn /\ commit' = FALSE /\ UNCHANGED data
    /\ UNCHANGED <<blob, page>>

\* blob_store_load at boot.
Load ==
    /\ ~up
    /\ up' = TRUE
    /\ s_info' = Loaded
    /\ UNCHANGED <<flashed, pc, blob, page>>

Next ==
    \/ \E b \in Blobs : Write(b) \/ Program(b)
    \/ Erase \/ Hash \/ ProgramHeader \/ ProgramCommit \/ GiveUp \/ Clear \/ PowerCut \/ Load

Spec == Init /\ [][Next]_vars

\* The types of the state.
TypeOK ==
    /\ header \in Blobs \cup {Blank, Torn} /\ commit \in BOOLEAN
    /\ data \in [PageNos -> Blobs \cup {Blank, Torn}]
    /\ s_info \in Blobs \cup {None} /\ up \in BOOLEAN
    /\ pc \in {"idle", "erase", "program", "header", "commit"} /\ blob \in Blobs /\ page \in 0 .. Pages

\* "a cut leaves an empty slot, never a valid-looking partial one" (ota.c): a slot that counts
\* as present, now or after the next boot, holds the whole blob its header names.
PresentIsWhole == \A b \in {s_info, Loaded} \cap Blobs : DataIs(b)

\* What is on offer in RAM is what a reboot would find.
CacheAgrees == up /\ s_info # None => s_info = Loaded
================================================================================
