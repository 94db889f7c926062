--------------------------- MODULE CheckpointStore ---------------------------
(***************************************************************************)
(* CheckpointSystem of internal/maestro/checkpoint.go on a file system     *)
(* whose writes are not atomic: Save hashes and copies the modified files  *)
(* one by one and writes metadata.json last, Restore copies them back. The *)
(* process may fail or die at any point in between, and is then run again. *)
(*                                                                         *)
(* SHA-256 is taken as injective: a content is its own hash. A file that   *)
(* was created and not yet written stands for every torn copy.             *)
(***************************************************************************)
EXTENDS Naturals

CONSTANTS
    Files, Contents,
    Empty,              \* the content of a file just created or truncated
    Gone,               \* no such file
    Torn,               \* a metadata.json that does not parse
    MaxSaves,           \* bound: the number of calls of Save
    EditsDuringSave     \* whether others write to the tree while Save runs

ASSUME StoreAssumption ==
    /\ Empty \in Contents
    /\ Gone \notin Contents
    /\ MaxSaves \in Nat
    /\ EditsDuringSave \in BOOLEAN

\* The directories: one for each Save. Their names hold the step and the time
\* in seconds, and no step is saved twice within a second.
Ids == 1..MaxSaves

VARIABLES
    tree,       \* the working tree
    blobs,      \* per directory, what the file named by a hash contains
    meta,       \* per directory, metadata.json
    saves,      \* the number of Saves begun
    pc,         \* where Save or Restore is
    id,         \* ... the directory it works on
    todo,       \* ... the files it has left
    current,    \* ... the file it is at
    files,      \* ... Save's map from paths to hashes
    restored    \* the directory whose Restore was the last thing to change the tree, or 0

vars == <<tree, blobs, meta, saves, pc, id, todo, current, files, restored>>

Maps == UNION {[F -> Contents] : F \in SUBSET Files}

Committed == {i \in Ids : meta[i] \notin {Gone, Torn}}

Init ==
    /\ tree \in [Files -> Contents \cup {Gone}]
    /\ blobs = [i \in Ids |-> [c \in Contents |-> Gone]]
    /\ meta = [i \in Ids |-> Gone]
    /\ saves = 0
    /\ pc = "idle"
    /\ id = 0
    /\ todo = {}
    /\ current = {}
    /\ files = [f \in {} |-> Empty]
    /\ restored = 0

Saving == {"hash", "create", "copy", "metadata"}

\* The editor, between two calls; or the user, at any time.
Edit ==
    /\ pc = "idle" \/ (EditsDuringSave /\ pc \in Saving)
    /\ \E f \in Files, c \in Contents \cup {Gone} : tree' = [tree EXCEPT ![f] = c]
    /\ restored' = 0
    /\ UNCHANGED <<blobs, meta, saves, pc, id, todo, current, files>>

-----------------------------------------------------------------------------
(* Save                                                                    *)

\* Mutant of StartSave: every Save has the same directory.
StartSaveInPlace ==
    /\ pc = "idle"
    /\ saves < MaxSaves
    /\ saves' = saves + 1
    /\ id' = 1
    /\ todo' \in SUBSET Files
    /\ files' = [f \in {} |-> Empty]
    /\ pc' = "hash"
    /\ UNCHANGED <<tree, blobs, meta, current, restored>>

\* modifiedFiles is what the editor reports; it may name any files.
StartSave ==
    /\ pc = "idle"
    /\ saves < MaxSaves
    /\ saves' = saves + 1
    /\ id' = saves + 1
    /\ todo' \in SUBSET Files
    /\ files' = [f \in {} |-> Empty]
    /\ pc' = "hash"
    /\ UNCHANGED <<tree, blobs, meta, current, restored>>

\* A file that is gone, or that cannot be read, is left out of the checkpoint.
HashFile ==
    /\ pc = "hash"
    /\ \E f \in todo :
         \/ /\ todo' = todo \ {f}
            /\ UNCHANGED <<pc, current, files>>
         \/ /\ tree[f] # Gone
            /\ files' = [g \in DOMAIN files \cup {f} |-> IF g = f THEN tree[f] ELSE files[g]]
            /\ current' = {f}
            /\ pc' = "create"
            /\ UNCHANGED todo
    /\ UNCHANGED <<tree, blobs, meta, saves, id, restored>>

\* copyFile opens the source, truncates the target and copies.
CreateBlob ==
    /\ pc = "create"
    /\ \E f \in current :
         /\ tree[f] # Gone
         /\ blobs' = [blobs EXCEPT ![id][files[f]] = Empty]
    /\ pc' = "copy"
    /\ UNCHANGED <<tree, meta, saves, id, todo, current, files, restored>>

\* What an open file is read as. One that is removed meanwhile is read to its
\* end all the same, whatever it was when it went.
Read(f) == IF tree[f] = Gone THEN Contents ELSE {tree[f]}

\* Mutant of CopyBlob: the copy fails, and Save goes on to the next file.
CopyBlobOrGoOn ==
    /\ pc = "copy"
    /\ \E f \in current :
         /\ blobs' = blobs \/ \E c \in Read(f) : blobs' = [blobs EXCEPT ![id][files[f]] = c]
         /\ todo' = todo \ {f}
    /\ current' = {}
    /\ pc' = "hash"
    /\ UNCHANGED <<tree, meta, saves, id, files, restored>>

CopyBlob ==
    /\ pc = "copy"
    /\ \E f \in current :
         /\ \E c \in Read(f) : blobs' = [blobs EXCEPT ![id][files[f]] = c]
         /\ todo' = todo \ {f}
    /\ current' = {}
    /\ pc' = "hash"
    /\ UNCHANGED <<tree, meta, saves, id, files, restored>>

CreateMetadata ==
    /\ pc = "hash"
    /\ todo = {}
    /\ meta' = [meta EXCEPT ![id] = Torn]
    /\ pc' = "metadata"
    /\ UNCHANGED <<tree, blobs, saves, id, todo, current, files, restored>>

WriteMetadata ==
    /\ pc = "metadata"
    /\ meta' = [meta EXCEPT ![id] = files]
    /\ pc' = "idle"
    /\ UNCHANGED <<tree, blobs, saves, id, todo, current, files, restored>>

-----------------------------------------------------------------------------
(* Restore                                                                 *)

\* Mutant of StartRestore: metadata that cannot be read names no files.
StartRestoreUnread ==
    /\ pc = "idle"
    /\ \E i \in 1..saves :
         /\ id' = i
         /\ todo' = IF i \in Committed THEN DOMAIN meta[i] ELSE {}
    /\ pc' = "open"
    /\ restored' = 0
    /\ UNCHANGED <<tree, blobs, meta, saves, current, files>>

\* Metadata that is missing or does not parse fails Restore before it starts.
StartRestore ==
    /\ pc = "idle"
    /\ \E i \in Committed :
         /\ id' = i
         /\ todo' = DOMAIN meta[i]
    /\ pc' = "open"
    /\ restored' = 0
    /\ UNCHANGED <<tree, blobs, meta, saves, current, files>>

TruncateFile ==
    /\ pc = "open"
    /\ \E f \in todo :
         /\ blobs[id][meta[id][f]] # Gone
         /\ tree' = [tree EXCEPT ![f] = Empty]
         /\ current' = {f}
    /\ pc' = "write"
    /\ UNCHANGED <<blobs, meta, saves, id, todo, files, restored>>

WriteFile ==
    /\ pc = "write"
    /\ \E f \in current :
         /\ tree' = [tree EXCEPT ![f] = blobs[id][meta[id][f]]]
         /\ todo' = todo \ {f}
    /\ current' = {}
    /\ pc' = "open"
    /\ UNCHANGED <<blobs, meta, saves, id, files, restored>>

\* Mutant of EndRestore: files that cannot be restored are passed over.
EndRestoreEarly ==
    /\ pc = "open"
    /\ pc' = "idle"
    /\ restored' = id
    /\ UNCHANGED <<tree, blobs, meta, saves, id, todo, current, files>>

EndRestore ==
    /\ pc = "open"
    /\ todo = {}
    /\ pc' = "idle"
    /\ restored' = id
    /\ UNCHANGED <<tree, blobs, meta, saves, id, todo, current, files>>

\* An error of the file system makes Save or Restore return it at once, and a
\* dying process leaves the files the same way. Nothing is cleaned up.
Fail ==
    /\ pc # "idle"
    /\ pc' = "idle"
    /\ current' = {}
    /\ UNCHANGED <<tree, blobs, meta, saves, id, todo, files, restored>>

Next ==
    \/ Edit
    \/ StartSave \/ HashFile \/ CreateBlob \/ CopyBlob \/ CreateMetadata \/ WriteMetadata
    \/ StartRestore \/ TruncateFile \/ WriteFile \/ EndRestore
    \/ Fail

Spec == Init /\ [][Next]_vars

-----------------------------------------------------------------------------
TypeOK ==
    /\ tree \in [Files -> Contents \cup {Gone}]
    /\ blobs \in [Ids -> [Contents -> Contents \cup {Gone}]]
    /\ DOMAIN meta = Ids
    /\ \A i \in Ids : meta[i] \in Maps \cup {Gone, Torn}
    /\ saves \in 0..MaxSaves
    /\ pc \in Saving \cup {"idle", "open", "write"}
    /\ pc # "idle" => id \in 1..saves
    /\ todo \in SUBSET Files
    /\ current \in SUBSET Files
    /\ files \in Maps
    /\ restored \in {0} \cup Committed

\* A checkpoint that can be read can be restored: every blob its metadata
\* names has the content that the name is the hash of.
CommittedAreComplete ==
    \A i \in Committed : \A f \in DOMAIN meta[i] : blobs[i][meta[i][f]] = meta[i][f]

\* A Restore that returns no error has put every file of the checkpoint back.
RestoreIsComplete ==
    restored # 0 => \A f \in DOMAIN meta[restored] : tree[f] = meta[restored][f]

Abstract == INSTANCE Snapshots WITH snaps <- {meta[i] : i \in Committed}

\* The readable checkpoints are snapshots: each shows its files as they are
\* when metadata.json is written, and no failure of Save or Restore, no kill
\* and no later Save takes one away or changes it.
IsSnapshotStore == Abstract!Spec

\* Whoever writes to the tree while Save runs: a checkpoint that can be read is
\* neither taken away nor changed, blobs included, by a failure, a kill, a later Save
\* or a Restore; no blob its metadata names is missing; and a Restore that returns no
\* error has put its blobs back. (Only what a blob holds may be of another moment
\* than its name.)
CheckpointsStay ==
    [][\A i \in Committed : meta'[i] = meta[i] /\ blobs'[i] = blobs[i]]_vars
BlobsExist ==
    \A i \in Committed : \A f \in DOMAIN meta[i] : blobs[i][meta[i][f]] # Gone
RestoreGivesBlobs ==
    restored # 0 => \A f \in DOMAIN meta[restored] : tree[f] = blobs[restored][meta[restored][f]]

\* A Save under way: its directory is new, the map agrees with the tree, and
\* what the map names is copied, up to the file being copied (and the files
\* that share its content, and with it its blob).
SaveInv ==
    /\ \A i \in Ids : i > saves => meta[i] = Gone
    /\ pc \in Saving =>
         /\ id \notin Committed
         /\ \A f \in DOMAIN files : files[f] = tree[f]
    /\ pc \in {"hash", "metadata"} =>
         \A f \in DOMAIN files : blobs[id][files[f]] = files[f]
    /\ pc \in {"create", "copy"} =>
         \E c \in DOMAIN files :
           /\ current = {c}
           /\ \A f \in DOMAIN files : files[f] = files[c] \/ blobs[id][files[f]] = files[f]

\* A Restore under way: the files it has left behind are back.
RestoreInv ==
    pc \in {"open", "write"} =>
        /\ restored = 0 /\ id \in Committed /\ todo \subseteq DOMAIN meta[id]
        /\ \A f \in DOMAIN meta[id] \ todo : tree[f] = meta[id][f]
        /\ pc = "write" => \E f \in todo : current = {f}
=============================================================================
