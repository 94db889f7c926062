----------------------- MODULE CheckpointStore_proofs -----------------------
(***************************************************************************)
(* Proofs about CheckpointStore for any files, contents and number of      *)
(* Saves. As long as nobody writes to the tree while Save runs: whatever   *)
(* fails and whenever the process dies, a checkpoint that can be read is   *)
(* complete, a Restore that succeeds has restored it, and the readable     *)
(* checkpoints are a set of snapshots. Whoever writes meanwhile: they are  *)
(* never taken away nor changed, and Restore puts their blobs back.        *)
(***************************************************************************)
EXTENDS CheckpointStore, TLAPS

Types ==
    /\ tree \in [Files -> Contents \cup {Gone}]
    /\ blobs \in [Ids -> [Contents -> Contents \cup {Gone}]]
    /\ DOMAIN meta = Ids /\ meta = [i \in Ids |-> meta[i]]
    /\ \A i \in Committed : meta[i] \in Maps
    /\ saves \in 0..MaxSaves
    /\ pc \in Saving \cup {"idle", "open", "write"}
    /\ pc # "idle" => id \in 1..saves
    /\ todo \in SUBSET Files
    /\ current \in SUBSET Files
    /\ files \in Maps
    /\ restored \in {0} \cup Committed

IInv == Types /\ SaveInv /\ RestoreInv /\ CommittedAreComplete /\ RestoreIsComplete

\* The maps from paths to contents, by their domains and values.
LEMMA MapsFacts ==
    /\ [f \in {} |-> Empty] \in Maps
    /\ \A m \in Maps : DOMAIN m \in SUBSET Files /\ \A f \in DOMAIN m : m[f] \in Contents
    /\ \A m \in Maps, f \in Files, c \in Contents :
          [g \in DOMAIN m \cup {f} |-> IF g = f THEN c ELSE m[g]] \in Maps
<1>1. [f \in {} |-> Empty] \in [{} -> Contents]
  OBVIOUS
<1>2. \A m \in Maps : \E F \in SUBSET Files : m \in [F -> Contents]
  BY DEF Maps
<1>3. ASSUME NEW m \in Maps, NEW f \in Files, NEW c \in Contents
      PROVE  [g \in DOMAIN m \cup {f} |-> IF g = f THEN c ELSE m[g]] \in Maps
  <2>1. PICK F \in SUBSET Files : m \in [F -> Contents]
    BY <1>2
  <2>2. [g \in DOMAIN m \cup {f} |-> IF g = f THEN c ELSE m[g]] \in [F \cup {f} -> Contents]
    BY <2>1
  <2> QED
    BY <2>2 DEF Maps
<1> QED
  BY <1>1, <1>2, <1>3 DEF Maps

LEMMA InitIInv == Init => IInv
<1> SUFFICES ASSUME Init PROVE IInv
  OBVIOUS
<1>1. Committed = {}
  BY DEF Init, Committed
<1>2. saves \in 0..MaxSaves
  BY StoreAssumption DEF Init
<1>3. Types
  BY <1>1, <1>2, MapsFacts DEF Init, Types
<1>4. SaveInv /\ RestoreInv
  BY DEF Init, SaveInv, RestoreInv, Saving
<1> QED
  BY <1>1, <1>3, <1>4 DEF Init, IInv, CommittedAreComplete, RestoreIsComplete

\* A step that leaves the directories as they are leaves the checkpoints too.
LEMMA SameDirectories ==
    ASSUME UNCHANGED meta PROVE Committed' = Committed
BY DEF Committed

-----------------------------------------------------------------------------
\* The steps of Save and Restore, one by one.

LEMMA EditStep == ASSUME ~ EditsDuringSave, IInv, Edit PROVE IInv'
<1> USE DEF IInv, Edit
<1>1. pc = "idle" /\ pc' = "idle" /\ Committed' = Committed
  BY SameDirectories
<1>2. tree' \in [Files -> Contents \cup {Gone}]
  BY DEF Types
<1>3. Types'
  BY <1>1, <1>2 DEF Types
<1>4. SaveInv' /\ RestoreInv'
  BY <1>1 DEF SaveInv, RestoreInv, Saving
<1>5. CommittedAreComplete' /\ RestoreIsComplete'
  BY <1>1 DEF CommittedAreComplete, RestoreIsComplete
<1> QED
  BY <1>3, <1>4, <1>5

LEMMA StartSaveStep == ASSUME IInv, StartSave PROVE IInv'
<1> USE DEF IInv, StartSave
<1>1. Committed' = Committed
  BY SameDirectories
<1>2. saves' \in 0..MaxSaves /\ id' \in 1..saves' /\ id' \in Ids /\ id' > saves
  BY StoreAssumption DEF Types, Ids
<1>3. Types'
  BY <1>1, <1>2, MapsFacts DEF Types, Saving
<1>4. meta[id'] = Gone
  BY <1>2 DEF SaveInv
<1>5. \A i \in Ids : i > saves' => i > saves
  BY StoreAssumption DEF Types, Ids
<1>6. SaveInv'
  BY <1>1, <1>4, <1>5 DEF SaveInv, Committed, Saving
<1>7. RestoreInv' /\ CommittedAreComplete' /\ RestoreIsComplete'
  BY <1>1 DEF RestoreInv, CommittedAreComplete, RestoreIsComplete
<1> QED
  BY <1>3, <1>6, <1>7

LEMMA HashFileStep == ASSUME IInv, HashFile PROVE IInv'
<1> USE DEF IInv
<1>1. pc = "hash" /\ Committed' = Committed
      /\ UNCHANGED <<tree, blobs, meta, saves, id, restored>>
  BY SameDirectories DEF HashFile
<1>2. PICK f \in todo :
        \/ /\ todo' = todo \ {f}
           /\ UNCHANGED <<pc, current, files>>
        \/ /\ tree[f] # Gone
           /\ files' = [g \in DOMAIN files \cup {f} |-> IF g = f THEN tree[f] ELSE files[g]]
           /\ current' = {f}
           /\ pc' = "create"
           /\ UNCHANGED todo
  BY DEF HashFile
<1>3. f \in Files
  BY DEF Types
<1>4. RestoreInv' /\ CommittedAreComplete' /\ RestoreIsComplete'
  <2>1. pc' \in {"hash", "create"}
    BY <1>1, <1>2
  <2> QED
    BY <1>1, <2>1 DEF RestoreInv, CommittedAreComplete, RestoreIsComplete
<1>5. CASE todo' = todo \ {f} /\ UNCHANGED <<pc, current, files>>
  <2>1. Types'
    BY <1>1, <1>2, <1>5 DEF Types
  <2>2. pc' = "hash" /\ UNCHANGED <<files, current>>
    BY <1>1, <1>2, <1>5
  <2>3. SaveInv'
    <3>1. /\ \A g \in DOMAIN files : files[g] = tree[g] /\ blobs[id][files[g]] = files[g]
          /\ id \notin Committed /\ \A i \in Ids : i > saves => meta[i] = Gone
      BY <1>1 DEF SaveInv, Saving
    <3>2. files' = files /\ pc' = "hash" /\ pc' \notin {"create", "copy"}
      BY <2>2
    <3>3. \A g \in DOMAIN files' : files'[g] = tree'[g] /\ blobs'[id'][files'[g]] = files'[g]
      BY <1>1, <3>1, <3>2
    <3>4. id' \notin Committed' /\ \A i \in Ids : i > saves' => meta'[i] = Gone
      BY <1>1, <3>1
    <3> QED
      BY <3>2, <3>3, <3>4 DEF SaveInv
  <2> QED
    BY <1>4, <2>1, <2>3
<1>6. CASE /\ tree[f] # Gone
           /\ files' = [g \in DOMAIN files \cup {f} |-> IF g = f THEN tree[f] ELSE files[g]]
           /\ current' = {f}
           /\ pc' = "create"
           /\ UNCHANGED todo
  <2>1. /\ files' = [g \in DOMAIN files \cup {f} |-> IF g = f THEN tree[f] ELSE files[g]]
        /\ current' = {f} /\ pc' = "create" /\ todo' = todo
    BY <1>2, <1>6
  <2>2. tree[f] \in Contents
    BY <1>3, <1>6 DEF Types
  <2>3. files' \in Maps
    <3> HIDE DEF IInv
    <3>1. files \in Maps
      BY DEF IInv, Types
    <3>2. [g \in DOMAIN files \cup {f} |-> IF g = f THEN tree[f] ELSE files[g]] \in Maps
      BY <1>3, <2>2, <3>1, MapsFacts
    <3> QED
      BY <2>1, <3>2
  <2>4. Types'
    BY <1>1, <1>3, <2>1, <2>3 DEF Types, Saving
  <2>5. SaveInv'
    <3>1. \A g \in DOMAIN files : files[g] = tree[g] /\ blobs[id][files[g]] = files[g]
      BY <1>1 DEF SaveInv, Saving
    <3>2. DOMAIN files' = DOMAIN files \cup {f}
          /\ \A g \in DOMAIN files' : files'[g] = IF g = f THEN tree[f] ELSE files[g]
      BY <2>1
    <3>3. id \notin Committed /\ \A i \in Ids : i > saves => meta[i] = Gone
      BY <1>1 DEF SaveInv, Saving
    <3>4. \A g \in DOMAIN files' : files'[g] = tree[g]
      BY <3>1, <3>2
    <3>5. \A g \in DOMAIN files' : files'[g] = files'[f] \/ blobs[id][files'[g]] = files'[g]
      BY <3>1, <3>2
    <3> QED
      BY <1>1, <2>1, <3>2, <3>3, <3>4, <3>5 DEF SaveInv
  <2> QED
    BY <1>4, <2>4, <2>5
<1> QED
  BY <1>2, <1>5, <1>6

\* Writing a blob leaves the checkpoints alone: it is in a directory without one.
LEMMA BlobWritten ==
    ASSUME IInv, NEW f \in DOMAIN files, NEW c \in Contents, pc \in Saving,
           blobs' = [blobs EXCEPT ![id][files[f]] = c], UNCHANGED meta
    PROVE  /\ blobs' \in [Ids -> [Contents -> Contents \cup {Gone}]]
           /\ CommittedAreComplete'
           /\ \A h \in Contents : blobs'[id][h] = IF h = files[f] THEN c ELSE blobs[id][h]
<1>1. files[f] \in Contents /\ id \in Ids /\ id \notin Committed
  BY MapsFacts, StoreAssumption DEF IInv, Types, SaveInv, Saving, Ids
<1>2. blobs \in [Ids -> [Contents -> Contents \cup {Gone}]]
  BY DEF IInv, Types
<1>3. blobs[id] \in [Contents -> Contents \cup {Gone}]
  BY <1>1, <1>2
<1>4. blobs' = [blobs EXCEPT ![id] = [blobs[id] EXCEPT ![files[f]] = c]]
  BY <1>1, <1>2
<1>5. blobs' \in [Ids -> [Contents -> Contents \cup {Gone}]]
  BY <1>1, <1>2, <1>3, <1>4
<1>6. \A h \in Contents : blobs'[id][h] = IF h = files[f] THEN c ELSE blobs[id][h]
  BY <1>1, <1>2, <1>3, <1>4
<1>7. \A i \in Ids : i # id => blobs'[i] = blobs[i]
  BY <1>2, <1>4
<1>8. Committed \subseteq Ids /\ Committed' = Committed
  BY SameDirectories DEF Committed
<1> QED
  BY <1>1, <1>5, <1>6, <1>7, <1>8 DEF IInv, CommittedAreComplete

LEMMA CreateBlobStep == ASSUME IInv, CreateBlob PROVE IInv'
<1> USE DEF IInv
<1>1. /\ pc = "create" /\ pc' = "copy" /\ Committed' = Committed
      /\ UNCHANGED <<tree, meta, saves, id, todo, current, files, restored>>
  BY SameDirectories DEF CreateBlob
<1>2. PICK f \in DOMAIN files :
        /\ current = {f}
        /\ \A g \in DOMAIN files : files[g] = files[f] \/ blobs[id][files[g]] = files[g]
  BY <1>1 DEF SaveInv
<1>3. blobs' = [blobs EXCEPT ![id][files[f]] = Empty]
  BY <1>2 DEF CreateBlob
<1>4. /\ blobs' \in [Ids -> [Contents -> Contents \cup {Gone}]]
      /\ CommittedAreComplete'
      /\ \A h \in Contents : blobs'[id][h] = IF h = files[f] THEN Empty ELSE blobs[id][h]
  BY <1>1, <1>3, BlobWritten, StoreAssumption DEF Saving
<1>5. Types'
  BY <1>1, <1>4 DEF Types, Saving
<1>6. SaveInv'
  <2>1. \A g \in DOMAIN files : files[g] \in Contents
    BY MapsFacts DEF Types
  <2>2. \A g \in DOMAIN files : files[g] = files[f] \/ blobs'[id][files[g]] = files[g]
    BY <1>2, <1>4, <2>1
  <2>3. /\ \A g \in DOMAIN files : files[g] = tree[g]
        /\ id \notin Committed /\ \A i \in Ids : i > saves => meta[i] = Gone
    BY <1>1 DEF SaveInv, Saving
  <2> QED
    BY <1>1, <1>2, <2>2, <2>3 DEF SaveInv
<1>7. RestoreInv' /\ RestoreIsComplete'
  BY <1>1 DEF RestoreInv, RestoreIsComplete
<1> QED
  BY <1>4, <1>5, <1>6, <1>7

LEMMA CopyBlobStep == ASSUME IInv, CopyBlob PROVE IInv'
<1> USE DEF IInv
<1>1. /\ pc = "copy" /\ pc' = "hash" /\ Committed' = Committed /\ current' = {}
      /\ UNCHANGED <<tree, meta, saves, id, files, restored>>
  BY SameDirectories DEF CopyBlob
<1>2. PICK f \in DOMAIN files :
        /\ current = {f}
        /\ \A g \in DOMAIN files : files[g] = files[f] \/ blobs[id][files[g]] = files[g]
  BY <1>1 DEF SaveInv
<1>3. \A g \in DOMAIN files : files[g] = tree[g] /\ files[g] \in Contents
  BY <1>1, MapsFacts DEF SaveInv, Saving, Types
<1>4. tree[f] # Gone /\ Read(f) = {files[f]}
  BY <1>3, StoreAssumption DEF Read
<1>5. blobs' = [blobs EXCEPT ![id][files[f]] = files[f]] /\ todo' = todo \ {f}
  BY <1>2, <1>4 DEF CopyBlob
<1>6. /\ blobs' \in [Ids -> [Contents -> Contents \cup {Gone}]]
      /\ CommittedAreComplete'
      /\ \A h \in Contents : blobs'[id][h] = IF h = files[f] THEN files[f] ELSE blobs[id][h]
  BY <1>1, <1>3, <1>5, BlobWritten DEF Saving
<1>7. Types'
  BY <1>1, <1>5, <1>6 DEF Types, Saving
<1>8. SaveInv'
  <2>1. \A g \in DOMAIN files : blobs'[id][files[g]] = files[g]
    BY <1>2, <1>3, <1>6
  <2>2. id \notin Committed /\ \A i \in Ids : i > saves => meta[i] = Gone
    BY <1>1 DEF SaveInv, Saving
  <2> QED
    BY <1>1, <1>3, <2>1, <2>2 DEF SaveInv
<1>9. RestoreInv' /\ RestoreIsComplete'
  BY <1>1 DEF RestoreInv, RestoreIsComplete
<1> QED
  BY <1>6, <1>7, <1>8, <1>9

LEMMA CreateMetadataStep == ASSUME IInv, CreateMetadata PROVE IInv' /\ Committed' = Committed
<1> USE DEF IInv
<1>1. /\ pc = "hash" /\ pc' = "metadata" /\ meta' = [meta EXCEPT ![id] = Torn]
      /\ UNCHANGED <<tree, blobs, saves, id, todo, current, files, restored>>
  BY DEF CreateMetadata
<1>2. id \in Ids /\ id \notin Committed /\ id <= saves
  BY <1>1, StoreAssumption DEF Types, Ids, SaveInv, Saving
<1>3. DOMAIN meta' = Ids /\ \A i \in Ids : meta'[i] = IF i = id THEN Torn ELSE meta[i]
  BY <1>1, <1>2 DEF Types
<1>4. Committed' = Committed /\ \A i \in Committed : meta'[i] = meta[i]
  BY <1>2, <1>3 DEF Committed
<1>5. Types'
  BY <1>1, <1>3, <1>4 DEF Types, Saving, Committed
<1>6. SaveInv'
  <2>1. \A i \in Ids : i > saves => meta'[i] = Gone
    BY <1>2, <1>3, StoreAssumption DEF SaveInv, Ids, Types
  <2> QED
    BY <1>1, <1>2, <1>4, <2>1 DEF SaveInv, Saving
<1>7. RestoreInv' /\ CommittedAreComplete' /\ RestoreIsComplete'
  <2>1. restored # 0 => restored \in Committed
    BY DEF Types
  <2> QED
    BY <1>1, <1>4, <2>1 DEF RestoreInv, CommittedAreComplete, RestoreIsComplete
<1> QED
  BY <1>4, <1>5, <1>6, <1>7

LEMMA WriteMetadataStep ==
    ASSUME IInv, WriteMetadata
    PROVE  /\ IInv'
           /\ \/ Committed' = Committed /\ \A i \in Committed : meta'[i] = meta[i]
              \/ /\ Committed' = Committed \cup {id}
                 /\ \A i \in Committed : meta'[i] = meta[i]
                 /\ meta'[id] = [f \in DOMAIN files |-> tree[f]] /\ DOMAIN files \in SUBSET Files
<1> USE DEF IInv
<1>1. /\ pc = "metadata" /\ pc' = "idle" /\ meta' = [meta EXCEPT ![id] = files]
      /\ UNCHANGED <<tree, blobs, saves, id, todo, current, files, restored>>
  BY DEF WriteMetadata
<1>2. id \in Ids /\ id \notin Committed /\ id <= saves
  BY <1>1, StoreAssumption DEF Types, Ids, SaveInv, Saving
<1>3. DOMAIN meta' = Ids /\ \A i \in Ids : meta'[i] = IF i = id THEN files ELSE meta[i]
  BY <1>1, <1>2 DEF Types
<1>4. /\ \A i \in Committed : meta'[i] = meta[i]
      /\ Committed' \in {Committed, Committed \cup {id}}
      /\ Committed \subseteq Ids
  BY <1>2, <1>3 DEF Committed
<1>5. files = [f \in DOMAIN files |-> tree[f]] /\ files \in Maps
  <2>1. files \in Maps /\ \A f \in DOMAIN files : files[f] = tree[f]
    BY <1>1 DEF Types, SaveInv, Saving
  <2>2. PICK F \in SUBSET Files : files \in [F -> Contents]
    BY <2>1 DEF Maps
  <2> QED
    BY <2>1, <2>2
<1>6. Types'
  <2>1. \A i \in Committed' : meta'[i] \in Maps
    BY <1>2, <1>3, <1>4, <1>5 DEF Types
  <2>2. DOMAIN meta' = Ids /\ meta' = [i \in Ids |-> meta'[i]]
    BY <1>1, <1>3 DEF Types
  <2> QED
    BY <1>1, <1>4, <2>1, <2>2 DEF Types, Saving
<1>7. SaveInv' /\ RestoreInv'
  <2>1. \A i \in Ids : i > saves => meta'[i] = Gone
    BY <1>2, <1>3, StoreAssumption DEF SaveInv, Ids, Types
  <2> QED
    BY <1>1, <2>1 DEF SaveInv, RestoreInv, Saving
<1>8. CommittedAreComplete'
  <2>1. \A f \in DOMAIN files : blobs[id][files[f]] = files[f]
    BY <1>1 DEF SaveInv
  <2> QED
    BY <1>1, <1>2, <1>3, <1>4, <2>1 DEF CommittedAreComplete
<1>9. RestoreIsComplete'
  <2>1. restored # 0 => restored \in Committed
    BY DEF Types
  <2> QED
    BY <1>1, <1>4, <2>1 DEF RestoreIsComplete
<1>10. DOMAIN files \in SUBSET Files
  BY MapsFacts DEF Types
<1> QED
  BY <1>2, <1>3, <1>4, <1>5, <1>6, <1>7, <1>8, <1>9, <1>10

LEMMA StartRestoreStep == ASSUME IInv, StartRestore PROVE IInv'
<1> USE DEF IInv
<1>1. /\ pc' = "open" /\ restored' = 0 /\ Committed' = Committed
      /\ UNCHANGED <<tree, blobs, meta, saves, current, files>>
  BY SameDirectories DEF StartRestore
<1>2. id' \in Committed /\ todo' = DOMAIN meta[id'] /\ meta[id'] \in Maps
  BY DEF StartRestore, Types
<1>3. id' \in 1..saves
  BY <1>2, StoreAssumption DEF SaveInv, Types, Ids, Committed
<1>4. todo' \in SUBSET Files
  BY <1>2, MapsFacts
<1>5. Types'
  BY <1>1, <1>3, <1>4 DEF Types
<1>6. SaveInv' /\ RestoreInv'
  BY <1>1, <1>2 DEF SaveInv, RestoreInv, Saving
<1> QED
  BY <1>1, <1>5, <1>6 DEF CommittedAreComplete, RestoreIsComplete

LEMMA TruncateFileStep == ASSUME IInv, TruncateFile PROVE IInv'
<1> USE DEF IInv
<1>1. /\ pc = "open" /\ pc' = "write" /\ Committed' = Committed
      /\ UNCHANGED <<blobs, meta, saves, id, todo, files, restored>>
  BY SameDirectories DEF TruncateFile
<1>2. PICK f \in todo : tree' = [tree EXCEPT ![f] = Empty] /\ current' = {f}
  BY DEF TruncateFile
<1>3. Types'
  BY <1>1, <1>2, StoreAssumption DEF Types
<1>4. RestoreInv'
  <2>1. id \in Committed /\ \A g \in DOMAIN meta[id] \ todo : tree[g] = meta[id][g]
    BY <1>1 DEF RestoreInv
  <2>2. \A g \in DOMAIN meta[id] \ todo : g \in Files /\ tree'[g] = tree[g]
    BY <1>2, <2>1, MapsFacts DEF Types
  <2> QED
    BY <1>1, <1>2, <2>1, <2>2 DEF RestoreInv
<1>5. restored = 0
  BY <1>1 DEF RestoreInv
<1> QED
  BY <1>1, <1>3, <1>4, <1>5 DEF SaveInv, CommittedAreComplete, RestoreIsComplete, Saving

LEMMA WriteFileStep == ASSUME IInv, WriteFile PROVE IInv'
<1> USE DEF IInv
<1>1. /\ pc = "write" /\ pc' = "open" /\ current' = {} /\ Committed' = Committed
      /\ UNCHANGED <<blobs, meta, saves, id, files, restored>>
  BY SameDirectories DEF WriteFile
<1>2. /\ restored = 0 /\ id \in Committed
      /\ \A g \in DOMAIN meta[id] \ todo : tree[g] = meta[id][g]
  BY <1>1 DEF RestoreInv
<1>3. PICK f \in todo : current = {f}
  BY <1>1 DEF RestoreInv
<1>4. tree' = [tree EXCEPT ![f] = blobs[id][meta[id][f]]] /\ todo' = todo \ {f}
  BY <1>3 DEF WriteFile
<1>5. meta[id] \in Maps /\ DOMAIN meta[id] \subseteq Files /\ f \in Files
  BY <1>2, MapsFacts DEF Types
<1>6. f \in DOMAIN meta[id] => blobs[id][meta[id][f]] = meta[id][f] /\ meta[id][f] \in Contents
  BY <1>2, <1>5, MapsFacts DEF CommittedAreComplete
<1>7. f \in DOMAIN meta[id]
  BY <1>1, <1>3 DEF RestoreInv
<1>8. Types'
  BY <1>1, <1>4, <1>5, <1>6, <1>7 DEF Types
<1>9. RestoreInv'
  <2>1. \A g \in DOMAIN meta[id] \ todo' : tree'[g] = meta[id][g]
    BY <1>2, <1>4, <1>5, <1>6 DEF Types
  <2>2. todo' \subseteq DOMAIN meta[id]
    BY <1>1, <1>4 DEF RestoreInv
  <2> QED
    BY <1>1, <1>2, <2>1, <2>2 DEF RestoreInv
<1> QED
  BY <1>1, <1>2, <1>8, <1>9 DEF SaveInv, CommittedAreComplete, RestoreIsComplete, Saving

LEMMA EndRestoreStep == ASSUME IInv, EndRestore PROVE IInv'
<1> USE DEF IInv
<1>1. /\ pc = "open" /\ todo = {} /\ pc' = "idle" /\ restored' = id /\ Committed' = Committed
      /\ UNCHANGED <<tree, blobs, meta, saves, id, todo, current, files>>
  BY SameDirectories DEF EndRestore
<1>2. id \in Committed /\ \A g \in DOMAIN meta[id] : tree[g] = meta[id][g]
  BY <1>1 DEF RestoreInv
<1>3. Types'
  BY <1>1, <1>2 DEF Types
<1> QED
  BY <1>1, <1>2, <1>3 DEF SaveInv, RestoreInv, CommittedAreComplete, RestoreIsComplete, Saving

LEMMA FailStep == ASSUME IInv, Fail PROVE IInv'
<1> USE DEF IInv
<1>1. /\ pc' = "idle" /\ current' = {} /\ Committed' = Committed
      /\ UNCHANGED <<tree, blobs, meta, saves, id, todo, files, restored>>
  BY SameDirectories DEF Fail
<1>2. Types'
  BY <1>1 DEF Types
<1> QED
  BY <1>1, <1>2 DEF SaveInv, RestoreInv, CommittedAreComplete, RestoreIsComplete, Saving

-----------------------------------------------------------------------------
LEMMA Inductive == ASSUME ~ EditsDuringSave PROVE IInv /\ [Next]_vars => IInv'
<1> SUFFICES ASSUME IInv, [Next]_vars PROVE IInv'
  OBVIOUS
<1>1. CASE UNCHANGED vars
  <2>1. Committed' = Committed
    BY <1>1, SameDirectories DEF vars
  <2>2. UNCHANGED <<tree, blobs, meta, saves, pc, id, todo, current, files, restored>>
    BY <1>1 DEF vars
  <2>3. Types'
    BY <2>1, <2>2 DEF IInv, Types
  <2>4. SaveInv'
    BY <2>1, <2>2 DEF IInv, SaveInv
  <2>5. RestoreInv'
    BY <2>1, <2>2 DEF IInv, RestoreInv
  <2>6. CommittedAreComplete' /\ RestoreIsComplete'
    BY <2>1, <2>2 DEF IInv, CommittedAreComplete, RestoreIsComplete
  <2> QED
    BY <2>3, <2>4, <2>5, <2>6 DEF IInv
<1> QED
  BY <1>1, EditStep, StartSaveStep, HashFileStep, CreateBlobStep, CopyBlobStep,
     CreateMetadataStep, WriteMetadataStep, StartRestoreStep, TruncateFileStep, WriteFileStep,
     EndRestoreStep, FailStep DEF Next

\* Every step but the one that writes metadata.json leaves the snapshots as
\* they are; that one takes the snapshot of the tree it finds.
LEMMA SnapshotStep ==
    ASSUME ~ EditsDuringSave, IInv, [Next]_vars
    PROVE  [Abstract!Change \/ Abstract!Take]_<<tree, {meta[i] : i \in Committed}>>
<1> DEFINE snaps == {meta[i] : i \in Committed}
<1>1. ASSUME Committed' = Committed, \A i \in Committed : meta'[i] = meta[i] PROVE snaps' = snaps
  BY <1>1
<1>2. CASE WriteMetadata
  <2>1. CASE Committed' = Committed /\ \A i \in Committed : meta'[i] = meta[i]
    BY <1>1, <2>1 DEF Abstract!Change
  <2>2. CASE /\ Committed' = Committed \cup {id}
             /\ \A i \in Committed : meta'[i] = meta[i]
             /\ meta'[id] = [f \in DOMAIN files |-> tree[f]] /\ DOMAIN files \in SUBSET Files
    <3>1. snaps' = snaps \cup {[f \in DOMAIN files |-> tree[f]]}
      BY <2>2
    <3>2. tree' = tree
      BY <1>2 DEF WriteMetadata
    <3> QED
      BY <2>2, <3>1, <3>2 DEF Abstract!Take
  <2> QED
    BY <1>2, <2>1, <2>2, WriteMetadataStep
<1>3. CASE CreateMetadata
  <2>1. Committed' = Committed /\ \A i \in Committed : meta'[i] = meta[i]
    <3>1. id \notin Committed /\ meta' = [meta EXCEPT ![id] = Torn] /\ Committed' = Committed
      BY <1>3, CreateMetadataStep DEF CreateMetadata, IInv, SaveInv, Saving
    <3>2. Committed \subseteq DOMAIN meta
      BY DEF IInv, Types, Committed
    <3> QED
      BY <3>1, <3>2 DEF IInv, Types
  <2> QED
    BY <1>1, <2>1 DEF Abstract!Change
<1>4. CASE UNCHANGED meta
  BY <1>1, <1>4, SameDirectories DEF Abstract!Change
<1> QED
  BY <1>2, <1>3, <1>4 DEF Next, vars, Edit, StartSave, HashFile, CreateBlob, CopyBlob, StartRestore,
     TruncateFile, WriteFile, EndRestore, Fail

\* The inductive invariant of Save and Restore.
THEOREM Invariance == ASSUME ~ EditsDuringSave PROVE Spec => []IInv
<1>1. IInv /\ [Next]_vars => IInv'
  BY Inductive
<1> QED
  BY <1>1, InitIInv, PTL DEF Spec

\* A checkpoint whose metadata.json can be read has all the blobs it names.
THEOREM CommittedAreCompleteAlways ==
    ASSUME ~ EditsDuringSave PROVE Spec => []CommittedAreComplete
BY Invariance, PTL DEF IInv

\* A Restore that returns nil has put every file of the checkpoint back.
THEOREM RestoreIsCompleteAlways ==
    ASSUME ~ EditsDuringSave PROVE Spec => []RestoreIsComplete
BY Invariance, PTL DEF IInv

\* The store implements Snapshots: its checkpoints are taken in one step and
\* kept, though Save is many and may be cut short at each of them.
THEOREM IsSnapshotStoreAlways ==
    ASSUME ~ EditsDuringSave PROVE Spec => IsSnapshotStore
<1>1. Init => Abstract!Init
  BY DEF Init, Abstract!Init, Committed
<1>2. IInv /\ [Next]_vars
        => [Abstract!Change \/ Abstract!Take]_<<tree, {meta[i] : i \in Committed}>>
  BY SnapshotStep
<1> QED
  BY <1>1, <1>2, Invariance, PTL DEF Spec, IsSnapshotStore, Abstract!Spec

-----------------------------------------------------------------------------
(* What holds whoever writes to the tree while Save runs.                  *)

\* As SaveInv and RestoreInv, of the blobs that are there instead of the tree.
KeptInv ==
    /\ \A i \in Ids : i > saves => meta[i] = Gone
    /\ pc \in Saving => id \notin Committed
    /\ pc \in {"hash", "metadata"} => \A f \in DOMAIN files : blobs[id][files[f]] # Gone
    /\ pc \in {"create", "copy"} =>
         \E c \in DOMAIN files :
           /\ current = {c}
           /\ \A f \in DOMAIN files : files[f] = files[c] \/ blobs[id][files[f]] # Gone
    /\ pc \in {"open", "write"} =>
         /\ restored = 0 /\ id \in Committed /\ todo \subseteq DOMAIN meta[id]
         /\ \A f \in DOMAIN meta[id] \ todo : tree[f] = blobs[id][meta[id][f]]
         /\ pc = "write" => \E f \in todo : current = {f}

Kept == Types /\ KeptInv /\ BlobsExist /\ RestoreGivesBlobs

\* The checkpoints of a step are those before it, each with the blobs it had.
Stay == \A i \in Committed : i \in Committed' /\ meta'[i] = meta[i] /\ blobs'[i] = blobs[i]

LEMMA InitKept == Init => Kept
<1> SUFFICES ASSUME Init PROVE Kept
    OBVIOUS
<1>1. Committed = {}
    BY DEF Init, Committed
<1>2. Types
    BY InitIInv DEF IInv
<1> QED BY <1>1, <1>2 DEF Init, Kept, KeptInv, BlobsExist, RestoreGivesBlobs, Saving

\* The end of a Save or a Restore that has failed, and the steps between two of them.
LEMMA RestKept ==
    ASSUME Kept, pc' = "idle", UNCHANGED <<blobs, meta, saves, files>>, todo' \in SUBSET Files,
           current' \in SUBSET Files,
           \/ UNCHANGED <<tree, restored>>
           \/ tree' \in [Files -> Contents \cup {Gone}] /\ restored' = 0
    PROVE  Kept' /\ Stay
<1>1. Committed' = Committed
    BY SameDirectories
<1>2. Types'
    BY <1>1 DEF Kept, Types
<1>3. KeptInv'
    BY DEF Kept, KeptInv, Saving
<1>4. BlobsExist' /\ RestoreGivesBlobs'
    BY <1>1 DEF Kept, BlobsExist, RestoreGivesBlobs
<1>5. Stay
    BY <1>1 DEF Stay
<1> QED BY <1>2, <1>3, <1>4, <1>5 DEF Kept

\* A step of Save that leaves the directories alone.
LEMMA SaveKept ==
    ASSUME Kept, pc' \in Saving, UNCHANGED <<blobs, meta>>,
           saves' \in 0..MaxSaves, saves <= saves', id' \in 1..saves', id' \notin Committed,
           todo' \in SUBSET Files, current' \in SUBSET Files, files' \in Maps,
           pc' \in {"hash", "metadata"} => \A f \in DOMAIN files' : blobs[id'][files'[f]] # Gone,
           pc' \in {"create", "copy"} =>
              \E c \in DOMAIN files' :
                /\ current' = {c}
                /\ \A f \in DOMAIN files' : files'[f] = files'[c] \/ blobs[id'][files'[f]] # Gone,
           \/ UNCHANGED <<tree, restored>>
           \/ tree' \in [Files -> Contents \cup {Gone}] /\ restored' = 0
    PROVE  Kept' /\ Stay
<1>1. Committed' = Committed
    BY SameDirectories
<1>2. Types'
    BY <1>1 DEF Kept, Types
<1>3. \A i \in Ids : i > saves' => meta'[i] = Gone
    BY StoreAssumption DEF Kept, KeptInv, Types, Ids
<1>4. KeptInv'
    BY <1>1, <1>3 DEF KeptInv, Saving
<1>5. BlobsExist' /\ RestoreGivesBlobs'
    BY <1>1 DEF Kept, BlobsExist, RestoreGivesBlobs
<1>6. Stay
    BY <1>1 DEF Stay
<1> QED BY <1>2, <1>4, <1>5, <1>6 DEF Kept

\* A blob is written in a directory without a checkpoint.
LEMMA BlobKept ==
    ASSUME Kept, pc \in {"create", "copy"}, pc' \in {"copy", "hash"},
           NEW f \in DOMAIN files, NEW c \in Contents, current = {f},
           blobs' = [blobs EXCEPT ![id][files[f]] = c],
           UNCHANGED <<tree, meta, saves, id, files, restored>>,
           todo' \in SUBSET Files, current' \in SUBSET Files,
           pc' = "copy" => current' = current
    PROVE  Kept' /\ Stay
<1>1. Committed' = Committed /\ Committed \subseteq Ids
    BY SameDirectories DEF Committed
<1>2. files[f] \in Contents /\ id \in Ids /\ id \notin Committed
    BY MapsFacts, StoreAssumption DEF Kept, Types, KeptInv, Saving, Ids
<1>3. blobs \in [Ids -> [Contents -> Contents \cup {Gone}]]
    BY DEF Kept, Types
<1>4. blobs' = [blobs EXCEPT ![id] = [blobs[id] EXCEPT ![files[f]] = c]]
    BY <1>2, <1>3
<1>5. /\ blobs' \in [Ids -> [Contents -> Contents \cup {Gone}]]
      /\ \A h \in Contents : blobs'[id][h] = IF h = files[f] THEN c ELSE blobs[id][h]
      /\ \A i \in Ids : i # id => blobs'[i] = blobs[i]
    BY <1>2, <1>3, <1>4
<1>6. Types'
    BY <1>1, <1>5 DEF Kept, Types, Saving
<1>7. \A g \in DOMAIN files : blobs'[id][files[g]] # Gone
    <2>1. \A g \in DOMAIN files : files[g] \in Contents
        BY MapsFacts DEF Kept, Types
    <2>2. \A g \in DOMAIN files : files[g] = files[f] \/ blobs[id][files[g]] # Gone
        BY DEF Kept, KeptInv
    <2> QED BY <1>5, <2>1, <2>2, StoreAssumption
<1>8. KeptInv'
    BY <1>1, <1>2, <1>7 DEF Kept, KeptInv
<1>9. BlobsExist' /\ Stay
    BY <1>1, <1>2, <1>5 DEF Kept, BlobsExist, Stay
<1>10. RestoreGivesBlobs'
    BY <1>1, <1>2, <1>5 DEF Kept, Types, RestoreGivesBlobs
<1> QED BY <1>6, <1>8, <1>9, <1>10 DEF Kept

LEMMA SaveStepKept ==
    ASSUME Kept, StartSave \/ HashFile \/ CreateBlob \/ CopyBlob PROVE Kept' /\ Stay
<1>0. Types /\ KeptInv
    BY DEF Kept
<1>1. CASE StartSave
    <2>1. saves' \in 0..MaxSaves /\ saves <= saves' /\ id' \in 1..saves' /\ id' \in Ids /\ id' > saves
        BY <1>0, <1>1, StoreAssumption DEF StartSave, Types, Ids
    <2>2. id' \notin Committed
        BY <1>0, <2>1 DEF KeptInv, Committed
    <2>3. /\ pc' = "hash" /\ todo' \in SUBSET Files /\ files' = [f \in {} |-> Empty]
          /\ UNCHANGED <<tree, blobs, meta, current, restored>>
        BY <1>1 DEF StartSave
    <2>4. files' \in Maps /\ DOMAIN files' = {}
        BY <2>3, MapsFacts
    <2>5. current' \in SUBSET Files
        BY <1>0, <2>3 DEF Types
    <2> QED BY <2>1, <2>2, <2>3, <2>4, <2>5, SaveKept DEF Saving
<1>2. CASE HashFile
    <2>1. /\ pc = "hash" /\ id \notin Committed /\ id \in 1..saves /\ saves \in 0..MaxSaves
          /\ \A g \in DOMAIN files : blobs[id][files[g]] # Gone
          /\ UNCHANGED <<tree, blobs, meta, saves, id, restored>>
        BY <1>0, <1>2 DEF HashFile, KeptInv, Types, Saving
    <2>2. PICK f \in todo :
            \/ /\ todo' = todo \ {f}
               /\ UNCHANGED <<pc, current, files>>
            \/ /\ tree[f] # Gone
               /\ files' = [g \in DOMAIN files \cup {f} |-> IF g = f THEN tree[f] ELSE files[g]]
               /\ current' = {f}
               /\ pc' = "create"
               /\ UNCHANGED todo
        BY <1>2 DEF HashFile
    <2>3. f \in Files /\ todo' \in SUBSET Files /\ current' \in SUBSET Files /\ saves <= saves'
        BY <1>0, <2>1, <2>2 DEF Types
    <2>4. CASE UNCHANGED <<pc, current, files>>
        <3>1. files' \in Maps /\ pc' = "hash"
            BY <1>0, <2>1, <2>4 DEF Types
        <3> QED BY <2>1, <2>3, <2>4, <3>1, SaveKept DEF Saving
    <2>5. CASE /\ tree[f] # Gone
               /\ files' = [g \in DOMAIN files \cup {f} |-> IF g = f THEN tree[f] ELSE files[g]]
               /\ current' = {f}
               /\ pc' = "create"
        <3>1. files \in Maps /\ tree[f] \in Contents
            BY <1>0, <2>3, <2>5 DEF Types
        <3>2. [g \in DOMAIN files \cup {f} |-> IF g = f THEN tree[f] ELSE files[g]] \in Maps
            BY <2>3, <3>1, MapsFacts
        <3>3. files' \in Maps
            BY <2>5, <3>2
        <3>4. DOMAIN files' = DOMAIN files \cup {f}
              /\ \A g \in DOMAIN files' : files'[g] = IF g = f THEN tree[f] ELSE files[g]
            BY <2>5
        <3>5. f \in DOMAIN files' /\ \A g \in DOMAIN files' : files'[g] = files'[f] \/ blobs[id][files'[g]] # Gone
            BY <2>1, <3>4
        <3>6. \E h \in DOMAIN files' :
                /\ current' = {h}
                /\ \A g \in DOMAIN files' : files'[g] = files'[h] \/ blobs[id'][files'[g]] # Gone
            BY <2>1, <2>5, <3>5
        <3> QED BY <2>1, <2>3, <2>5, <3>3, <3>6, SaveKept DEF Saving
    <2> QED BY <2>2, <2>4, <2>5
<1>3. CASE CreateBlob
    <2>1. /\ pc = "create" /\ pc' = "copy"
          /\ UNCHANGED <<tree, meta, saves, id, todo, current, files, restored>>
        BY <1>3 DEF CreateBlob
    <2>2. PICK f \in DOMAIN files : current = {f}
        BY <1>0, <2>1 DEF KeptInv
    <2>3. blobs' = [blobs EXCEPT ![id][files[f]] = Empty]
        BY <1>3, <2>2 DEF CreateBlob
    <2>4. todo' \in SUBSET Files /\ current' \in SUBSET Files
        BY <1>0, <2>1 DEF Types
    <2> QED BY <2>1, <2>2, <2>3, <2>4, BlobKept, StoreAssumption
<1>4. CASE CopyBlob
    <2>1. /\ pc = "copy" /\ pc' = "hash" /\ current' = {}
          /\ UNCHANGED <<tree, meta, saves, id, files, restored>>
        BY <1>4 DEF CopyBlob
    <2>2. PICK f \in DOMAIN files : current = {f}
        BY <1>0, <2>1 DEF KeptInv
    <2>3. f \in Files
        BY <1>0, <2>2 DEF Types
    <2>4. Read(f) \subseteq Contents
        BY <1>0, <2>3 DEF Read, Types
    <2>5. PICK c \in Contents : blobs' = [blobs EXCEPT ![id][files[f]] = c]
        BY <1>4, <2>2, <2>4 DEF CopyBlob
    <2>6. todo' \in SUBSET Files
        BY <1>0, <1>4, <2>2 DEF CopyBlob, Types
    <2> QED BY <2>1, <2>2, <2>5, <2>6, BlobKept
<1> QED BY <1>1, <1>2, <1>3, <1>4

LEMMA MetadataStepKept ==
    ASSUME Kept, CreateMetadata \/ WriteMetadata PROVE Kept' /\ Stay
<1>0. Types /\ KeptInv
    BY DEF Kept
<1>1. /\ UNCHANGED <<tree, blobs, saves, id, todo, current, files, restored>>
      /\ \/ pc = "hash" /\ pc' = "metadata" /\ meta' = [meta EXCEPT ![id] = Torn]
         \/ pc = "metadata" /\ pc' = "idle" /\ meta' = [meta EXCEPT ![id] = files]
    BY DEF CreateMetadata, WriteMetadata
<1>2. /\ id \in Ids /\ id \notin Committed /\ id <= saves
      /\ \A f \in DOMAIN files : blobs[id][files[f]] # Gone
    BY <1>0, <1>1, StoreAssumption DEF Types, Ids, KeptInv, Saving
<1>3. PICK m \in {Torn, files} :
        /\ DOMAIN meta' = Ids /\ \A i \in Ids : meta'[i] = IF i = id THEN m ELSE meta[i]
        /\ pc' # "idle" => m = Torn
    BY <1>0, <1>1, <1>2 DEF Types
<1>4. /\ \A i \in Committed : meta'[i] = meta[i] /\ i \in Committed'
      /\ Committed' \subseteq Committed \cup {id} /\ Committed \subseteq Ids
      /\ id \in Committed' => m = files
    BY <1>2, <1>3 DEF Committed
<1>5. Types'
    <2>1. files \in Maps
        BY <1>0 DEF Types
    <2>2. \A i \in Committed' : meta'[i] \in Maps
        BY <1>0, <1>2, <1>3, <1>4, <2>1 DEF Types
    <2>3. DOMAIN meta' = Ids /\ meta' = [i \in Ids |-> meta'[i]]
        BY <1>0, <1>1, <1>3 DEF Types
    <2> QED BY <1>0, <1>1, <1>4, <2>2, <2>3 DEF Types, Saving
<1>6. KeptInv'
    <2>1. \A i \in Ids : i > saves => meta'[i] = Gone
        BY <1>0, <1>2, <1>3, StoreAssumption DEF KeptInv, Ids, Types
    <2>2. pc' \in Saving => id \notin Committed'
        BY <1>1, <1>3 DEF Saving, Committed
    <2> QED BY <1>1, <1>2, <2>1, <2>2 DEF KeptInv
<1>7. BlobsExist'
    BY <1>1, <1>2, <1>3, <1>4 DEF Kept, BlobsExist
<1>8. RestoreGivesBlobs'
    <2>1. restored # 0 => restored \in Committed
        BY <1>0 DEF Types
    <2> QED BY <1>1, <1>4, <2>1 DEF Kept, RestoreGivesBlobs
<1>9. Stay
    BY <1>1, <1>4 DEF Stay
<1> QED BY <1>5, <1>6, <1>7, <1>8, <1>9 DEF Kept

LEMMA RestoreStepKept ==
    ASSUME Kept, StartRestore \/ TruncateFile \/ WriteFile \/ EndRestore PROVE Kept' /\ Stay
<1>0. Types /\ KeptInv /\ BlobsExist /\ RestoreGivesBlobs
    BY DEF Kept
<1>1. UNCHANGED <<blobs, meta, saves, files>> /\ Committed' = Committed
    BY SameDirectories DEF StartRestore, TruncateFile, WriteFile, EndRestore
<1>2. BlobsExist' /\ Stay
    BY <1>0, <1>1 DEF BlobsExist, Stay
<1>3. CASE StartRestore
    <2>1. pc' = "open" /\ restored' = 0 /\ UNCHANGED <<tree, current>>
        BY <1>3 DEF StartRestore
    <2>2. id' \in Committed /\ todo' = DOMAIN meta[id'] /\ meta[id'] \in Maps
        BY <1>0, <1>3 DEF StartRestore, Types
    <2>3. id' \in 1..saves
        BY <1>0, <2>2, StoreAssumption DEF KeptInv, Types, Ids, Committed
    <2>4. todo' \in SUBSET Files
        BY <2>2, MapsFacts
    <2>5. Types'
        BY <1>0, <1>1, <2>1, <2>3, <2>4 DEF Types
    <2>6. KeptInv' /\ RestoreGivesBlobs'
        BY <1>0, <1>1, <2>1, <2>2 DEF KeptInv, RestoreGivesBlobs, Saving
    <2> QED BY <1>2, <2>5, <2>6 DEF Kept
<1>4. CASE TruncateFile
    <2>1. pc = "open" /\ pc' = "write" /\ UNCHANGED <<id, todo, restored>>
        BY <1>4 DEF TruncateFile
    <2>2. PICK f \in todo : tree' = [tree EXCEPT ![f] = Empty] /\ current' = {f}
        BY <1>4 DEF TruncateFile
    <2>3. Types'
        BY <1>0, <1>1, <2>1, <2>2, StoreAssumption DEF Types
    <2>4. /\ restored = 0 /\ id \in Committed /\ todo \subseteq DOMAIN meta[id]
          /\ \A g \in DOMAIN meta[id] \ todo : tree[g] = blobs[id][meta[id][g]]
        BY <1>0, <2>1 DEF KeptInv
    <2>5. \A g \in DOMAIN meta[id] \ todo : g \in Files /\ tree'[g] = tree[g]
        BY <1>0, <2>2, <2>4, MapsFacts DEF Types
    <2>6. KeptInv' /\ RestoreGivesBlobs'
        BY <1>0, <1>1, <2>1, <2>2, <2>4, <2>5 DEF KeptInv, RestoreGivesBlobs, Saving
    <2> QED BY <1>2, <2>3, <2>6 DEF Kept
<1>5. CASE WriteFile
    <2>1. pc = "write" /\ pc' = "open" /\ current' = {} /\ UNCHANGED <<id, restored>>
        BY <1>5 DEF WriteFile
    <2>2. /\ restored = 0 /\ id \in Committed /\ todo \subseteq DOMAIN meta[id]
          /\ \A g \in DOMAIN meta[id] \ todo : tree[g] = blobs[id][meta[id][g]]
          /\ \E f \in todo : current = {f}
        BY <1>0, <2>1 DEF KeptInv
    <2>3. PICK f \in todo : current = {f}
        BY <2>2
    <2>4. tree' = [tree EXCEPT ![f] = blobs[id][meta[id][f]]] /\ todo' = todo \ {f}
        BY <1>5, <2>3 DEF WriteFile
    <2>5. meta[id] \in Maps /\ DOMAIN meta[id] \subseteq Files /\ f \in DOMAIN meta[id] /\ f \in Files
        BY <1>0, <2>2, MapsFacts DEF Types
    <2>6. meta[id][f] \in Contents /\ id \in Ids
        BY <2>2, <2>5, MapsFacts DEF Committed
    <2>7. blobs[id][meta[id][f]] \in Contents
        <3>1. blobs[id][meta[id][f]] \in Contents \cup {Gone}
            BY <1>0, <2>6 DEF Types
        <3>2. blobs[id][meta[id][f]] # Gone
            BY <1>0, <2>2, <2>5 DEF BlobsExist
        <3> QED BY <3>1, <3>2
    <2>8. Types'
        BY <1>0, <1>1, <2>1, <2>4, <2>5, <2>7 DEF Types
    <2>9. \A g \in DOMAIN meta[id] \ todo' : tree'[g] = blobs[id][meta[id][g]]
        BY <1>0, <2>2, <2>4, <2>5 DEF Types
    <2>10. KeptInv' /\ RestoreGivesBlobs'
        BY <1>0, <1>1, <2>1, <2>2, <2>4, <2>9 DEF KeptInv, RestoreGivesBlobs, Saving
    <2> QED BY <1>2, <2>8, <2>10 DEF Kept
<1>6. CASE EndRestore
    <2>1. /\ pc = "open" /\ todo = {} /\ pc' = "idle" /\ restored' = id
          /\ UNCHANGED <<tree, id, todo, current>>
        BY <1>6 DEF EndRestore
    <2>2. id \in Committed /\ \A g \in DOMAIN meta[id] : tree[g] = blobs[id][meta[id][g]]
        BY <1>0, <2>1 DEF KeptInv
    <2>3. Types'
        BY <1>0, <1>1, <2>1, <2>2 DEF Types
    <2>4. KeptInv' /\ RestoreGivesBlobs'
        BY <1>0, <1>1, <2>1, <2>2 DEF KeptInv, RestoreGivesBlobs, Saving
    <2> QED BY <1>2, <2>3, <2>4 DEF Kept
<1> QED BY <1>3, <1>4, <1>5, <1>6

LEMMA NextKept == Kept /\ [Next]_vars => Kept' /\ Stay
<1> SUFFICES ASSUME Kept, [Next]_vars PROVE Kept' /\ Stay
    OBVIOUS
<1>0. Types /\ KeptInv
    BY DEF Kept
<1>1. CASE Edit
    <2>1. /\ UNCHANGED <<blobs, meta, saves, pc, id, todo, current, files>>
          /\ restored' = 0 /\ pc \in Saving \cup {"idle"}
          /\ tree' \in [Files -> Contents \cup {Gone}]
        BY <1>0, <1>1 DEF Edit, Types
    <2>2. todo' \in SUBSET Files /\ current' \in SUBSET Files /\ files' \in Maps
          /\ saves' \in 0..MaxSaves /\ saves <= saves'
        BY <1>0, <2>1, StoreAssumption DEF Types
    <2>3. CASE pc = "idle"
        <3>1. pc' = "idle" /\ UNCHANGED <<blobs, meta, saves, files>>
            BY <2>1, <2>3
        <3> QED BY <2>1, <2>2, <3>1, RestKept
    <2>4. CASE pc \in Saving
        <3>1. id' \in 1..saves' /\ id' \notin Committed
            BY <1>0, <2>1, <2>4 DEF Types, KeptInv, Saving
        <3>2. /\ pc' \in {"hash", "metadata"} => \A f \in DOMAIN files' : blobs[id'][files'[f]] # Gone
              /\ pc' \in {"create", "copy"} =>
                  \E c \in DOMAIN files' :
                    /\ current' = {c}
                    /\ \A f \in DOMAIN files' : files'[f] = files'[c] \/ blobs[id'][files'[f]] # Gone
            BY <1>0, <2>1 DEF KeptInv
        <3> QED BY <2>1, <2>2, <2>4, <3>1, <3>2, SaveKept
    <2> QED BY <2>1, <2>3, <2>4
<1>2. CASE Fail
    <2>1. /\ pc' = "idle" /\ current' = {}
          /\ UNCHANGED <<tree, blobs, meta, saves, todo, files, restored>>
        BY <1>2 DEF Fail
    <2>2. todo' \in SUBSET Files
        BY <1>0, <2>1 DEF Types
    <2> QED BY <2>1, <2>2, RestKept
<1>3. CASE UNCHANGED vars
    <2>1. UNCHANGED <<tree, blobs, meta, saves, pc, id, todo, current, files, restored>>
        BY <1>3 DEF vars
    <2>2. Committed' = Committed
        BY <2>1, SameDirectories
    <2>3. Types'
        BY <1>0, <2>1, <2>2 DEF Types
    <2>4. KeptInv'
        BY <1>0, <2>1, <2>2 DEF KeptInv
    <2>5. BlobsExist' /\ RestoreGivesBlobs' /\ Stay
        BY <2>1, <2>2 DEF Kept, BlobsExist, RestoreGivesBlobs, Stay
    <2> QED BY <2>3, <2>4, <2>5 DEF Kept
<1> QED BY <1>1, <1>2, <1>3, SaveStepKept, MetadataStepKept, RestoreStepKept DEF Next

\* What holds of the store's files whoever else writes to the tree while Save copies it.
THEOREM KeptInvariance == Spec => []Kept
BY InitKept, NextKept, PTL DEF Spec

\* What Save and Restore leave behind, whenever they are cut short and whoever else
\* writes to the tree, are files that are missing, torn or whole, of Saves that were begun.
THEOREM TypeCorrect == Spec => []TypeOK
<1>1. Kept => TypeOK
    <2>1. \A i \in Ids : i \in Committed \/ meta[i] \in {Gone, Torn}
        BY DEF Committed
    <2>2. ASSUME Kept, NEW i \in Ids PROVE meta[i] \in Maps \cup {Gone, Torn}
        BY <2>1, <2>2 DEF Kept, Types
    <2> QED BY <2>2 DEF Kept, Types, TypeOK
<1> QED BY <1>1, KeptInvariance, PTL

\* A checkpoint that can be read is never taken away nor changed.
THEOREM CheckpointsStayAlways == Spec => CheckpointsStay
<1>1. Kept /\ [Next]_vars => [\A i \in Committed : meta'[i] = meta[i] /\ blobs'[i] = blobs[i]]_vars
    BY NextKept DEF Stay
<1> QED BY <1>1, KeptInvariance, PTL DEF Spec, CheckpointsStay

\* Restore never fails for want of a blob, and one that returns nil has put back what
\* the blobs hold.
THEOREM BlobsAreRestoredAlways == Spec => [](BlobsExist /\ RestoreGivesBlobs)
<1>1. Kept => BlobsExist /\ RestoreGivesBlobs
    BY DEF Kept
<1> QED BY <1>1, KeptInvariance, PTL
=============================================================================
