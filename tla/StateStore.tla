----------------------------- MODULE StateStore -----------------------------
(* The state database of a node (internal/state): values kept in bbolt under *)
(* the key of state.key, key rotation bucket by bucket, and the import of    *)
(* the JSON files of earlier versions when the daemon starts.                *)
(*                                                                           *)
(* put, get, del and list hold keyMu for reading throughout and are one      *)
(* transaction each; RotateKey holds it for writing, and is cut at its       *)
(* transactions. A stored value is what it holds and the key it is sealed    *)
(* with, Nothing for a value in the clear.                                   *)
EXTENDS Integers, Sequences, FiniteSets, SequencesExt

CONSTANTS Names,           \* the buckets, in the order RotateKey visits them
          Ids,             \* keys of values
          Values,
          EncKeys,         \* 32-byte keys
          Nothing,
          MaxPuts, MaxStarts

VARIABLES db,              \* bucket, id -> stored value, or Nothing
          truth,           \* bucket, id -> the value put last, or Nothing
          encKey,          \* the active key in memory; Nothing: encryption is off
          keyFile,         \* contents of state.key, or Nothing
          rotation,        \* RotateKey in progress, or Nothing
          daemon,          \* how far the start of the daemon has come
          legacy,          \* deployments of state.json, or Nothing when there is no such file
          version,         \* the schema version is current
          puts, starts,
          stranded         \* values may be under a key other than that of state.key

stateVars == <<db, truth, encKey, keyFile, rotation, daemon, legacy, version, puts, starts,
               stranded>>

Places == Range(Names) \X Ids

Sealed(key, v, magic) == [key |-> key, value |-> v, magic |-> IF key = Nothing THEN 0 ELSE magic]

(* decodeWithKey: the value, "error" when it is sealed with another key,    *)
(* and the raw bytes when encryption is off.                                *)
Decode(key, stored) ==
  IF stored = Nothing THEN Nothing
  ELSE IF stored.key = Nothing THEN stored.value
  ELSE IF key = Nothing THEN "raw"
  ELSE IF stored.key = key THEN stored.value ELSE "error"

(* A node that upgrades: JSON files and no database, or a database with     *)
(* values in the clear or under the first magic.                            *)
Init ==
  /\ keyFile = Nothing /\ encKey = Nothing /\ rotation = Nothing
  /\ daemon = "down"
  /\ \/ /\ db = [p \in Places |-> Nothing] /\ truth = [p \in Places |-> Nothing]
        /\ version = FALSE
        /\ legacy \in [Ids -> Values \cup {Nothing}] \cup {Nothing}
     \/ /\ version = TRUE /\ legacy = Nothing
        /\ truth \in [Places -> Values \cup {Nothing}]
        /\ db = [p \in Places |-> IF truth[p] = Nothing THEN Nothing ELSE Sealed(Nothing, truth[p], 0)]
  /\ puts = 0 /\ starts = 0
  /\ stranded = FALSE

-----------------------------------------------------------------------------
(* The daemon starts: LoadOrCreateStateKey unless encryption is disabled,   *)
(* then the database is opened with its key.                                *)
Start(encrypt, fresh) ==
  LET key == IF ~encrypt THEN Nothing ELSE IF keyFile = Nothing THEN fresh ELSE keyFile
  IN /\ daemon = "down" /\ starts < MaxStarts
     /\ encKey' = key
     /\ keyFile' = IF encrypt /\ keyFile = Nothing THEN fresh ELSE keyFile
     /\ daemon' = IF version THEN "up" ELSE "import"
     /\ starts' = starts + 1
     /\ UNCHANGED <<db, truth, rotation, legacy, version, puts, stranded>>

(* The process ends at any point; what is committed stays.                  *)
Stop ==
  /\ daemon # "down"
  /\ daemon' = "down" /\ encKey' = Nothing /\ rotation' = Nothing
  /\ stranded' = (stranded \/ (rotation # Nothing /\ rotation.to # encKey))
  /\ UNCHANGED <<db, truth, keyFile, legacy, version, puts, starts>>

-----------------------------------------------------------------------------
(* MigrateFromJSON, before anything else uses the store: one put for each   *)
(* deployment of state.json, then the file is renamed, then the version     *)
(* set. A put that fails leaves the file where it is and goes on.           *)
Deployments == Names[1]

Imported(i) == db[<<Deployments, i>>] # Nothing /\ Decode(encKey, db[<<Deployments, i>>]) = legacy[i]

ImportOne(i) ==
  /\ daemon = "import" /\ legacy # Nothing
  /\ legacy[i] # Nothing /\ ~Imported(i)
  /\ db' = [db EXCEPT ![<<Deployments, i>>] = Sealed(encKey, legacy[i], 2)]
  /\ truth' = [truth EXCEPT ![<<Deployments, i>>] = legacy[i]]
  /\ UNCHANGED <<encKey, keyFile, rotation, daemon, legacy, version, puts, starts, stranded>>

(* The file renamed before its deployments are in the database.             *)
ImportDoneFirst ==
  /\ daemon = "import" /\ legacy # Nothing
  /\ legacy' = Nothing
  /\ UNCHANGED <<db, truth, encKey, keyFile, rotation, daemon, version, puts, starts, stranded>>

ImportDone ==
  /\ daemon = "import" /\ legacy # Nothing
  /\ \A i \in Ids : legacy[i] # Nothing => Imported(i)
  /\ legacy' = Nothing
  /\ UNCHANGED <<db, truth, encKey, keyFile, rotation, daemon, version, puts, starts, stranded>>

ImportFails ==
  /\ daemon = "import" /\ legacy # Nothing
  /\ daemon' = "imported"
  /\ UNCHANGED <<db, truth, encKey, keyFile, rotation, legacy, version, puts, starts, stranded>>

SetSchemaVersion ==
  /\ \/ daemon = "import" /\ legacy = Nothing
     \/ daemon = "imported"
  /\ version' = TRUE
  /\ daemon' = "up"
  /\ UNCHANGED <<db, truth, encKey, keyFile, rotation, legacy, puts, starts, stranded>>

-----------------------------------------------------------------------------
Unlocked == daemon = "up" /\ rotation = Nothing

Put(p, v) ==
  /\ Unlocked /\ puts < MaxPuts
  /\ puts' = puts + 1
  /\ db' = [db EXCEPT ![p] = Sealed(encKey, v, 2)]
  /\ truth' = [truth EXCEPT ![p] = v]
  /\ UNCHANGED <<encKey, keyFile, rotation, daemon, legacy, version, starts, stranded>>


Del(p) ==
  /\ Unlocked /\ puts < MaxPuts
  /\ puts' = puts + 1
  /\ db' = [db EXCEPT ![p] = Nothing]
  /\ truth' = [truth EXCEPT ![p] = Nothing]
  /\ UNCHANGED <<encKey, keyFile, rotation, daemon, legacy, version, starts, stranded>>

-----------------------------------------------------------------------------
(* RotateKey: each bucket is read whole, re-encrypted, and written back in  *)
(* another transaction; the key is swapped after the last. Values in the    *)
(* clear are left alone.                                                    *)
RotateKey(key) ==
  /\ Unlocked /\ encKey # Nothing
  /\ rotation' = [to |-> key, next |-> 1, rewrites |-> Nothing]
  /\ UNCHANGED <<db, truth, encKey, keyFile, daemon, legacy, version, puts, starts, stranded>>

Rewritten(b) ==
  [i \in {j \in Ids : db[<<b, j>>] # Nothing /\ db[<<b, j>>].key # Nothing} |->
     Sealed(rotation.to, Decode(encKey, db[<<b, i>>]), 2)]

RotateFails ==
  /\ rotation' = Nothing
  /\ stranded' = (stranded \/ rotation.to # encKey)
  /\ UNCHANGED <<db, truth, encKey, keyFile, daemon, legacy, version, puts, starts>>

(* A value that does not decrypt ends the sweep, and so does its context.   *)
ReadBucket ==
  /\ rotation # Nothing /\ rotation.rewrites = Nothing /\ rotation.next <= Len(Names)
  /\ LET b == Names[rotation.next] IN
     IF \E i \in Ids : Decode(encKey, db[<<b, i>>]) = "error" THEN RotateFails
     ELSE /\ rotation' = [rotation EXCEPT !.rewrites = Rewritten(b)]
          /\ UNCHANGED <<db, truth, encKey, keyFile, daemon, legacy, version, puts, starts, stranded>>

WriteBucket ==
  /\ rotation # Nothing /\ rotation.rewrites # Nothing
  /\ db' = [p \in Places |-> IF p[1] = Names[rotation.next] /\ p[2] \in DOMAIN rotation.rewrites
                             THEN rotation.rewrites[p[2]] ELSE db[p]]
  /\ rotation' = [rotation EXCEPT !.next = @ + 1, !.rewrites = Nothing]
  /\ UNCHANGED <<truth, encKey, keyFile, daemon, legacy, version, puts, starts, stranded>>

RotateCut ==
  /\ rotation # Nothing
  /\ RotateFails

SwapKey ==
  /\ rotation # Nothing /\ rotation.next > Len(Names)
  /\ encKey' = rotation.to
  /\ stranded' = (stranded \/ rotation.to # keyFile)
  /\ rotation' = Nothing
  /\ UNCHANGED <<db, truth, keyFile, daemon, legacy, version, puts, starts>>

Next ==
  \/ \E e \in BOOLEAN, k \in EncKeys : Start(e, k)
  \/ Stop
  \/ \E i \in Ids : ImportOne(i)
  \/ ImportDone \/ ImportFails \/ SetSchemaVersion
  \/ \E p \in Places : Del(p) \/ \E v \in Values : Put(p, v)
  \/ \E k \in EncKeys : RotateKey(k)
  \/ ReadBucket \/ WriteBucket \/ RotateCut \/ SwapKey

Spec == Init /\ [][Next]_stateVars

-----------------------------------------------------------------------------
(* get and list give the value put last, in every bucket and however far a  *)
(* sweep over the buckets has come, or an error; never another value and    *)
(* never one that was deleted. The error is possible only after a rotation  *)
(* to a key that is not the one of state.key.                               *)
ReadsTrue ==
  Unlocked /\ encKey # Nothing =>
    \A p \in Places :
      LET read == Decode(encKey, db[p]) IN
      \/ read = truth[p]
      \/ read = "error" /\ stranded

(* The sweep at the daemon's start, which passes the key in use, can be cut *)
(* anywhere without a value becoming unreadable.                            *)
SweepHarmless ==
  encKey # Nothing /\ ~stranded /\ (rotation = Nothing \/ rotation.to = encKey) =>
    \A p \in Places : Decode(encKey, db[p]) # "error"

(* Of every step: a deployment of state.json is in the database before the  *)
(* file is renamed, so that a crash at any point loses none.                *)
NothingLost ==
  legacy # Nothing /\ legacy' = Nothing =>
    \A i \in Ids : legacy[i] # Nothing => truth[<<Deployments, i>>] = legacy[i]

StateSound == ReadsTrue /\ SweepHarmless

(* What the comment on encMagic says: a partially rotated database is read  *)
(* safely, whichever key the rotation was to.                               *)
PartialReadable ==
  Unlocked /\ encKey # Nothing => \A p \in Places : Decode(encKey, db[p]) # "error"
=============================================================================
