-------------------------- MODULE SnapshotManager --------------------------
(* The snapshot manager of a node (internal/snapshot): full and incremental  *)
(* snapshots of containers, kept as an encrypted data file and a metadata    *)
(* file each, with limits per container and in total, expiry, export and     *)
(* import, key rotation, and the index rebuilt from disk at a restart.       *)
(*                                                                           *)
(* A container's state is a sequence of blocks. A snapshot is known by the   *)
(* number of the call that made it, which also orders the creation times.    *)
EXTENDS Integers, Sequences, FiniteSets, SequencesExt, FiniteSetsExt

CONSTANTS Containers,
          States,          \* the states a container can be in, block sequences
          Keys,            \* the master keys a provider can hold
          MaxSnapshots, MaxTotalSize,
          Nothing,         \* no data, no key, no answer
          MaxCalls, MaxRestarts, MaxImports

VARIABLES snapshots,       \* the index: container -> sequence of snapshots
          totalSize,
          blockHashes,     \* container -> the state hashed last, or Nothing
          key,             \* the provider's master key
          files,           \* data files: snapshot number -> [key, blocks]
          exported,        \* what ExportSnapshot last wrote
          calls, restarts, imports,
          spoiled          \* snapshots whose file another operation may have lost

snapshotVars ==
  <<snapshots, totalSize, blockHashes, key, files, exported, calls, restarts, imports,
    spoiled>>

Numbers == 1 .. MaxCalls

(* AES-GCM adds a nonce and a tag, so that no data file is empty.           *)
StoredSize(blocks) == 1 + Cardinality(DOMAIN blocks)

Listed == UNION {Range(snapshots[c]) : c \in Containers}

(* GetSnapshot: the index entry of a number.                                *)
GetSnapshot(n) == CHOOSE s \in Listed : s.id = n

IsListed(n) == \E s \in Listed : s.id = n

(* computeDelta: the blocks of the new state that have no equal hash at     *)
(* their offset in the old one. Nothing tells that the state has shrunk.    *)
ComputeDelta(old, new) ==
  [i \in {j \in DOMAIN new : j \notin DOMAIN old \/ old[j] # new[j]} |-> new[i]]

(* applyDelta: the base, extended where a changed block lies beyond it.     *)
ApplyDelta(base, delta) ==
  [i \in DOMAIN base \cup DOMAIN delta |-> IF i \in DOMAIN delta THEN delta[i] ELSE base[i]]

-----------------------------------------------------------------------------
(* enforceLimit, called before a snapshot is made: the container's oldest   *)
(* snapshots go until there is room for one more, then the oldest of all    *)
(* until the total is below the limit. Files go with them.                  *)
Oldest(set) == CHOOSE s \in set : \A t \in set : s.id <= t.id

DropOldestOf(index, c) ==
  [index EXCEPT ![c] = LET s == Oldest(Range(@))
                           i == CHOOSE j \in DOMAIN @ : @[j] = s /\ \A k \in 1 .. j - 1 : @[k] # s
                       IN RemoveAt(@, i)]

SizeOf(index) ==
  MapThenSumSet(LAMBDA c : FoldSeq(LAMBDA s, n : n + s.stored, 0, index[c]), Containers)

WithinCount(index, c) ==
  LET shrink[n \in 0 .. Len(index[c])] ==
        IF n = 0 THEN index ELSE DropOldestOf(shrink[n - 1], c)
      excess == Len(index[c]) - MaxSnapshots + 1
  IN shrink[IF excess > 0 THEN excess ELSE 0]

Holder(index) ==
  CHOOSE c \in Containers :
    /\ index[c] # <<>>
    /\ \A d \in Containers : index[d] # <<>> => Oldest(Range(index[c])).id <= Oldest(Range(index[d])).id

(* The running total once the entries missing from an index are taken off.  *)
TotalFor(index) == totalSize - (SizeOf(snapshots) - SizeOf(index))

WithinTotal(index) ==
  LET count == MapThenSumSet(LAMBDA c : Len(index[c]), Containers)
      shrink[n \in 0 .. count] ==
        IF n = 0 THEN index ELSE LET i == shrink[n - 1] IN DropOldestOf(i, Holder(i))
      enough == {n \in 0 .. count : TotalFor(shrink[n]) < MaxTotalSize \/ n = count}
  IN shrink[Min(enough)]

EnforceLimit(c) == WithinTotal(WithinCount(snapshots, c))

(* What the index no longer lists has lost its data file; a snapshot that   *)
(* was imported twice loses it with the first of its two entries.           *)
Removed(index) ==
  {n \in Numbers : \E c \in Containers :
     Cardinality({i \in DOMAIN snapshots[c] : snapshots[c][i].id = n}) >
     Cardinality({i \in DOMAIN index[c] : index[c][i].id = n})}

Without(index) == [n \in Numbers |-> IF n \in Removed(index) THEN Nothing ELSE files[n]]

-----------------------------------------------------------------------------
Init ==
  /\ snapshots = [c \in Containers |-> <<>>]
  /\ totalSize = 0
  /\ blockHashes = [c \in Containers |-> Nothing]
  /\ key \in Keys
  /\ files = [n \in Numbers |-> Nothing]
  /\ exported = Nothing
  /\ calls = 0 /\ restarts = 0 /\ imports = 0
  /\ spoiled = {}

(* The incremental case of CreateSnapshot: a delta against the hashes of    *)
(* the state seen last, chained to the last entry of the index, unless      *)
(* there is no such entry, there are no hashes, or more than half changed.  *)
Chained(index, c, state) ==
  /\ index[c] # <<>>
  /\ blockHashes[c] # Nothing
  /\ 2 * Cardinality(DOMAIN ComputeDelta(blockHashes[c], state)) <= Len(state)

Entry(index, c, state, incremental) ==
  IF incremental /\ Chained(index, c, state)
  THEN [id |-> calls + 1, checksum |-> state, parent |-> Last(index[c]).id,
        against |-> blockHashes[c],
        stored |-> StoredSize(ComputeDelta(blockHashes[c], state))]
  ELSE [id |-> calls + 1, checksum |-> state, parent |-> 0, against |-> Nothing,
        stored |-> StoredSize(state)]

(* CreateSnapshot makes room, hashes the state, writes the data file, then  *)
(* the metadata file, then enters the snapshot in the index. A write that   *)
(* fails ends it there: what was evicted is gone, the hashes are new.       *)
CreateSnapshot(c, state, incremental, fault) ==
  LET index == EnforceLimit(c)
      new == Entry(index, c, state, incremental)
      blocks == IF new.parent = 0 THEN state ELSE ComputeDelta(new.against, state)
  IN /\ calls < MaxCalls
     /\ calls' = calls + 1
     /\ blockHashes' = [blockHashes EXCEPT ![c] = state]
     /\ files' = IF fault = "data" THEN Without(index)
                 ELSE [Without(index) EXCEPT ![new.id] = [key |-> key, blocks |-> blocks]]
     /\ snapshots' = IF fault = "none" THEN [index EXCEPT ![c] = Append(@, new)] ELSE index
     /\ totalSize' = TotalFor(index) + (IF fault = "none" THEN new.stored ELSE 0)
     /\ UNCHANGED <<key, exported, restarts, imports, spoiled>>

(* DeleteSnapshot: the first entry with that number, and its files.         *)
DeleteSnapshot(c, i) ==
  /\ i \in DOMAIN snapshots[c]
  /\ \A j \in 1 .. i - 1 : snapshots[c][j].id # snapshots[c][i].id
  /\ snapshots' = [snapshots EXCEPT ![c] = RemoveAt(@, i)]
  /\ files' = [files EXCEPT ![snapshots[c][i].id] = Nothing]
  /\ totalSize' = totalSize - snapshots[c][i].stored
  /\ UNCHANGED <<blockHashes, key, exported, calls, restarts, imports, spoiled>>

(* DeleteContainerSnapshots also forgets the hashes.                        *)
DeleteContainerSnapshots(c) ==
  /\ snapshots[c] # <<>> \/ blockHashes[c] # Nothing
  /\ snapshots' = [snapshots EXCEPT ![c] = <<>>]
  /\ files' = Without(snapshots')
  /\ totalSize' = TotalFor(snapshots')
  /\ blockHashes' = [blockHashes EXCEPT ![c] = Nothing]
  /\ UNCHANGED <<key, exported, calls, restarts, imports, spoiled>>

(* CleanupExpired: everything made before the cutoff.                       *)
CleanupExpired(cutoff) ==
  /\ \E s \in Listed : s.id < cutoff
  /\ snapshots' = [c \in Containers |-> SelectSeq(snapshots[c], LAMBDA s : s.id >= cutoff)]
  /\ files' = Without(snapshots')
  /\ totalSize' = TotalFor(snapshots')
  /\ UNCHANGED <<blockHashes, key, exported, calls, restarts, imports, spoiled>>

(* ExportSnapshot writes the entry and the data file as it is, encrypted.   *)
ExportSnapshot(n) ==
  /\ imports < MaxImports /\ IsListed(n) /\ files[n] # Nothing
  /\ exported' = [entry |-> GetSnapshot(n), file |-> files[n],
                  of |-> CHOOSE c \in Containers : GetSnapshot(n) \in Range(snapshots[c])]
  /\ UNCHANGED <<snapshots, totalSize, blockHashes, key, files, calls, restarts, imports, spoiled>>

(* ImportSnapshot enters it under the number it has, even if that number is *)
(* listed, and asks neither the limits nor the key.                         *)
ImportSnapshot ==
  /\ exported # Nothing
  /\ LET e == exported.entry
     IN /\ snapshots' = [snapshots EXCEPT ![exported.of] = Append(@, e)]
        /\ files' = [files EXCEPT ![e.id] = exported.file]
        /\ totalSize' = totalSize + e.stored
        /\ spoiled' = spoiled \cup {e.id}
  /\ exported' = Nothing /\ imports' = imports + 1
  /\ UNCHANGED <<blockHashes, key, calls, restarts>>

(* RotateEncryptionKey goes over the index file by file and swaps the key   *)
(* last. It stops at a file it cannot read with the old key (missing, or    *)
(* converted already) and at one it cannot write, which may be left torn.   *)
Unreadable == {s.id : s \in {t \in Listed : files[t.id] = Nothing \/ files[t.id].key # key}}

ListedTwice == {n \in Numbers : \E c \in Containers :
                  Cardinality({i \in DOMAIN snapshots[c] : snapshots[c][i].id = n}) > 1}

Reencrypted(done, k) ==
  [n \in Numbers |-> IF n \in done THEN [files[n] EXCEPT !.key = k] ELSE files[n]]

RotateEncryptionKey(k) ==
  /\ k # key /\ Unreadable = {} /\ ListedTwice = {}
  /\ files' = Reencrypted({s.id : s \in Listed}, k)
  /\ key' = k
  /\ UNCHANGED <<snapshots, totalSize, blockHashes, exported, calls, restarts, imports, spoiled>>

AbortRotation(k, done, torn) ==
  /\ k # key
  /\ done \cap Unreadable = {} /\ torn \cap (Unreadable \cup done) = {}
  /\ done \cup torn # {} /\ Cardinality(torn) <= 1
  /\ torn = {} => Unreadable \cup ListedTwice # {} \/ done # {s.id : s \in Listed}
  /\ files' = [n \in Numbers |-> IF n \in torn THEN Nothing ELSE Reencrypted(done, k)[n]]
  /\ spoiled' = spoiled \cup done \cup torn
  /\ UNCHANGED <<snapshots, totalSize, blockHashes, key, exported, calls, restarts, imports>>

(* A restart: loadSnapshots lists the metadata files in the order of their  *)
(* names, which are hashes, and no state has been hashed yet.               *)
Restart(order) ==
  /\ restarts < MaxRestarts
  /\ restarts' = restarts + 1
  /\ snapshots' = [c \in Containers |->
                     LET ids == {s.id : s \in Range(snapshots[c])}
                     IN SelectSeq([i \in DOMAIN order |-> IF order[i] \in ids
                                     THEN GetSnapshot(order[i]) ELSE [id |-> 0]],
                                  LAMBDA s : s.id # 0)]
  /\ totalSize' = SizeOf(snapshots')
  /\ blockHashes' = [c \in Containers |-> Nothing]
  /\ UNCHANGED <<key, files, exported, calls, imports, spoiled>>

Next ==
  \/ \E c \in Containers, state \in States, incremental \in BOOLEAN,
        fault \in {"none", "data", "meta"} : CreateSnapshot(c, state, incremental, fault)
  \/ \E c \in Containers, i \in 1 .. MaxCalls : DeleteSnapshot(c, i)
  \/ \E c \in Containers : DeleteContainerSnapshots(c)
  \/ \E cutoff \in Numbers : CleanupExpired(cutoff)
  \/ \E n \in Numbers : ExportSnapshot(n)
  \/ ImportSnapshot
  \/ \E k \in Keys : RotateEncryptionKey(k)
  \/ \E k \in Keys, done, torn \in SUBSET {s.id : s \in Listed} : AbortRotation(k, done, torn)
  \/ \E order \in SetToSeqs(Numbers) : Restart(order)

Spec == Init /\ [][Next]_snapshotVars
-----------------------------------------------------------------------------
(* Mutant: the checksum is not compared. *)
Unverified(data, checksum) == data

(* getSnapshotDataInternal: read, decrypt, take the delta to the parent's   *)
(* state if there is a parent, and compare with the checksum.               *)
Verified(data, checksum) == IF data = checksum THEN data ELSE Nothing

GetSnapshotData ==
  LET read[n \in 0 .. MaxCalls] ==
        IF n = 0 \/ ~IsListed(n) THEN Nothing
        ELSE IF files[n] = Nothing THEN Nothing
        ELSE IF files[n].key # key THEN Nothing
        ELSE LET s == GetSnapshot(n)
             IN IF s.parent = 0 THEN Verified(files[n].blocks, s.checksum)
                ELSE IF read[s.parent] = Nothing THEN Nothing
                ELSE Verified(ApplyDelta(read[s.parent], files[n].blocks), s.checksum)
  IN read

(* Reading a snapshot gives the state it was made of, or an error: never    *)
(* another state, whatever was evicted, lost or deleted under its chain.    *)
AnswersTrue ==
  \A s \in Listed : GetSnapshotData[s.id] \in {Nothing, s.checksum}

(* A listed full snapshot can be read, unless an import or a rotation that  *)
(* stopped half way touched its file. An incremental one can be read if its *)
(* parent can, the delta was taken against the parent's state, and the      *)
(* state did not shrink.                                                    *)
ListedIsReadable ==
  \A s \in Listed :
    \/ s.id \in spoiled
    \/ /\ s.parent # 0
       /\ \/ GetSnapshotData[s.parent] # s.against
          \/ Len(s.checksum) < Len(s.against)
    \/ GetSnapshotData[s.id] = s.checksum

(* The running total is what the listed snapshots take, and only an import  *)
(* or the one snapshot just made brings it, or a container, past a limit.   *)
LimitsKept ==
  /\ totalSize = SizeOf(snapshots)
  /\ spoiled = {} =>
       /\ \A c \in Containers : Len(snapshots[c]) <= MaxSnapshots
       /\ \E largest \in {0} \cup {s.stored : s \in Listed} : totalSize < MaxTotalSize + largest

SnapshotsSound == AnswersTrue /\ ListedIsReadable /\ LimitsKept
=============================================================================
