---------------------------- MODULE ObjectStore ----------------------------
(* The object store of a provider (internal/storage: engine, metadata, REST  *)
(* handler and the usage meter it reports to). An object is a blob file and  *)
(* a metadata record, written one after the other without a lock; a request  *)
(* is a goroutine, cut where it reads or writes the database or the disk.    *)
(*                                                                           *)
(* A body is its size; two puts of one size are told apart by their number,  *)
(* as the key their blob is sealed with does.                                *)
EXTENDS Integers, Sequences, FiniteSets, SequencesExt, FiniteSetsExt, Folds

CONSTANTS Clients, Wallets, Buckets,
          Keys,            \* the keys of each bucket, in the order they sort
          Folder,          \* key -> the prefix the delimiter cuts from it, or Nothing
          Bodies,          \* sizes of bodies
          MaxObjectSize, MaxBuckets, PageSize,
          Encrypted,       \* the engine has an owner key store
          Nothing,
          MaxCalls, MaxFaults

VARIABLES buckets,         \* bucket -> its owner, or Nothing
          meta,            \* bucket, key -> metadata record, or Nothing
          blob,            \* bucket, key -> contents of the file, or Nothing
          call,            \* client -> the request it is in
          used,            \* wallet -> bytes the meter has on record
          answer,          \* what the last GetObject answered
          faults, calls,
          overlapped       \* objects two writers, a fault or a crash may have torn

storeVars == <<buckets, meta, blob, call, used, answer, faults, calls, overlapped>>

Objects == Buckets \X Range(Keys)

Idle == [op |-> "idle"]

Init ==
  /\ buckets = [b \in Buckets |-> Nothing]
  /\ meta = [o \in Objects |-> Nothing]
  /\ blob = [o \in Objects |-> Nothing]
  /\ call = [c \in Clients |-> Idle]
  /\ used = [w \in Wallets |-> 0]
  /\ answer = Nothing
  /\ faults = 0 /\ calls = 0
  /\ overlapped = {}

(* The database or the disk refuses a write.                                *)
Fault == faults < MaxFaults /\ faults' = faults + 1

Begin(c, request) ==
  /\ call[c].op = "idle"
  /\ calls < MaxCalls
  /\ calls' = calls + 1
  /\ call' = [call EXCEPT ![c] = request]

At(c, op, pc) == call[c].op = op /\ call[c].pc = pc

Goto(c, pc) == call' = [call EXCEPT ![c].pc = pc]

Return(c) == call' = [call EXCEPT ![c] = Idle]

(* The check that opens every request on a bucket: it is there and the      *)
(* wallet owns it.                                                          *)
Owns(w, b) == buckets[b] = w

-----------------------------------------------------------------------------
(* CreateBucket: the name must be free, the wallet below its limit; then    *)
(* the record is written, whatever has been written since.                  *)
OwnedBy(w) == {b \in Buckets : buckets[b] = w}

CreateBucket(c, w, b) ==
  /\ buckets[b] = Nothing
  /\ Begin(c, [op |-> "create", pc |-> "count", wallet |-> w, bucket |-> b])
  /\ UNCHANGED <<buckets, meta, blob, used, answer, faults, overlapped>>

CountBuckets(c) ==
  /\ At(c, "create", "count")
  /\ IF Cardinality(OwnedBy(call[c].wallet)) >= MaxBuckets THEN Return(c) ELSE Goto(c, "put")
  /\ UNCHANGED <<buckets, meta, blob, used, answer, faults, calls, overlapped>>

PutBucket(c) ==
  /\ At(c, "create", "put")
  /\ buckets' = [buckets EXCEPT ![call[c].bucket] = call[c].wallet]
  /\ Return(c)
  /\ UNCHANGED <<meta, blob, used, answer, faults, calls, overlapped>>

(* DeleteBucket: an owner's bucket without objects.                         *)
DeleteBucket(c, w, b) ==
  /\ Owns(w, b)
  /\ Begin(c, [op |-> "drop", pc |-> "count", bucket |-> b])
  /\ UNCHANGED <<buckets, meta, blob, used, answer, faults, overlapped>>

CountObjects(c) ==
  /\ At(c, "drop", "count")
  /\ IF \E k \in Range(Keys) : meta[call[c].bucket, k] # Nothing THEN Return(c) ELSE Goto(c, "drop")
  /\ UNCHANGED <<buckets, meta, blob, used, answer, faults, calls, overlapped>>

DropBucket(c) ==
  /\ At(c, "drop", "drop")
  /\ buckets' = [buckets EXCEPT ![call[c].bucket] = Nothing]
  /\ Return(c)
  /\ UNCHANGED <<meta, blob, used, answer, faults, calls, overlapped>>

-----------------------------------------------------------------------------
(* An object another request is writing or deleting, and the note that two  *)
(* writers of it have overlapped.                                           *)
Writers(o) == {c \in Clients : call[c].op \in {"put", "delete"} /\ call[c].object = o}

Overlap(o) == overlapped' = IF Writers(o) = {} THEN overlapped ELSE overlapped \cup {o}

(* PutObject: after the checks the body goes to a temporary file of the     *)
(* request's own, which is sealed there and renamed over the blob; the      *)
(* record follows, and the meter.                                           *)
PutObject(c, w, o, body) ==
  /\ Owns(w, o[1])
  /\ Begin(c, [op |-> "put", pc |-> "copy", wallet |-> w, object |-> o, body |-> body,
               id |-> calls + 1, temp |-> Nothing])
  /\ Overlap(o)
  /\ UNCHANGED <<buckets, meta, blob, used, answer, faults>>

(* The put that streams into the file readers open.                         *)
CopyInPlace(c) ==
  /\ At(c, "put", "copy") /\ call[c].temp = Nothing
  /\ call' = [call EXCEPT ![c].temp = "partial"]
  /\ blob' = [blob EXCEPT ![call[c].object] = [body |-> 0, id |-> call[c].id]]
  /\ UNCHANGED <<buckets, meta, used, answer, faults, calls, overlapped>>

(* A body half copied, and all of it. A body that is too large, or whose    *)
(* connection breaks or file cannot be renamed, takes its file with it.     *)
CopyPart(c) ==
  /\ At(c, "put", "copy") /\ call[c].temp = Nothing
  /\ call' = [call EXCEPT ![c].temp = "partial"]
  /\ UNCHANGED <<buckets, meta, blob, used, answer, faults, calls, overlapped>>

CopyBody(c) ==
  /\ At(c, "put", "copy") /\ call[c].temp = "partial"
  /\ IF call[c].body > MaxObjectSize THEN Return(c)
     ELSE call' = [call EXCEPT ![c].temp = [body |-> call[c].body, id |-> call[c].id],
                               ![c].pc = "rename"]
  /\ UNCHANGED <<buckets, meta, blob, used, answer, faults, calls, overlapped>>

AbortCopy(c) ==
  /\ \/ At(c, "put", "copy") /\ call[c].temp = "partial"
     \/ At(c, "put", "rename")
  /\ Fault
  /\ Return(c)
  /\ UNCHANGED <<buckets, meta, blob, used, answer, calls, overlapped>>

RenameBlob(c) ==
  /\ At(c, "put", "rename")
  /\ blob' = [blob EXCEPT ![call[c].object] = call[c].temp]
  /\ Goto(c, "meta")
  /\ UNCHANGED <<buckets, meta, used, answer, faults, calls, overlapped>>

Record(c) ==
  [size |-> call[c].body, etag |-> call[c].body, owner |-> call[c].wallet,
   dek |-> IF Encrypted THEN call[c].id ELSE Nothing]

PutMetadata(c) ==
  /\ At(c, "put", "meta")
  /\ meta' = [meta EXCEPT ![call[c].object] = Record(c)]
  /\ Goto(c, "meter")
  /\ UNCHANGED <<buckets, blob, used, answer, faults, calls, overlapped>>

(* The record cannot be written: the blob is removed again, and with it the *)
(* one it has replaced.                                                     *)
PutMetadataFails(c) ==
  /\ At(c, "put", "meta")
  /\ Fault
  /\ blob' = [blob EXCEPT ![call[c].object] = Nothing]
  /\ overlapped' = overlapped \cup {call[c].object}
  /\ Return(c)
  /\ UNCHANGED <<buckets, meta, used, answer, calls>>

RecordStorageUpload(c) ==
  /\ At(c, "put", "meter")
  /\ used' = [used EXCEPT ![call[c].wallet] = @ + call[c].body]
  /\ Return(c)
  /\ UNCHANGED <<buckets, meta, blob, answer, faults, calls, overlapped>>

-----------------------------------------------------------------------------
(* DeleteObject: the record is read, the file removed, the record deleted;  *)
(* the meter is told of the size that was read first.                       *)
DeleteObject(c, w, o) ==
  /\ Owns(w, o[1])
  /\ Begin(c, [op |-> "delete", pc |-> "read", object |-> o, record |-> Nothing])
  /\ Overlap(o)
  /\ UNCHANGED <<buckets, meta, blob, used, answer, faults>>

ReadRecord(c) ==
  /\ At(c, "delete", "read")
  /\ IF meta[call[c].object] = Nothing THEN Return(c)
     ELSE call' = [call EXCEPT ![c].record = meta[call[c].object], ![c].pc = "blob"]
  /\ UNCHANGED <<buckets, meta, blob, used, answer, faults, calls, overlapped>>

RemoveBlob(c) ==
  /\ At(c, "delete", "blob")
  /\ blob' = [blob EXCEPT ![call[c].object] = Nothing]
  /\ Goto(c, "meta")
  /\ UNCHANGED <<buckets, meta, used, answer, faults, calls, overlapped>>

DeleteMetadata(c) ==
  /\ At(c, "delete", "meta")
  /\ meta' = [meta EXCEPT ![call[c].object] = Nothing]
  /\ Goto(c, "meter")
  /\ UNCHANGED <<buckets, blob, used, answer, faults, calls, overlapped>>

DeleteMetadataFails(c) ==
  /\ At(c, "delete", "meta")
  /\ Fault
  /\ overlapped' = overlapped \cup {call[c].object}
  /\ Return(c)
  /\ UNCHANGED <<buckets, meta, blob, used, answer, calls>>

RecordStorageDelete(c) ==
  /\ At(c, "delete", "meter")
  /\ used' = [used EXCEPT ![call[c].record.owner] = Max({0, @ - call[c].record.size})]
  /\ Return(c)
  /\ UNCHANGED <<buckets, meta, blob, answer, faults, calls, overlapped>>

-----------------------------------------------------------------------------
(* GetObject: the record, then the file. What is sealed opens only with the *)
(* key of the record. The answer is noted with the record it was given for. *)
GetObject(c, w, o) ==
  /\ Owns(w, o[1])
  /\ Begin(c, [op |-> "get", pc |-> "read", object |-> o, record |-> Nothing])
  /\ UNCHANGED <<buckets, meta, blob, used, answer, faults, overlapped>>

ReadForGet(c) ==
  /\ At(c, "get", "read")
  /\ IF meta[call[c].object] = Nothing THEN Return(c)
     ELSE call' = [call EXCEPT ![c].record = meta[call[c].object], ![c].pc = "open"]
  /\ UNCHANGED <<buckets, meta, blob, used, answer, faults, calls, overlapped>>

Decrypts(record, file) == record.dek \in {Nothing, file.id}

OpenBlob(c) ==
  LET file == blob[call[c].object]
      record == call[c].record
  IN /\ At(c, "get", "open")
     /\ answer' = IF file # Nothing /\ Decrypts(record, file)
                  THEN [object |-> call[c].object, etag |-> record.etag, body |-> file.body,
                        quiet |-> Writers(call[c].object) = {} /\ meta[call[c].object] = record]
                  ELSE answer
     /\ Return(c)
     /\ UNCHANGED <<buckets, meta, blob, used, faults, calls, overlapped>>

(* The process dies: requests and temporary files are forgotten, nothing is *)
(* repaired. The meter's records are in memory only.                        *)
Crash ==
  /\ Fault
  /\ overlapped' = overlapped \cup {o \in Objects : Writers(o) # {}}
  /\ call' = [c \in Clients |-> Idle]
  /\ used' = [w \in Wallets |-> 0]
  /\ UNCHANGED <<buckets, meta, blob, answer, calls>>

-----------------------------------------------------------------------------
(* ListObjects: the keys after the token, without those a delimiter folds   *)
(* into their prefix, cut at the page size; the token is the last key of    *)
(* the page.                                                                *)
Position(k) == CHOOSE i \in DOMAIN Keys : Keys[i] = k

Page(b, token, delimited) ==
  LET wanted == SelectSeq(Keys, LAMBDA k :
        /\ meta[b, k] # Nothing
        /\ token = Nothing \/ Position(k) > Position(token)
        /\ ~(delimited /\ Folder[k] # Nothing))
  IN [keys |-> SubSeq(wanted, 1, Min({PageSize, Len(wanted)})),
      prefixes |-> IF delimited
                   THEN {Folder[k] : k \in {q \in Range(Keys) :
                           /\ meta[b, q] # Nothing /\ Folder[q] # Nothing
                           /\ token = Nothing \/ Position(q) > Position(token)}}
                   ELSE {},
      truncated |-> Len(wanted) > PageSize]

ListObjects(c, w, b, delimited) ==
  /\ Owns(w, b)
  /\ Begin(c, [op |-> "list", pc |-> "page", bucket |-> b, token |-> Nothing,
               delimited |-> delimited, listed |-> <<>>, folded |-> {},
               stayed |-> {k \in Range(Keys) : meta[b, k] # Nothing}])
  /\ UNCHANGED <<buckets, meta, blob, used, answer, faults, overlapped>>

(* A page; the client asks for the next one while there is one. What stays  *)
(* in the bucket all the while is noted.                                    *)
ListPage(c) ==
  LET l == call[c]
      page == Page(l.bucket, l.token, l.delimited)
      next == [l EXCEPT !.listed = @ \o page.keys, !.folded = @ \cup page.prefixes,
                        !.stayed = {k \in @ : meta[l.bucket, k] # Nothing}]
  IN /\ At(c, "list", "page")
     /\ call' = [call EXCEPT ![c] =
          IF page.truncated THEN [next EXCEPT !.token = Last(page.keys)]
          ELSE [next EXCEPT !.pc = "done"]]
     /\ UNCHANGED <<buckets, meta, blob, used, answer, faults, calls, overlapped>>

EndList(c) ==
  /\ At(c, "list", "done")
  /\ Return(c)
  /\ UNCHANGED <<buckets, meta, blob, used, answer, faults, calls, overlapped>>

-----------------------------------------------------------------------------
Next ==
  \/ \E c \in Clients, w \in Wallets, b \in Buckets :
       CreateBucket(c, w, b) \/ DeleteBucket(c, w, b)
  \/ \E c \in Clients, w \in Wallets, o \in Objects :
       \/ \E body \in Bodies : PutObject(c, w, o, body)
       \/ DeleteObject(c, w, o)
       \/ GetObject(c, w, o)
  \/ \E c \in Clients, w \in Wallets, b \in Buckets, d \in BOOLEAN : ListObjects(c, w, b, d)
  \/ \E c \in Clients :
       \/ CountBuckets(c) \/ PutBucket(c) \/ CountObjects(c) \/ DropBucket(c)
       \/ CopyPart(c) \/ CopyBody(c) \/ AbortCopy(c) \/ RenameBlob(c)
       \/ PutMetadata(c) \/ PutMetadataFails(c) \/ RecordStorageUpload(c)
       \/ ReadRecord(c) \/ RemoveBlob(c) \/ DeleteMetadata(c) \/ DeleteMetadataFails(c)
       \/ RecordStorageDelete(c) \/ ReadForGet(c) \/ OpenBlob(c)
       \/ ListPage(c) \/ EndList(c)
  \/ Crash

Spec == Init /\ [][Next]_storeVars

-----------------------------------------------------------------------------
(* Between requests, an object whose writers never overlapped and were not  *)
(* cut short has its file exactly when it has its record, and the file is   *)
(* the one the record describes (PutObject, DeleteObject).                  *)
PairsAgree ==
  \A o \in Objects \ overlapped :
    Writers(o) = {} =>
      IF meta[o] = Nothing THEN blob[o] = Nothing
      ELSE /\ blob[o] # Nothing /\ blob[o].body = meta[o].etag
           /\ Decrypts(meta[o], blob[o])

(* GetObject serves what PutObject stored: with at-rest encryption always   *)
(* the bytes of the ETag it sends, whoever writes meanwhile; without it,    *)
(* always the whole of some body, and that of the ETag if nobody wrote.     *)
ReadsWhole ==
  answer # Nothing =>
    /\ answer.body \in Bodies
    /\ Encrypted => answer.body = answer.etag
    /\ answer.quiet /\ answer.object \notin overlapped => answer.body = answer.etag

(* A listing by pages gives every key that stays in the bucket exactly once *)
(* and in order, whatever is added and deleted between the pages; a folded  *)
(* key is given by its prefix (MetadataStore.ListObjects).                  *)
PagesComplete ==
  \A c \in Clients : At(c, "list", "done") =>
    /\ \A k \in call[c].stayed :
         IF call[c].delimited /\ Folder[k] # Nothing THEN Folder[k] \in call[c].folded
         ELSE Cardinality({i \in DOMAIN call[c].listed : call[c].listed[i] = k}) = 1
    /\ \A i, j \in DOMAIN call[c].listed :
         i < j => Position(call[c].listed[i]) < Position(call[c].listed[j])

(* A wallet's buckets exceed the limit at most by the creations that were   *)
(* under way together (CreateBucket checks, then writes).                   *)
BucketsBounded ==
  \A w \in Wallets : Cardinality(OwnedBy(w)) < MaxBuckets + Cardinality(Clients)

StoreSound == PairsAgree /\ ReadsWhole /\ PagesComplete /\ BucketsBounded
=============================================================================
