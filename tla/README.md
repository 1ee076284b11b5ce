# graphql-orm-storage: TLA+ specifications

TLA+ models of the storage backends of `graphql-orm-storage`, the TLC
configurations that check them, and TLAPS proofs of their safety properties for
every size of the system.
Paths below are relative to the repository root (`src/local.rs` is
`src/src/local.rs` in `PROJECT.json`, which maps every definition to its lines).

## 1. The system

| Component | State it keeps | Operations | What is hard |
|---|---|---|---|
| `BlobStore` trait (`blob.rs`) | none of its own: a promise of a key-to-body map | put, conditional put, get, range, head/exists, list, copy, delete | defaults built from other operations: `copy_blob` is get + put, `get_blob_range` cuts a get, `list_blobs` drains pages |
| Local blob store (`local.rs`) | a directory tree: blobs at their keys, uploads at `<name>.<uuid>.uploading` | the trait, plus `sweep_temp_files` | every operation is several file-system calls; concurrent calls, sweeps, drops and I/O errors fall between them |
| Local streaming objects (`local.rs`, `streaming_object.rs`) | two files per object: its bytes, and a JSON sidecar under `.graphql-orm-storage` | multipart write/complete/abort, `put_object_stream`, range, metadata, list, delete | two files that only together are the object |
| Local listing (`local.rs`, `blob.rs`) | none between pages except the continuation token | `list_blobs`, `list_blobs_page` | each page walks a changing tree again; two orders (walk, token) have to agree |
| SMB blob store (`smb.rs`) | files on a remote share; a semaphore of `max_transfer_concurrency` permits; a shared client | the trait, probe, reconnect | lost replies and timeouts, permits that travel with streams, cleanup by name |
| S3 blob store (`s3.rs`) | objects and multipart uploads at the provider | the trait, with single-request and multipart puts | orphaned uploads, conditional completion, retried requests |
| `StorageService`, locators, keys (`service.rs`, `object.rs`, `key.rs`, `checksum.rs`) | none; the application keeps the `StoredObject` | put/get/range/delete by locator | the locator is built before, its size and checksum after, the write |
| Validation, errors, Azure placeholder (`blob.rs`, `streaming_object.rs`, `error.rs`, `azure.rs`, `backend.rs`, `lib.rs`) | none | predicates and enumerations | - |

Components interact through direct calls only: `StorageService` calls a
`BlobStore`; the two halves of the local backend share one tree, one temporary
naming scheme and one sweep; all calls of a backend share its tree, share or
bucket. Any number of calls run concurrently (every method takes `&self`), and
any of them may be dropped at an `.await`.

What makes each component correct:

- **blob stores**: readers only ever see whole bodies; an error means no effect
  (local) or at worst an unacknowledged effect (SMB); a conditional put never
  replaces; nothing disappears but by a put, copy or delete of its key;
  temporary files are not forgotten; every call ends;
- **streaming objects**: metadata is only ever of completed uploads and is about
  the bytes next to it; a range is the part of the object it says it is;
- **listing**: every key that is there throughout is listed once, no internal
  file is, and the listing ends;
- **SMB**: no more transfers than permits, and no call waits for ever for one; a
  broken client is replaced, and a caller that retries does not meet it again;
- **S3**: objects are put together whole from their parts; a write has its effect
  or is reported as failed; no upload is forgotten by a put that succeeds;
- **service**: every key it builds is valid, and every locator it returns leads
  to its own bytes until somebody asks for its deletion.

The hazards behind these properties are listed with their lines in
`PROJECT.json` under `hazards`.

## 2. Modules

| Module | Models | Checked by |
|---|---|---|
| `BlobStoreSpec` | the abstract store: a map on which each call takes effect in one step | refinement from `LocalBlobStore` |
| `RemoteStoreSpec` | the abstract store of a remote provider: effects apart from answers | refinement from `S3BlobStore`; backend of `StorageService` |
| `LocalBlobStore` | the `BlobStore` half of `local.rs` and the sweep | `MCLocalBlobStore`, `LocalBlobStoreProofs` |
| `LocalStreaming` | the `StreamingObjectStore` half of `local.rs` | `MCLocalStreaming`, `LocalStreamingProofs` |
| `LocalListing` | `list_blobs` over `list_blobs_page` and `collect_blob_page` | `MCLocalListing`, `LocalListingProofs` |
| `SmbBlobStore` | transfers, semaphore, conditional create and cleanup of `smb.rs`, with the defaults of `blob.rs` that it uses: `copy_blob` and `get_blob_range` | `MCSmbBlobStore`, `SmbBlobStoreProofs` |
| `SmbSession` | the shared client, its failures and reconnects of `smb.rs` | `MCSmbSession`, `SmbSessionProofs` |
| `WaitQueue` | the waiters of a tokio semaphore or mutex, shared by the two SMB modules | with them, `SequenceLemmas` |
| `ByteRange` | runs of bytes by position and the arithmetic of ranges, shared by `SmbBlobStore` and `StorageService` | with them, `SequenceLemmas` |
| `S3BlobStore` | `s3.rs` and the provider behind it | `MCS3BlobStore`, `S3BlobStoreProofs` |
| `StorageService` | `service.rs`, `key.rs`, `validate_blob_key` and `collect_storage_stream` of `blob.rs`, over `RemoteStoreSpec` | `MCStorageService`, `StorageServiceProofs` |

Definitions whose comment starts with "Mutant:" are variants of the definition
that follows, each with a plausible bug; they are not part of `Next` and
show that a property notices the bug.

### LocalBlobStore

One action is one file-system call, because tokio runs each of them separately
and other calls run in between. A call (`op[c]`) moves through `pc[c]`;
`res[c]` is its result, decided before the cleanup that may follow. A file is
named by the call that created it (uuid names never clash), `names` and `temps`
are the directory, `content` says whose body a file holds and how much of it.

- writers: `Prepare` (`create_parent_dir`), `CreateTemp`, `WriteChunk`,
  `EndWrite` (`write_stream_to_temp`, or `fs::copy` for `copy_blob`), then
  `Rename` (`put_blob`, `copy_blob`) or `HardLink` (`put_blob_if_not_exists`),
  `RemoveTemp` (`let _ = remove_file`), with `WriteFails` for the error arms;
- readers: `OpenFile`, `Stat` (the separate `head_blob` by name), `ReadChunk`;
- `HeadBlob` (also `blob_exists`), `DeleteBlob`;
- `SweepList`, `SweepStat`, `SweepRemove`, `SweepEnd` (`sweep_temp_files`); age
  is a free choice, since `older_than` is the caller's;
- `Interrupt`: a dropped future or stream, or the end of the process.

`UploadingKeys` are keys that themselves end in `.uploading`, which the sweep
cannot tell from temporary files (its documentation defines them so). The
refinement holds for stores without such keys; `BlobsAreNotLost` names them.

`ImplementsBlobStore` maps a file to the body it holds completely. `AbsSpec`
says that each call takes effect at one instant (rename, link, unlink, open) or
not at all, that an error has no effect, and that a reader is served the body it
looked up however the key changes.

### LocalStreaming

An upload is one call that owns two files, `obj` and `side` once renamed,
`otemps` and `mtemps` before. `complete()` is `Complete` (flush),
`WriteSidecar`, `RenameObject`, `RenameSidecar`; its first two errors return
without cleanup (`leaked` records this), the later ones remove what is left.
`write_chunk` counts a chunk before it writes it (`counted` and `written`).
`put_object_stream` is the owner that aborts on the first error. `disturbed` is
a history variable: the keys whose two files were last changed by finalizations
or deletions that overlapped, failed or were dropped between their two steps.
`Sweep` removes whatever is named `*.uploading`: temporary files of uploads under
way, and the bytes of a completed object whose own key has that suffix
(`UploadingKeys`), whose sidecar it leaves. `WholeUnlessDisturbed` says that
overlapping, failed or dropped finalizations and deletions, and this sweep, are
the only ways to tear an object. `Uploaders` bounds which calls may be uploads.

### LocalListing

Paths are sequences of names, names sequences of character ranks, so that the
walk's order (name by name) and the token's order (the whole key as a string,
`/` among its characters) are both there. Edits happen between any two visits.
`Children` places each entry of a directory by the number of entries before it,
which is what sorting them does. `OrdersAgree` says that the two orders are the
same on `Keys`; the code does not ensure it, and `listing_dotted` has keys for
which it is false.

### SmbBlobStore

A request to the server succeeds, fails without effect, or fails having taken
effect (lost reply or `with_timeout`). `open_file`'s retry after a reconnect is
part of its request; requests that take effect after their timeout are not
modelled. The server unlinks a deleted file at once and lets readers keep it.
The semaphore is a FIFO queue (`queue`) with `held[c]` permits per call: a copy
holds one in its source stream while it asks for another. `get_blob_range` is the
trait's default, which no other backend uses: `Deliver` is the closure of
`ranged_storage_stream`, with its `skip` and `rest` (the code's `remaining`), over
reads of up to `ChunkSize` bytes that may be short; `SizeHint` is the hint it
computes. A write that fails has stored its chunk or none of it, a write that
goes on stores all of it: the part of a chunk that one `write_block` leaves is
not told apart. `Copiers` and `RangeReaders` bound which calls may be copies and
ranges.

### SmbSession

A call is the sequence of requests its operation makes (`pc`), each on the
client that was installed when the request began (`using`), or on the file that
an earlier request opened. `AfterError` is the map of the error paths: which
requests reconnect before they return, which clean up first, and which simply
return. `Connect`, `ConnectFails` and `Refused` are `reconnect_with_backoff`
under `reconnect_lock`, whose waiters are `queue`. `Errors` abstracts
`map_smb_error` and `map_io_error` to the one bit that the code branches on.
`failedOn`, `refused` and `rounds` are history variables. The files are left to
`SmbBlobStore`, where a reconnect is part of the request that needed it: the two
modules share only the order of the requests.

### S3BlobStore

Every step of a call that awaits is one request to the provider (`Execute` is
what the provider does with it). `NoReply` loses the reply: the SDK tries again
or the call gives up, and the request stays in `late`, from where `Land` may
carry it out at any later time, also after the call has returned. An object is
a sequence of pieces `<<from, to>>` of one body, so that a part that is lost,
repeated or out of place shows. Parts that end up in a second upload, created by
a retry whose first attempt was carried out as well, are part of the model:
`mine` is the upload that answered.

`ImplementsRemoteStore` maps whole objects to the call they came from; a torn
one would be a value that `RemoteStoreSpec` does not know. What `AbsSpec` adds to
the invariants: success is never reported without an effect, `Ok(None)` only for
an occupied key, a reader gets a body that its key held, and no effect reaches a
key that no call asked to change.

### StorageService

The service keeps no state: `loc` is what the application has been given. It
works over `ObjectStorage`, which the local and S3 backends implement (and the
Azure placeholder, where every call fails); SMB does not. The
backend is `RemoteStoreSpec` itself (`B`), the promise that both of them keep: S3
by `ImplementsRemoteStore`, and the local store, whose puts, gets and deletes
take effect with their answer, with `Sweep` added. `Sweep` is the local
backend's `sweep_temp_files`. A file name is a sequence of characters, of which
some stand for longer text (`"uploading"`, `"NUL"`); keys are built from it as
`key.rs` does and split as `validate_blob_key` does.

`get_object_range_stream` calls the backend's own `get_blob_range`. Both refuse an
inverted range first. Then the local backend opens, seeks and takes; S3 answers
an empty range by a `head_blob` without a body and otherwise sends a range header,
and its provider refuses a range that starts past the end. `GetRange` and
`RemoteStoreSpec` allow each of these, `Served` is the part of the body both
select, and `NextChunk` streams it in chunks of any length. Nothing is said of
size hints here: the range streams of both backends carry the requested length,
however short the body, and a plain S3 get carries none.

## 3. Runs

| Run | Expect | Instance | Shows |
|---|---|---|---|
| `local_core` | pass | 3 calls, 2 keys, bodies of 0 and 2 chunks, 3 ranges, symmetry | the safety properties and the refinement, under errors, drops and sweeps |
| `local_live` | pass | 2 calls, 1 key that ends in `.uploading` | every call ends |
| `streaming` | pass | 3 calls, 2 of them uploads at most, 2 keys of which one ends in `.uploading`, 1 chunk, 4 ranges, symmetry of the uploaders | metadata only of completed uploads; torn objects only where said |
| `streaming_torn` | violation | 2 uploads of 1 chunk, 1 key | two uploads return Ok and leave one's bytes with the other's checksum |
| `listing` | pass | keys `a/a a/b ab b/b`, page size 2, 2 edits | steady keys are listed once, in order; the listing ends |
| `listing_dotted` | violation | keys `a/a a/b a.b`, page size 1, no edits | `a.b` is never listed |
| `smb` | pass | 3 calls, 1 copier, 1 range reader, 2 permits, 1 key, bodies of 3 bytes read in pieces of 1 to 3, 3 ranges | whole puts, exact ranges and hints, one conditional winner, temporary files, no deadlock, every call ends |
| `s3` | pass | 2 calls, 2 keys, bodies of 1, 2, 3 and 5 bytes in parts of 2, at most 2 parts, 2 attempts, 2 faults, symmetry | whole objects, one conditional winner, no upload forgotten, exact listings, the refinement |
| `smb_session` | pass | 2 calls, 2 attempts, 1 outage, 1 other failure | broken clients are replaced, reconnects are bounded, every call ends |
| `service` | pass | 3 calls, 10 file names, bodies of 0 and 3 bytes, chunks of 1 and 2, 6 ranges, symmetry | valid keys, locators that lead to their bytes, exact ranges |
| `smb_copy_deadlock` | violation | 2 calls, 1 copier, 1 permit | `copy_blob` waits for the permit its own source holds |
| `smb_cleanup` | violation | 2 calls | a failed conditional write removes another call's acknowledged blob |

Bounds. Two calls suffice for every race of one call with another; the third
lets a sweep or a reader meet two racing writers, and lets a copy follow a put
and precede a delete. Two keys separate the source of a copy from its target;
streaming and SMB operations only meet on one key, and the second key of
`streaming` is there for the sweep that takes it for a temporary file. A third
upload would only repeat what two do to each other, so the third call of
`streaming` is the reader, the listing or the deletion that meets them. A body of two chunks can be
half written and half read, one of none is the boundary case. Calls are made at
most once, so histories have as many operations as there are calls. The
listing's trees have a directory, a file beside it whose name begins with the
directory's, a temporary file and an internal one; pages of one or two keys make
every listing resume. The SMB instance needs a copier and a second holder for
contention over two permits, and a third call to wait; its ranges are inverted,
end inside the body, and start inside it and end past it, and reads of 1 to 3
bytes place the skip and the end of a range in one chunk, at a boundary and in
different chunks. The S3 bodies are one
below, at and above a part and one that needs more parts than `MaxParts` allows
(10000 at S3); two faults lose a request and its retry, or a request and the
abort that follows. In the session, one outage breaks the client under both
calls and one more failure hits a reconnect or a cleanup. The service needs a
put, a deletion and a reader, and a range that spans two chunks.

Fairness. Weak fairness of each call's steps: the executor polls futures, body
streams yield, readers read, the server answers or the timeout expires, and
tokio's semaphore and mutex serve their first waiter. Calls need not be made and nothing
needs to fail or be dropped; in `SmbSession` the server need not come back. `LocalListing` needs only fairness of the listing
itself: writers may go on as long as their bound allows.

## 4. Proofs

`LocalBlobStoreProofs` proves, for any sets of calls and keys, any body lengths
and any ranges, from `ConstantsAssumption` (constants are disjoint and numbers
are naturals):

- `TypeCorrect`, `CompleteVisible`, `ErrorsUnpublished`, `TempsNotForgotten`:
  the invariants of `local_core`;
- `Immutable`, `NothingLost`: its action properties;
- `StreamsAreWhole`, `StaleBodies`: what readers get;
- `LocalRefinesBlobStore`: the store implements `BlobStoreSpec` when no key ends
  in `.uploading`.

The inductive invariant `IInv` adds to the types what each label says of a
call's request, result and open file (`CallOK`), and for each file (`FileOK`):
while it is written it holds the body its writer was given; when it is about to
be published it holds all of it; and once *frozen*, named by a key or open, it
is whole and its call has succeeded. Freezing is the heart of the argument:
`OnlyCompleteVisible` alone is not inductive, since a copy publishes what it
reads from an open file that may have lost its key. `FrozenStep` (nobody writes
a frozen file) then gives immutability, and with `NoRelink` (a file is published
once) a second invariant, `ReaderInv`, for the streams. The refinement has one
case per action; bodies of frozen files do not change, so the abstract map
changes only where `names` does.

`StorageServiceProofs` proves, for any calls, file names, body lengths, ranges
and chunk size, over any backend that keeps `RemoteStoreSpec`, from
`ServiceAssumption` and `NoneAssumption` (`None` is no request, operation or
locator):

- `LocatorsLead`: `LocatorsDescribeBlobs`;
- `RangesExact`: `RangeIsSlice`;
- `TypeCorrect`: `TypeOK`, with the validity of keys.

The first two rest on `KeysDiffer`: the uuid is the seventh piece of every key, whatever
extension the file name yields, so different puts write different keys (that
the extension is a string at all needs the least and greatest elements of sets
of positions, from the well-foundedness of the naturals). `LInv` then says that
what is asked of the backend is what the service was asked for (`Asked`), that
objects asked for come from a put's locator (`Known`), and that a put which has
taken effect is at its key unless a deletion of that key has been *sent* or the
sweep may take it (`Kept`). The property speaks of deletions *asked for*: the
keys differ, so a deletion of the key was asked for with this very locator.
`RInv` adds that a key only ever holds the put that made it (`StoreOK`), hence
that a reader is served the body of its locator's put with the size the locator
says (`Reader`), and `Streamed`: what has been delivered when the stream has got
to `p` are the bytes from the beginning of the part asked for up to `p`. A stream
without a body is that of an empty range. That both backends cut a range to
`Served` is read off their code; that the bytes behind it are of one body is
`StreamsOneBody` and `ObjectsAreWhole` of their own modules.

`TypeCorrect` of this module includes that `validate_blob_key` accepts every key
that the service builds (`KeysValid`). `KeyText` says where the separators of a
key are: after namespace, the two shards and the uuid there is none, so the last
piece is the uuid with what the file name yields, and no piece is empty, `.` or
`..`. It needs that a uuid has no separator, dot or NUL, which `ServiceAssumption` states.

`LocalStreamingProofs` proves, for any calls, keys, numbers of chunks and ranges,
the invariants of `streaming`: `TypeCorrect`, `InfoCompleted`, `PairsWhole`,
`RangesServed`, `TempsNotForgotten`. An upload that has completed takes no further
step, so its files and its `ObjectInfo` are final; `SidecarsOK` says that sidecars,
and what was read from them, are of completed uploads. `WholeUnlessDisturbed`
is not inductive: `WindowOK` adds what a call between its two renames or removals
has left at the object path (its own upload, or nothing), unless the key was
disturbed since, or nothing when a sweep may have taken it; the second rename or
removal then completes the pair. `TypeCorrect` includes that no object file holds
more chunks than its upload has counted.

`LocalListingProofs` proves, for any finite tree, page size, prefix and number of
edits, `TypeCorrect` (with: a page holds at most one key more than its limit, and
a token is the key of a blob) and `OnlyBlobs` from `BlobsOK`, and, when `OrdersAgree` holds,
`InOrder` and `NothingLost`. The strings and paths are shown to be strictly and
totally ordered, `Children` to return every entry in the walk's order
(`ChildrenSorted`: ranks are an injection of the entries into as many numbers,
hence onto), and what lies below two paths to be in the order of the two
(`WalkBelow`). The inductive invariant is `WalkOK` (page, then stack from its top,
are in walk order), `TokenOK` (the token is between what is listed and what is on
the page) and `FoundOK` (a steady key is listed, or after the token and either
on the page or below a path on the stack). The look-ahead key and all that is
on the stack come after the last key of a full page in the walk; only
`OrdersAgree` carries this over to the token. `KeyAssumption` states of `Key`, a
fold, that keys are non-empty strings and that different paths have different
ones.

`SequenceLemmas` has the lemmas on queues of distinct waiters (joining, serving,
leaving) that the two SMB modules need, and on runs of bytes that follow one
another, for the streams of SMB and of the service.

`SmbBlobStoreProofs` proves, for any finite set of calls, any copiers among them,
any keys, body lengths, ranges, chunk size and number of permits: `TypeCorrect`, `RenamesWhole`,
`ConditionalWinner`, `TempsNotForgotten`, and `TransfersProgress` for fewer
copiers than permits, the condition that `smb_copy_deadlock` shows to be needed.
`PermitsOK` counts permits as pairs of a call and a slot, so that "no more than
`MaxTransfers`" is a cardinality; `WaitersHoldFew` says that only a copier waits
while it holds one, and one only: if all permits were with waiters there would
be as many copiers as permits. `FilesOK` follows a file from its creation to the
end of its writer, and `OwnerOK`, for keys that only conditional writes address,
says that a conditional write has its own file there from its create to its
answer or the end of its cleanup. For the readers of renamed files, `ReaderOK` says that
`skip`, `rest` and the delivered bytes are what the request makes of the `pos`
bytes read so far (`InStep`, `Streamed`) until the stream has ended with exactly
its part (`Exact`); `DeliverStreamed` is the arithmetic of one chunk,
`StreamedExact` that of the end, and `OutOK` says that only streams deliver.

`S3BlobStoreProofs` proves, for any calls, keys, body lengths, part and chunk
sizes, numbers of parts, tries and faults, from `S3Assumption` (keys, prefix and
foreign names are strings over `Chars`; keys are not empty and do not begin with
`/`, as `validate_blob_key` says): `TypeCorrect`, `ObjectsWhole`,
`ConditionalWinner`, `UploadsAccountedFor`, `ListingNames` and the refinement
`S3RefinesRemoteStore`. The acknowledged parts of an upload are a chain: each
begins where the one before ends, the first at 0, the last at `sent`. `LateOK`
says what a request that is still on its way could do when it lands: repeat an
acknowledged part or the one that is being sent, complete an upload that has
all of its parts, abort one that is not needed any more, or create one that
nobody uses. `WinnerOK` says that a conditional put that has been carried out
holds its key, when only conditional puts address it. The refinement maps whole
objects to the call they came from; an effect takes place when its request is
carried out, answered or not.

`SmbSessionProofs` proves, for any calls, numbers of attempts, outages and
failures: `TypeCorrect`, `RetryFindsNew`, `ReconnectsBounded`. `Place` says of each
request which operations make it, with which error behind them and after how
many reconnects at most, and `Detour` who reconnects on the way to it; `CallOK`
puts every call in such a place. `RetryOK` says that a write that will return a
retryable error has the client replaced, has been refused one, or is still on
its way to a reconnect.

Left to TLC: liveness (`EveryCallEnds`, `ListingEnds`, `BrokenClientReplaced`),
which needs fairness and ENABLED, and what the fold `Key` computes for every path,
which needs induction over sequences: `KeyAssumption` is evaluated by TLC on the
instances and assumed by the proofs.

## 5. Where code and documentation differ

The runs that expect a violation show, each with the line it contradicts:
`streaming_torn`, `listing_dotted`, `smb_copy_deadlock` and `smb_cleanup` (see
`findings`). Smaller differences that the models contain and no run is about:

- a range of the local backend, or of S3, that ends past the blob carries the
  requested length as size hint and delivers fewer bytes (`local.rs:231`,
  `s3.rs:445`); only the default `get_blob_range`, which SMB uses, clamps it to the
  size of the blob (`RenamedFilesAreWhole`);
- a sweep removes the bytes of a completed streaming object whose key ends in
  `.uploading` and leaves its sidecar, so that `get_object_metadata` still answers
  (`local.rs:61`, `local.rs:763`): the exception of `WholeUnlessDisturbed`;
- a range reader that has read an older sidecar can be given the bytes of an
  upload whose `complete()` has renamed the object and not yet its sidecar
  (`local.rs:605`), before the upload is complete;
- an object stored under a file name that ends in `.uploading` gets a key that
  the local sweep takes for a temporary file, and is removed once it is old
  enough (`key.rs:39`, `local.rs:763`): the exception of
  `LocatorsDescribeBlobs`;
- with a key prefix `p`, `list_blobs("")` on S3 also returns `pq/x` of other users
  of the bucket, under its full name (`s3.rs:492`): the exception of
  `ListingNamesBlobs`;
- a failed S3 put leaves its multipart upload behind unless it was the
  completion that failed (`s3.rs:135`, `UploadsAccounted`).

### Plan

Done: the abstract stores, all working backends, the SMB session and the
service; every safety invariant, both action properties and both refinements that
the runs check are also proved. Next:

1. more pages of S3 listings, and SMB's `list_blobs_page`, over an abstract
   listing that `LocalListing` would share;
2. the refinement of `RemoteStoreSpec` by `SmbBlobStore` for unconditional writes,
   whose exceptions are the ones `smb_cleanup` shows.

## 6. Not modelled

Bytes and checksums (a body is named by its caller), clocks, directories as
objects that can fail in their own right (their errors are I/O errors any call
may meet), `fsync` and power failures, bucket names, error text, SMB
configuration and protocol negotiation. `SmbStorageBackend::probe` is a sequence
of the calls modelled here on a connection of its own. SMB's `list_blobs_page`
collects and sorts every key before it cuts a page, in the order its token is
compared in; only its requests are modelled (`SmbSession`). S3 listings are
modelled for one page: continuation tokens are the provider's. The default
`put_blob_if_not_exists` is overridden by every backend, `ObjectStorage::put_object`
of the backends is `put_blob` under a key that its caller chose, and the Azure
placeholder answers every call with an error.
