# A TLA+ model of bloomd

`bloomd` is a daemon that serves Bloom filters kept in kernel BPF maps.  Each
filter has three pieces of state outside the process: the map pinned under the
pin root, `<name>.meta`, and the digest log `<name>.digests`.  This directory
holds TLA+ modules that model the daemon, its client loop, its formats and the two
tools beside it, TLC configurations that check them on small instances, and TLAPS
proofs of the main results for every instance.  Paths below are relative to the repository, whose
daemon sources are in `src/src/`.

## 1. Inventory

| Component | Source | State | Operations | Module |
|---|---|---|---|---|
| Durable state of a filter | `daemon.c` 288-362, `meta.c`, `bpf.c` | pin, `has_data`, `log_clean`, log file | ensure durable, mark dirty, update metadata, and their undo paths | `FilterStore` |
| CREATE, ADD, MADD, DROP | `daemon.c` 709-1219 | locals of the handler | one handler per request | `FilterStore` |
| Digest log and buffer | `log.c`, `daemon.c` 652-707, `util.c` | `log_buf`, `log_dirty`, the file | stage, commit, roll back, flush, fsync, truncate, replay, cut the tail | `FilterStore` |
| Log sync and shutdown | `daemon.c` 364-392, 1800-1815 | `log_dirty`, `bloomd_stop` | timer sync, forced sync, free the set | `FilterStore` |
| Startup | `daemon.c` 232-286, 394-597 | directory scan | load, rebuild, set aside, refuse, remove orphan pins | `FilterStore` |
| Empty map pool | `daemon.c` 37-79 | one spare map | take, store, close | `FilterStore` |
| Kernel maps and pins | `bpf.c` (external kernel state) | pins, map contents | create, pin, unpin, add | `FilterStore` |
| Filter set | `util.c` 301-389 | array, capacity, `last_index` | find, add, remove, free | `FilterSet`, implementing `NameTable` |
| Client loop | `daemon.c` 1313-1615, 1673-1815 | client slots, sockets, `bloomd_stop` | poll, accept, read, dispatch, write, time out, stop | `ClientLoop` |
| Dispatch and requests | `daemon.c` 599-1308 | body of a request, answer buffer | check a body, scan a batch, append the answer, replace it by an error | `Requests` |
| Protocol buffers | `protocol.c` | `bloomd_buffer` | append within a limit, read a payload, error answers | `Requests` |
| Metadata format | `meta.c` 12-286 | lines of `<name>.meta` | write, read line by line | `MetaFile` |
| bloominspect | `bloominspect.c` | none | classify pin, metadata and log offline | `Inspect` |
| bloomctl | `bloomctl.c` | none | build a request, print an answer | `Requests` |
| Hashing; configuration and set-up | `hash.c`, `util.c`, `daemon.c` | none | SipHash, argument parsing, directories | not modelled |

What a client may rely on, without any of this, is `StoreSpec`.

How they interact.  The client loop gives one request at a time to a handler, and
after the requests of an iteration calls `bloomd_sync_dirty_logs`.  The process is
single-threaded, so no two handlers interleave.  What interleaves with them is the
environment: any call may fail, the process may be killed and the host may go down
between two calls, and somebody may remove a pin.  Then the next start has to make
sense of what is left, in three places that are never changed together.

The behaviours that make this hard:

- `log_clean` is a promise to a later start.  In periodic mode digests are
  acknowledged while they are only in memory, so `log_clean=0` has to reach the
  disk before the first of them and may return to 1 only when the log is whole.
- A failing item in the middle of a batch undoes its own marks and no others.
- A digest is logged before it is in the map, and is rolled back out of a buffer
  that may have been written out meanwhile.
- `log_clean=0` found at a start means a log with a hole; syncing later digests
  does not mend it (`log_history_incomplete`).
- First ADD and DROP change pin, log and metadata one after another, with undo
  steps whose own failures are ignored.
- The pool passes a map from a dropped filter to the next one.
- The lookup cache of the filter set outlives removals that move the array.
- Clients send and read in any pieces, pipeline, fall silent and hang up, and
  `accept` gives slots away between `poll` and the serving of what it reported.
- The checks of a request, the layout of its answer and the offsets at which
  `bloomctl` reads it are written down in different places.

The hazards of the code, each with its line and the properties that cover it, are
listed in `PROJECT.json`.

## 2. Modules

| Module | Contents |
|---|---|
| `FilterStore` | the daemon and its durable state: one action per system call; the properties |
| `FilterStoreInv` | the inductive invariants, and the assumptions on the environment that they need |
| `StoreSpec` | the abstract specification: what clients are promised of a filter |
| `FilterStoreImpl` | the refinement mapping from `FilterStore` to `StoreSpec` |
| `Inspect` | the verdicts of `bloominspect` on a state of `FilterStore` |
| `MCFilterStore` | constants and symmetry for TLC; one `.cfg` per run (`MCFilterStore.cfg`, `Store*.cfg`) |
| `FilterStoreControl` | proofs: every action keeps the types, `ControlInv` and `BufInv`; theorems that need no assumption on the environment |
| `FilterStoreData` | proofs: what writes, flushes and replays do to the digests; every action keeps `DataInv`; theorems about the digests |
| `FilterStoreMaps` | proofs: every action keeps `MapInv`, `PinInv` and `StopInv`; theorems about maps, pins, the pool, the next start and a stop |
| `FilterStoreRefine` | proofs: every step of `FilterStore` is one of `StoreSpec` or changes nothing there; a start leaves what is sound so, and acting on the report of `bloominspect` loses nothing |
| `FilterSet`, `NameTable` | `struct bloomd_filter_set`, and the table from names to filters that it implements |
| `FilterSetProofs` | proofs: the invariant of the array and the refinement |
| `ClientLoop` | the poll loop, its client slots, the sockets and the clients |
| `ClientLoopProofs` | proofs: the inductive invariant of the loop, one lemma per step |
| `Requests` | one request and its answer, in the daemon and in `bloomctl` |
| `MetaFile` | writing and reading a metadata file |
| `FormatsProofs` | proofs: the inductive invariants of the reader of metadata, of an answer being built and of the loops over a batch |
| `BloomctlProofs` | proofs: where the fields of an answer lie, what `bloomctl` composes, what it prints |
| `MCClientLoop`, `MCSequential` | constants for TLC; `MCSequential` runs `Requests`, `MetaFile` and `FilterSet` side by side |

`FilterStore`, `ClientLoop` and `Requests` look at the same requests from three
sides.  `ClientLoop` says when a request is dispatched and where its answer
belongs, and takes the handler as one step; `Requests` says which bodies reach the
state of a filter and what the answer is made of; `FilterStore` says what happens
to that state, call by call.  This split loses no interleaving: the loop is one
thread and runs a handler to its end, so that clients meet a handler only before and
after it.

### State and code: `FilterStore`

- `pin`, `bits`: the pins in bpffs and the contents of the kernel maps.  A Bloom
  map is the set of digests added to it; false positives play no part in the
  properties.  A map that nobody has open or pinned is freed (`Fresh`, `Reclaim`).
- `meta`, `par`, `log`: the directory as processes see it.  `meta[n]` is `absent`,
  `empty` (`has_data=0`), `clean` or `dirty` (`has_data=1`, `log_clean` 1 or 0).
  The code writes `has_data=0` with `log_clean=1` only.
  A log is the set of digests that a replay finds, and the distance of its end
  from a record boundary.  What is written at an end that is no boundary is not
  found by a replay.
- `smeta`, `slog`: what of the directory survives the host.  `fsync` of the log
  updates `slog`; the directory fsync of `bloomd_meta_write_atomic` makes all
  names durable (`SyncedDir`).
- `fd`, `mem`, `hist`, `buf`, `dirty`: a `struct bloomd_filter`: `map_fd`, `meta`,
  `log_history_incomplete`, `log_buf`, `log_dirty`.  `pool`: `bloomd_empty_pool`.
- `pc`: the next state-changing system call.  `cur`, `items`, `marked`, `any`,
  `stage`, `newmap`, `rebuilt`: locals of the handler that runs.
- `added[n]` is history: the digests that `bloomd_bpf_add_digest` put into `n`
  since its CREATE.

### Actions and code: `FilterStore`

One action is one state-changing call with the assignments around it; calls that
only read are folded into the step that uses their result.

| Actions | Code |
|---|---|
| `CreateBegin` `CreateMeta` `CreateMetaFails` `CreateAdd` `CreateAddFails` | `bloomd_handle_create` |
| `AddBegin` | `bloomd_handle_add_check`, `bloomd_handle_batch` (an ADD is a batch of one) |
| `EnsurePin` `EnsureLog` `EnsureMeta` `EnsureUndoLog` `EnsureUndoPin` | `bloomd_ensure_filter_durable` |
| `MarkDirty` `RestoreClean` | `bloomd_mark_filter_log_dirty`, and its reversal after a failed request |
| `StageDigest` `StageWrite` `StageFsync` | `bloomd_stage_digest_for_add` |
| `BpfAdd`; `BpfAddFails` `RollbackTruncate` | `bloomd_bpf_add_digest` with commit; `bloomd_rollback_staged_digest` |
| `SyncBegin` `SyncWrite` `SyncFsync` `SyncMeta` | `bloomd_sync_dirty_logs` |
| `DropBegin` `DropUnpin` `DropMeta` `DropMetaFails` `DropRepin` `DropLog` | `bloomd_handle_drop`, `bloomd_filter_set_remove_n` |
| `Start` `LoadPinned` `LoadEmpty` `LoadReplay` `LoadPin` `LoadStale` `LoadUnreadable` `LoadPublish` `LoadRefuse` `LoadFails` `LoadDone` | `bloomd_load_metadata_dir`, `bloomd_rebuild_from_log`, `bloomd_meta_recover_stale` |
| `CleanupOrphanPins` `Listen` | `bloomd_cleanup_orphan_pins`, the rest of `main`'s set-up |
| `Stop` `StopSynced` `FreeFilter` `Exit` | the end of `main`, `bloomd_filter_set_free` |
| `Kill` `HostCrash` `PinRemoved` | the environment |

What the environment may do is the constant `Faults`: `io` (a call fails and
changes nothing), `undo` (a call whose result the code discards fails), `partial`
(`write` stores part of the buffer and then fails), `nodirsync` (the directory
fsync after a rename fails or is never reached), `read` (metadata cannot be read
at a start), `unpin`, `kill`, `host`.  After `host`, the file system keeps what was
synced and any part of the rest.

`SyncBegin` may come between any two requests and takes one filter.  The code
syncs all dirty filters in one call; the model allows those orders and more.

### `StoreSpec` and the mapping

`exists` (the metadata file is there), `served` (the filter is in the set), `kept`
(what was added), `view` (what CHECK finds: the contents of the map behind the
filter's descriptor).  `StoreSpec` allows a filter to be lost, or to be back after a
DROP, only while nothing is kept in it; it allows a map to hold more than was added.

### `Inspect`

`Verdict(n)` is the classification of `main` in `bloominspect.c`, with a branch for
`has_data=0` (`VerdictEmpty`) and one for `has_data=1` (`VerdictData`); `OrphanPins` is
its last part.  They are evaluated on the files and pins of `FilterStore`: before and
after each step of a start or a stop (`Sound`), and while no daemon runs.  The verdicts
that are left out are listed in section 5.

### `FilterSet`

`items`, `cap`, `last` are the fields of the struct; `last` is `last_index + 1`, with
0 for `SIZE_MAX`.  `Find`, `Add`, `AddFails`, `Remove`, `Free` are the functions of
`util.c`; `Without` is the `memmove`, `LastAfter` the adjustment of `last_index`.

### `ClientLoop`

- `slot[s]` is `clients[s]`: state, `req_header_read` (`got`), `req_body.len`
  (`body`), `write_offset` (`off`) and the time since `last_activity_ms` (`idle`).
- `sock[c]` holds the two streams of a connection as positions: how much was sent,
  taken, written and not yet read.  `Frames` says where in the streams each request
  and each answer belongs.  A loop that loses its place takes a header from where
  none begins, or puts an answer where another one belongs.
- `events` are the `revents` of `poll` that are still to be served; `backlog` the
  connections that wait.

| Actions | Code |
|---|---|
| `Poll` `Tick` `Signal` `Shutdown` | the head of the loop in `main`, the signal handler, the end of `main` |
| `Accept` `AcceptDone` | `bloomd_accept_ready`, `bloomd_find_free_client`, `bloomd_client_init` |
| `ServeHangup` | the `POLLHUP` branch |
| `ReadHeader` `ReadBody` `Dispatch` | `bloomd_client_drive_read`, `bloomd_client_read_some`, `bloomd_client_prepare_write` |
| `WriteResponse` | `bloomd_client_drive_write`, `bloomd_client_reset_request` |
| `Reap` | `bloomd_close_timed_out_clients` |
| `Connect` `Send` `Drain` `HangUp` | the clients (external) |

`Faults` here: no memory, `fcntl`, `accept` or `poll` failing, and `slow` (a round of
the loop takes as long as a time-out).  Without `slow`, time passes only while the
loop waits in `poll`.

### `Requests` and `MetaFile`

A request is its opcode, the length of its body and what the handler finds in it; an
answer is a sequence of fields with sizes (`resp.body`), the offset at which each was
appended (`resp.at`) and the length of them all (`resp.len`, the `len` of
`bloomd_buffer`).  `Ask` and `ComposeItem` are `bloomctl` composing a request, a batch
item by item until the body is full; `AskOther` is any other client.  `Checks` lists the tests of each handler
in their order, `ScanItem` and `Item` are the two loops over a batch, `AppendField`
and `Collect` build an answer in a buffer that may run full, `Answered` replaces an
incomplete one by an error.  `Show`, `ShowEntry`, `ShowEnd` read the answer at the
offsets of `bloomctl.c`.  `MetaFile` has `Write`; `Edit`, in which
somebody else takes any stretch of lines out of the file and may put one line in its
place, up to `MaxEdits` times after a write; and `Open`, `ReadLine`, `ReadEnd` of
`bloomd_meta_read_file`.  A value is one of a few classes (good, out of range,
unparsable, too long, subnormal).  `ReqSpec` and `FileSpec` are the two specifications
that the theorems are about.  `MCSequential` runs them and `Spec` of `FilterSet` side by
side, each behaviour being one of the three: nothing interleaves with any of them.

## 3. What is checked

| Run | Configuration | Shows |
|---|---|---|
| `store` | `MCFilterStore.cfg` | `TypeOK`, `IInv`, `NoFalseNegative`, `CleanLogComplete`, `PendingIsMarked`, `NeverForgotten`, `DiskMatchesMemory`, `ServesAll`, `VerdictKeepsDigests`, `SoundStaysSound` and the refinement `ImplementsStore` hold for one filter in both sync modes, with failing calls, ignored failures, kills, host crashes and vanishing pins |
| `two_filters` | `StoreTwo.cfg` | `OwnMap`, `PoolIsUnused`, `NeverRefused`, `MetadataOnlyUnpinned` hold for two filters and two sets of map parameters, with failing calls, unreadable metadata, stops and starts |
| `live` | `StoreLive.cfg` | `StopSyncsAll` and, under fairness, `SyncedEventually` hold with kills |
| `client_loop` | `MCClientLoop.cfg` | `TypeOK`, `AnswersInOrder`, `OneSlotEach`, `TurnKeepsClient` hold for three clients and two slots, with every fault |
| `client_live` | `ClientLive.cfg` | under fairness, `PatientAnswered`, `AcceptedOrRefused`, `NoSlotHeld` hold for two clients that keep their connections and one that may stop sending or reading, also in the middle of an answer |
| `sequential` | `Sequential.cfg` | `WholeAnswers`, `RejectedUntouched`, `BatchInBounds`, `Understood` hold for every request, well-formed or not; `FlagsKept`, `NotFlattered` for every file that bloomd writes and every edit of it; `TypeOK`, `NamesUnique`, `CacheFollows` and the refinement `ImplementsTable` for every sequence of calls on the set of filters, with four names |
| `torn_write` | `StoreTorn.cfg` | a log write that stops inside a record costs later, acknowledged digests: `NoFalseNegative` is violated |
| `directory_sync` | `StoreDirSync.cfg` | a directory fsync that fails unnoticed, then a host crash, brings a filter back without its digests: `NoFalseNegative` is violated |
| `shared_map` | `StoreShared.cfg` | killed between pin and metadata of a first ADD, then DROP and CREATE: two filters use one map, `OwnMap` is violated |
| `refused_start` | `StoreRefused.cfg` | killed in DROP between unpin and unlink: every later start is refused, `NeverRefused` is violated |
| `unreadable_metadata` | `StoreUnreadable.cfg` | metadata that cannot be read once is set aside for good: `NeverForgotten` is violated |
| `lost_at_restart` | `LostAtRestart.cfg` | CREATE accepts a subnormal error rate, and a pin directory may be so long that the path does not fit into a line: the metadata is written, and refused when it is read back, `ReadsBack` is violated |

The last six disagree with what the repository's `README.md` says of the program;
`PROJECT.json` quotes the sentences.  The assumptions of the passing runs and of
the theorems are drawn exactly around them: the data properties hold when `partial`,
`nodirsync` and `read` are excluded, the properties about pins when `kill` is.

The properties:

- `NoFalseNegative`: a digest that was added is in the map that answers CHECK.
- `CleanLogComplete`: `log_clean=1` on disk means that the durable log has every
  digest that was added.
- `PendingIsMarked`: a digest waiting in a buffer between requests has `log_dirty`
  set and `log_clean=0` on disk.
- `NeverForgotten`: a filter with digests has `has_data=1` metadata.
- `DiskMatchesMemory`: between requests, `filter->meta` and `<name>.meta` agree.
- `OwnMap`, `PoolIsUnused`: no two filters share a map; the pooled map is empty and
  nobody else's.
- `NeverRefused`: a start does not meet metadata for which it gives up.
- `MetadataOnlyUnpinned`: a filter without data has no pin in the way of its first.
- `StopSyncsAll`: the forced sync of an orderly stop leaves no log behind.
- `SyncedEventually`: a log that the daemon marked as behind is synced and marked
  clean again.
- `ServesAll`: while bloomd serves, no filter with digests is missing from the set, so
  that no CREATE buries any.
- `ImplementsStore`: every step, failure and crash is one that `StoreSpec` allows.
- `SoundStaysSound`: a start can be tried again.  No step of a start that succeeds,
  fails at any of its calls and takes back what it did, or is killed, and no step of a
  stop, turns a filter that `bloominspect` reports as loadable into one with a bad pin,
  an unsafe rebuild or stale metadata.
- `VerdictKeepsDigests`: following the report of `bloominspect` loses no digest.
- `NamesUnique`, `CacheFollows`, `ImplementsTable`: the array holds no name twice, a
  removal never leaves `last_index` on another filter, and every call answers as a
  table does.
- `AnswersInOrder`: at every moment each slot's counters agree with the position of
  its streams, so headers are read where frames begin and answers written in order.
- `OneSlotEach`: an accepted connection is in exactly one slot; none leaks.
- `TurnKeepsClient`: what `poll` reported is not applied to another client.
- `PatientAnswered`: a complete request of a client that keeps its connection is
  answered in full.  `AcceptedOrRefused`: no connection waits for ever, also when all
  slots are in use.  `NoSlotHeld`: no client that neither sends nor reads
  keeps a slot, whatever it is waiting for.
- `WholeAnswers`: an answer with status OK is all of it.  `RejectedUntouched`: a
  request refused for what it says has touched no filter.  `BatchInBounds`: a batch is
  not read past its end and, when accepted, to its end.  `Understood`: no request of
  `bloomctl` is refused for its form, and it prints under each label what the daemon put
  there.
- `FlagsKept`: metadata that bloomd wrote and a start accepts has the flags that were
  written.  `ReadsBack` asks in addition that it is accepted, with its pin path; this is
  refuted, and `LostExactly` (`FormatsProofs`) says for which metadata.  `NotFlattered`:
  no file, edited or with lines missing, one without either flag included, makes a
  filter look empty, or its log clean, unless it says so.

### Bounds

One filter is enough for the data properties: handlers of different filters share
only the directory fsync, the pool and map identities, and the theorems cover any
number.  Two digests let one be safe and the other pending.  `BufCap = 1` makes
every second buffered digest meet a full buffer; a batch of two has a first item
that succeeds and a second that fails.  Three maps are the filter's, the pool's and
the one being created.  `RecUnits = 2` gives one torn length per record.  The store
run has no bound on the number of requests, restarts or crashes: the state space is
finite as it is.  Digests, names and maps with equal parameters are symmetric, since
they are only compared; `StoreLive` uses no symmetry.

`client_loop`: a header of two units and sockets that take one, so that both directions
come in pieces; two slots and three clients, so that one is turned away or takes over a
slot; one client pipelines two requests, the first with a body, one sends an invalid
header, one stays silent; a backlog of two and a time-out of one tick.  Two of the
clients may hang up at any moment.  `client_live`: the same slots, sockets and time-out
with a header of one unit; one patient client pipelines two requests, one stays silent,
and the third sends a request with an answer of two units, of which it may read none,
one or both.

`sequential`: four filters with names of length 1 and 40, where three long names overflow
`MaxBody` in a LIST; batches of up to two items of 0 or 34 bytes, of which two no longer
fit behind a long name; body lengths that are off by -4, -1, 0 or 1; one append that
fails for want of memory; one edit of each file, which may take both flags out of it
(`MaxEdits = 1`).  In the set of filters a first allocation of two instead of eight and
four names, so that the array is allocated, grown and emptied, and a removal happens
before, at and behind `last_index`.

### Fairness

`WF_vars(Daemon)`: once a handler, the loading or the shutdown has begun, the
process goes on.  `SF_vars(SyncBegin(n))`: `main` calls `bloomd_sync_dirty_logs`
in every iteration of its loop, an iteration waits at most `BLOOMD_POLL_TIMEOUT_MS`
for `poll`, and serves each client at most once.  Requests arriving without pause
disable `SyncBegin` again and again, but cannot keep the loop from its end: hence
strong fairness.  Requests, kills and stops have no fairness.  In the `live` run
no call fails: a sync that fails for ever leaves the log behind, and one whose
metadata write fails waits for the next ADD.

In `ClientLoop`: `WF(Loop)`, the process goes on; `SF(Tick)`, time passes if
`poll` finds nothing to report again and again; `WF(Drain(c))` for each patient client, which reads
its answers as `bloomctl` does.  Nobody has to connect, send or hang
up, and a client that is not patient need not read either.  `client_live`
has no faults: with `slow` a client that does everything right may be timed out.

Each property of a passing run has a mutant: a definition `Bug...` with a
plausible mistake in the definition that follows it, which makes TLC report that
property as violated.

## 4. What is proved

| Theorem | Module | States |
|---|---|---|
| `ControlInvariant` | `FilterStoreControl` | `Spec => [](TypeOK /\ ControlInv)` |
| `TypeCorrect` | `FilterStoreControl` | `Spec => []TypeOK` |
| `MemoryAgreesWithDisk` | `FilterStoreControl` | `Spec => []DiskMatchesMemory` |
| `PendingMarked` | `FilterStoreControl` | `Spec => []PendingIsMarked` |
| `DataInvariant` | `FilterStoreData` | `Spec => [](TypeOK /\ IInv)` |
| `AddedIsFound` | `FilterStoreData` | `Spec => []NoFalseNegative` |
| `CleanIsComplete` | `FilterStoreData` | `Spec => []CleanLogComplete` |
| `AddedIsRemembered` | `FilterStoreData` | `Spec => []NeverForgotten` |
| `MapInvariant` | `FilterStoreMaps` | `Spec => []MapInv` |
| `MapsNotShared` | `FilterStoreMaps` | `Spec => []OwnMap` |
| `PoolUnused` | `FilterStoreMaps` | `Spec => []PoolIsUnused` |
| `EmptyIsUnpinned` | `FilterStoreMaps` | `Spec => []MetadataOnlyUnpinned` |
| `PinInvariant` | `FilterStoreMaps` | `Spec => []PinInv` |
| `StartAccepts` | `FilterStoreMaps` | `Spec => []NeverRefused` |
| `StopIsComplete` | `FilterStoreMaps` | `Spec => []StopSyncsAll` |
| `NoneLeftBehind` | `FilterStoreRefine` | `Spec => []ServesAll` |
| `StoreImplemented` | `FilterStoreRefine` | `Spec => ImplementsStore` |
| `FilesInvariant` | `FilterStoreRefine` | `Spec => []FileInv` |
| `StartsAreHarmless` | `FilterStoreRefine` | `Spec => SoundStaysSound` |
| `ReportIsSafe` | `FilterStoreRefine` | `Spec => []VerdictKeepsDigests` |
| `SetInvariant` | `FilterSetProofs` | `Spec => [](TypeOK /\ NamesUnique)` |
| `IndexInRange` | `FilterSetProofs` | `Spec => []TypeOK` |
| `SetImplementsTable` | `FilterSetProofs` | `Spec => ImplementsTable` |
| `CacheFollowsEntry` | `FilterSetProofs` | `Spec => CacheFollows` |
| `LoopSafe` | `ClientLoopProofs` | `Spec => [](TypeOK /\ AnswersInOrder /\ OneSlotEach)` |
| `ClientsTyped` | `ClientLoopProofs` | `Spec => []TypeOK` |
| `SlotsAreClients` | `ClientLoopProofs` | `Spec => []OneSlotEach` |
| `TurnsKept` | `ClientLoopProofs` | `Spec => TurnKeepsClient` |
| `MetaInvariant` | `FormatsProofs` | `FileSpec => []MetaInv` |
| `FlagsAreKept` | `FormatsProofs` | `FileSpec => []FlagsKept` |
| `WrittenIsReadBack` | `FormatsProofs` | `FileSpec => []LostExactly` |
| `ReaderNotFlattered` | `FormatsProofs` | `FileSpec => []NotFlattered` |
| `AnswerInvariant` | `FormatsProofs` | `ReqSpec => []AnswerInv` |
| `AnswersAreWhole` | `FormatsProofs` | `ReqSpec => []WholeAnswers` |
| `BatchInvariant` | `FormatsProofs` | `ReqSpec => []BatchInv` |
| `RefusedIsUntouched` | `FormatsProofs` | `ReqSpec => []RejectedUntouched` |
| `BatchStaysInside` | `FormatsProofs` | `ReqSpec => []BatchInBounds` |
| `AskedInvariant` | `BloomctlProofs` | `ReqSpec => []AskedInv` |
| `ShownInvariant` | `BloomctlProofs` | `ReqSpec => [](Layout /\ ShownInv)` |
| `ClientUnderstands` | `BloomctlProofs` | `ReqSpec => []Understood` |

Those about `FilterStore` hold for any sets of names, digests, maps and parameters,
any buffer capacity and batch size.  From the constants they need
`ConstantAssumption` and `NoFileAssumption` only.  What they assume of the environment:

| Theorems | Assume | Because |
|---|---|---|
| the four of `FilterStoreControl` | nothing | |
| those of `FilterStoreData` and `FilterStoreRefine` | `WholeWrites`, `DirSynced`, `ReadsWork`: no partial write, no lost directory fsync, no unreadable metadata | `torn_write`, `directory_sync` and `unreadable_metadata` each break one of them |
| `MapInvariant`, `MapsNotShared`, `PoolUnused`, `EmptyIsUnpinned` | `NotKilled`, `UndoWorks`: no kill, no failure of a call whose result is discarded | `shared_map` shows what a kill does; an unpin that fails while a first ADD is undone leaves the same pin |
| `PinInvariant`, `StartAccepts` | these two and `PinsStay`: nobody removes a pin, the host stays up | `refused_start` shows what a kill does; a filter whose log lags behind its map is lost with the map, and then the daemon is meant to refuse |
| `StopIsComplete` | `CallsWork`: no call fails | a sync that fails leaves its log behind; kills, host crashes and unreadable metadata are allowed |

The theorems about `FilterSet` need `SetAssumption`, those about `ClientLoop`
`LoopAssumption` and `FramesAssumption` (the requests of a client follow each other in
its stream); they hold for any number of names, clients, slots and requests and for
every set of faults.  Those about `Requests` need `RequestAssumption` (lengths and
limits are numbers, and the names of filters are valid and no longer than `MaxName`,
as CREATE and a start make sure of), and hold for any names, limits, batches and body
lengths, and for any number of appends that fail; those about `MetaFile` hold
for files of any length, after any number of writes and, as nothing is asked of
`MaxEdits`, any number of edits.

The argument.  The properties are not inductive.  `ControlInv` says what is known at
each `pc`: which filter is in the set, what its metadata is and on disk, which of
pin and log exist.  Without it a step such as `SyncMeta` would write `clean` for a
filter that it knows nothing about.  `DataInv` follows each added digest: `DiskData`
says that the disk owes it to a filter whether or not it is loaded (in the durable
log when `clean`, in the pinned map when there is one), `SetData` that the map in use
has it and that log and buffer together have it unless the log has a hole,
`AddData` where the digest being added is and that a rollback keeps the others,
`StepData` the same for the sync, CREATE and loading.  Alignment of the log's end is
part of it, since records behind a torn one are not found.  For each group of
actions one lemma says that it keeps the types (`...Types`), one that it keeps
`ControlInv` (`...Control`), one that it keeps `DataInv` (`...Data`); under each
there is a case per action, and per conjunct that the action can disturb.

`PendingMarked` rests on `BufInv`: digests wait only in filters of the set that are
marked, but for the one being added, and where `log_clean` goes back to 1 none wait.

`FilterStoreRefine` maps each action to one of `StoreSpec`, or to none.  It needs
`IInv` for the steps that serve a filter (its map must hold all that was added) and
for crashes (only empty filters may vanish); `ServesAll` is an invariant of its own,
needed for CREATE, which must not find digests under the name.

`FilterStoreMaps` needs three invariants of its own.  `OwnMap` alone is not inductive: a
map moves from the filter that is dropped to the pool, from there to the next CREATE,
and from the pin to the descriptor at a start.  `MapInv` says that each map has one
owner all the way, that a pin without a filter in the set exists only until a start is
over, and that a metadata-only filter has neither contents nor a pin but for the few
calls of its first ADD (`PinnedPcs`).  A kill between these calls is exactly what breaks
it.  `PinInv` adds where there is a pin: with every `dirty` metadata but for one moment of
DROP, and a start leaves no metadata out before it removes the pins it has no filter
for.  `StopInv` says that a log marked as behind is due (`log_dirty`), and in a stop is
in the queue of the forced sync or being synced.

`FileInv` is what `ReportIsSafe` needs besides `IInv`: where digests are, there is a
log; where there is a pin and `has_data`, too, and then it is durable.  `StartInv` is what
`StartsAreHarmless` needs: a pin that a start takes back is one that it made itself, for
the parameters of the metadata and from a clean log, so that the filter is `rebuildable`
as before; and metadata that a start has not loaded, and will not load, has no pin, so
that the removal of the pins without a filter touches no sound one.

`FilterSetProofs` proves `TypeOK` and `NamesUnique` inductive.  With unique names the
remembered index and the scan agree, which gives the refinement.

`LoopInv` in `ClientLoopProofs` adds to the two properties what a slot's counters say
in each state (`SlotInv`), that streams of connections without a slot are untouched by
the daemon (`ConnInv`), that waiting connections are distinct (`BacklogInv`) and that
only busy slots have events (`EventInv`).  Without the last one an accepted client
could be served with the events of the slot's last one.  That `FrameAt` finds the one
frame that begins at a position needs positions that grow; this is an induction over
the requests, done with a least counterexample from the well-foundedness of `<`.

`FormatsProofs`.  A result of the reader says nothing about how it came to be, so
`MetaInv` speaks of the lines read so far: `Place` says how many there are and whether
the rest of a line that `fgets` cut is still to come, `ReadTo` what they have made of
`*meta` and the `have_` flags, `BackTo` what that is when the file is as it was written.
`AnswerInv` says that what is in the buffer and what is still to be appended make up the
answer while no append has failed.  `BatchInv` holds the offsets at which the first loop
found the items (`ReadUpTo`): the second loop starts again from offset 0 and, when the
batch has changed a filter already, finds the same items, so that it cannot refuse the
batch any more.  The offsets are a function given step by step; no sum is needed.

`BloomctlProofs`.  `Layout` says that the fields of an answer lie one behind the other,
from offset 0 to `resp.len`; it gives what `bloomctl` finds at an offset without a sum
over the answer (`FieldAt`).  `AskedInv` follows a request of `bloomctl`: it is
`Formed`, the offsets of the items of a batch are those that `ComposeItem` gave them
(`Composed`), and so the loops of the daemon, which read the same lengths again, end
where the body ends and refuse nothing.  `ShownInv` says what has been printed at each
`pc`: nothing before the answer, in the loop over a LIST the entries before the one at
`off` (`Listed`), at the end what `Understood` asks for.  That needs all the others: a
complete answer (`WholeAnswers`), its layout, and a name and a count that are not zero.

Only model-checked:

- liveness (`SyncedEventually`, `PatientAnswered`, `AcceptedOrRefused`, `NoSlotHeld`):
  fairness is out of the prover's reach.

## 5. What is not modelled

- Hashing, the formula for the hash count and false positives: arithmetic on 64-bit
  words and doubles.  A digest is a value that is only compared.
- Argument parsing, directory creation and the probe for kernel support: they run
  before there is any state.  The counters of STATS, logging and wording.
- Metadata with another filter's name, a foreign pin path or a duplicate name at a start:
  set aside like an unreadable file.
- A rebuild in which the pinning of the new map reports `-ENOENT` (the pin directory is
  gone): the loading takes it for a missing log and sets the metadata aside
  (`daemon.c:480`).  In the model it fails like any other call and the start gives up.
- A truncation that was not synced and reaches the disk all the same: after a host crash
  the model has every record of a log that was synced.
- A `fsync` that fails and drops the pages, so that a retry succeeds without them; two
  daemons on the same directories.
- In `bloominspect`: `invalid_meta`, `bad_log`, a pin that is there but cannot be opened
  (`bad_pin`, `bloominspect.c:224` and `:284`) and `--strict`; and `unsafe_rebuild` for
  `has_data=0` with `log_clean=0` (`bloominspect.c:215`), which only an edit by hand gives.
- `bloomd_log_reset`, `bloomd_log_append_fd` and `bloomd_protocol_read_name`, which the
  programs do not call.

## 6. Observations

Not disagreements with a document, but good to know when changing the code.

- A client that sends a request and closes at once is reported with `POLLHUP`, which
  is tested before `POLLIN`: the request is dropped unread if the close is seen first.
- `bloomd_client_prepare_write` returns 0, so an answer is never written in the turn
  that produced it; it waits for the next `poll`.
- `bloomd_accept_ready` runs before timed-out clients are closed, so a connection may
  be turned away while a slot is about to become free.
- `BLOOMD_MAX_FILTERS` (`bloomd.h:18`) is used nowhere.  A LIST that does not fit is
  answered with an error, not cut.
- `bloominspect` says `rebuildable` for a filter with `has_data=0` and a leftover log;
  the daemon starts it empty.  Nothing was added to it, so nothing is lost.
