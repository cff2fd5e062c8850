# docker-volume-manager: a TLA+ model of the volume manager and its CSI driver

docker-volume-manager keeps a catalogue of named volumes, prepares and "mounts"
them on the hosts of a Docker Swarm, and serves their files. A *volume manager*
runs on the managers of the swarm, with an etcd member embedded in it and an
HTTP API; a *CSI plugin* on every node translates Docker's gRPC calls into that
API. This directory holds TLA+ modules for the parts with state, TLC runs on
small instances, and theorems about them that TLAPS has checked.

Contents: 1 the system, 2 the modules, 3 the runs, 4 what is proved,
5 findings, 6 what is not modelled, 7 the plan.

## 1. The system

| part (source) | state | operations that change it | whom it calls |
|---|---|---|---|
| metadata store (`pkg/store/etcd.go`) | etcd keys `/volumes/<id>` (JSON record) and `/volume-names/<name>` (ID) | CreateVolume, UpdateVolume, DeleteVolume: each a read and then a write | the etcd cluster |
| in-memory store (`pkg/store/memory.go`) | two maps under a lock | the same | - |
| volume handlers (`pkg/api/handlers/volumes.go`) | none of their own: the record they read lives in a goroutine's local variable | HandleCreate, HandleDelete, HandleStage, HandlePublish | store, storage backend |
| file handlers (`pkg/api/handlers/files.go`) | the files of a volume | HandlePut, HandleGet, HandleDelete | store (read only), filesystem |
| local backend (`pkg/storage/local/backend.go`) | directories, `.volume-mount` markers | Stage, Publish (Unstage and Unpublish have no caller) | filesystem |
| server and middleware (`pkg/api/server.go`, `middleware/`) | - | routing, 30 s timeout, recovery from panics | handlers |
| CSI driver (`pkg/driver/csi`, `pkg/driver/client`) | directories on its node | CreateVolume, DeleteVolume, NodeStage/Publish/Unstage/UnpublishVolume | the HTTP API, filesystem |
| lifecycles (`cmd/`, `pkg/config`, NewEtcdStore and Close) | how far each process has come; the plugin's socket file | start, wait for the cluster, signal, Shutdown and its deadline, Close | everything |
| backend registry, listings, health | constant after start | - | - |

**How they interact.** Docker calls a plugin over gRPC; the plugin makes a
directory on its own node and sends one HTTP request; echo starts a goroutine
for the request, inside the timeout middleware; the handler reads the record
from etcd, calls the backend, changes its copy of the record, and asks the
store to write it. There is no lock over any of this: two requests, in one
manager or in two, meet only in etcd and in the filesystem.

**What is hard.**

- *Read, then write.* Each store method reads in one etcd request and writes in
  another. Only CreateVolume's write is conditional (on the name key).
  DeleteVolume's transaction and UpdateVolume's put are unconditional, and the
  record that is put was read two or three requests earlier.
- *Half-done work.* The backend may fail after the first of two steps. A
  failed update of the record after a successful backend call is only logged,
  and the request is answered 200.
- *Lost answers.* After 30 s the caller gets a 503; a write that etcd has
  received may be applied later, a backend call and a file operation run on.
  A manager may die with requests in it. Callers repeat what failed.
- *Shared records.* The in-memory store hands out the pointer it keeps: handlers
  read and append to a volume's lists outside the lock.
- *Files.* A PUT is MkdirAll, open with truncation, write, Stat; a GET is Stat,
  open, reads; a DELETE removes a tree entry by entry. All of them interleave.
- *Shutdown and start*: a graceful shutdown that the server's own goroutine cuts
  short, a cluster that must elect a leader within 60 s.

**What makes each part correct.**

- store: the two families of keys agree; a name belongs to one volume at a
  time; a deleted ID stays deleted;
- volume handlers: a record claims nothing that was not done; what was
  answered stays true until somebody asks for its opposite;
- memory store: a catalogue as well; an entry is lost, and a record damaged, by
  a race of its own only;
- file handlers: read your writes, contents mixed by overlapping PUTs only, no
  failures without a cause; what is read is what was written, whatever the encoding;
- lifecycles: the cluster forms, a stopped process ends and has cut off no call
  it took, every call gets an answer;
- driver: repeated calls are harmless; no call fails that should not; what is
  answered OK was carried out on both sides.

`PROJECT.json` lists the hazards line by line with the properties that watch
them.

## 2. The modules

```
VolumeTypes
  |-- EtcdStore ----\
  |-- LocalBackend --+-- VolumeHandler --+-- MCVolumeHandler          (TLC)
                     |        |          |-- VolumeHandlerProofs      (TLAPS)
  VolumeCatalog -----+        |                |-- VolumeAckProofs    (TLAPS)
   (abstract; INSTANCE)       |
                     |        \-- CsiDriver ----+-- MCCsiDriver        (TLC)
                     |                          |-- CsiDriverProofs    (TLAPS; with
                     |                                      VolumeAckProofs)
  MemoryStore -------+-- MemoryHandler --+-- MCMemoryHandler          (TLC)
                                         |-- MemoryHandlerProofs      (TLAPS)
                                               |-- MemoryRaceProofs   (TLAPS)
  FileHandler --+-- MCFileHandler                                     (TLC)
                |-- FileHandlerProofs                                 (TLAPS)
  ContentCodec -+-- MCContentCodec                                    (TLC)
                |-- ContentCodecProofs                                (TLAPS)
  Lifecycle ----+-- MCLifecycle                                       (TLC)
                |-- LifecycleProofs                                   (TLAPS)
```

### VolumeTypes, EtcdStore, LocalBackend

The record of `types.go` without timestamps and backend name (only "local"
exists). `EtcdStore` has the two families of keys as functions `volumes` and
`names`, and ONE operator per etcd request: `NameIsFree` (the Get of
CreateVolume), `CommitCreate` (its transaction with the `If`), `PutVolume`
(UpdateVolume's Put), `CommitDelete` (DeleteVolume's transaction). etcd
executes a request atomically and its reads are linearizable, which is why
several managers need no model of their own: a request is the same wherever
its goroutine runs. `LocalBackend` has the directories and the markers, and
for each call its success and its half-way failures.

The operators whose names end in `Blind`, `Unchecked`, `KeepsName` and the like
are plausible bugs. No specification uses them; they are there to be put
in the place of the operator they follow, and each property is violated by at
least one of them.

### VolumeHandler

A request `r` has a step `pc[r]`, parameters `req[r]`, the handler's local
variable `vol[r]` and the answer `reply[r]`. Each action ends at the next etcd
request or backend call:

| action | code |
|---|---|
| `HandleCreate`, `CreateTxn` | HandleCreate up to the Get of CreateVolume; its transaction and the answer |
| `HandleDelete`, `DeleteGet`, `DeleteTxn` | GetVolume and the PublishedOn check; DeleteVolume's own Get; its transaction |
| `HandleStage`, `BackendStage`, `UpdateGet`, `UpdatePut` | GetVolume; backend.Stage and the changes of the local copy; UpdateVolume's Get and Put |
| `HandlePublish`, `BackendPublish`, ... | likewise |
| `RejectRequest` | every early return that has changed nothing |
| `ReadFails`, `WriteFails` | an etcd request returns an error; a failed write stays pending: it may be applied later or never |
| `Timeout` | the middleware's 503, and the cancelled context: what stops (`AfterCancel`) and what runs on |
| `Crash` | a manager dies with a set of requests in it |

`reply` is what the caller saw first, so that a request can be answered and
still have a step to take: those are the late writes. There is no step that
removes a pending write, because not applying it is the behaviour in which
the action is never taken. The properties are safety properties and see both.

`drawnFor` remembers the name for which an ID was drawn. IDs are drawn once (`uuid.New()`).
`SerialPerName` is an assumption about the callers, not about the code: with it,
no two requests on volumes of one name are open together.

### VolumeCatalog, the abstract specification

An ID is drawn for a name, registered if the name is free among the live
volumes or refused, removed, and never live again. The store can be read as such a
catalogue in two ways, and the module is instantiated for both: through the
name index (`RefinesIndexCatalog`, by which CreateVolume decides) and through
the records (`RefinesRecordCatalog`, what GetVolume and ListVolumes show). The
first holds always; the second only for callers that serialise.

### CsiDriver

The driver over the handlers, one call per request. `call[r]` is Docker's
call, `own[r]` an answer the plugin gives without the manager, `nodeDirs[h]` the
directories it has made on node `h`. `Success` and `AnswerOf` are the client's and
controller's reading of the status code (201 for a create; 200 and 404 for a delete;
200 otherwise). `GiveUp` stands for all that can end a call before the manager
has done anything. `CreateVolume` has the four cases of the parameters:
a path, other parameters without a path (the default path is put in), parameters the manager
rejects, and none at all (`Panic`: the assignment to a nil map). A publish
carries no node ID, hence `NoNode` (nothing reads the node of an entry). Unstage and
unpublish meet no route (405).
Docker may call any plugin with anything it knows, at any time, and repeat it.

### FileHandler

The filesystem below the volume's root, with inodes: `node[p]` is what is at a
path, `data[i]` what an inode holds, each byte bearing the PUT that wrote it.
Contents are told apart by writer and length alone, which is what truncation
and overwriting are about; an empty one may be PUT like any other. `HandlePut` is MkdirAll, `PutOpen` and `PutWrite` are
os.WriteFile, `PutStat` is the Stat whose error is dropped; `HandleGet` is the
Stat, `ReadOpen` and `Read` are os.ReadFile (it reads until end of file, so it sees
what was added meanwhile); `HandleDelete` is the Stat, `Remove`, `Empty` and
`Rmdir` are os.RemoveAll as the Go library does it. MkdirAll is one step (the paths of
the runs have one directory above them). A path below what is a regular file is
`Blocked`: MkdirAll, Stat and RemoveAll all get ENOTDIR, which `os.IsNotExist` does not
know, so that each of the three handlers answers 500 there. `before[r]` records which requests
were over when `r` arrived; the properties speak of real-time order through it.
The lookup of the volume is part of the first step of each request: it reads the
record and changes nothing, and deleting a volume does not touch its files.

### MemoryStore, MemoryHandler

The same handlers over `memory.go`. Each method of the store is atomic, since it
holds the lock to its end; `stored` and `names` are the keys of its two maps, and
`object[id]` is the one volume on the heap that everybody points to. Nothing copies
it: `volume.PublishedOn = append(...)` and `c.JSON` access it without the lock.
That is a data race, and the model makes it a choice between what the build can
produce: a slice is its three words, each loaded (`Load`) and stored (`AppendEntry`,
`StorePtr`, `StoreLen`, `StoreEntry`) on its own, in the order of the compiled append;
`array[r]` is the array that the append of request r has allocated. What follows
is an answer, a panic (the Recovery middleware makes it a 500), an answer with an
entry nobody sent ("Garbled"), or an access outside an array (`wild`), where
the behaviour ends because nothing can be said any more.

HandleStage is HandlePublish on a list with no word in common, and is left out;
HandleList answers with what HandleGet does, volume by volume. The store and the
backend ignore the context, so a request that times out differs in its answer
only, and a crash leaves nothing of the store: both are left out.

### ContentCodec

What `files.go` does to a content: `Stored` is HandlePut (base64 if it decodes, else the
text as it stands), `Shown` is readFile (base64 if there is a NUL among the first
bytes, else the text, which JSON alters where it is no UTF-8). Contents and texts
are sequences of bytes, and base64 and the characters of UTF-8 are computed, since the
properties are about which texts decode to what. `TextWindow` is the 512 bytes that isTextContent looks
at, scaled down to 2 so that a content can be longer. One file and one client.

### Lifecycle

`phase[m]` is a manager's process: down, failing (config.Load or embed.StartEtcd returns an
error), starting (waiting for ReadyNotify), serving, stopping (in Shutdown), closing (the deferred
Close). `member[m]` is what the cluster and the manager's data directory know of its
membership: nothing yet, both the same, a directory that was lost with its host, or one begun anew. `env[m]` holds the
environment variables that config.go reads and starting depends on; the initial cluster
is computed from them as NewEtcdStore computes it. `call[c]` is a call of Docker
to the plugin: in the plugin, sent on to a manager, answered, or cut off, and then by what (`Causes`).
`handler[c]` is the manager whose connection is busy with it: a client that gives
up leaves its handler running.

Three things end a stopping manager: Shutdown returning and Close
(`ShutdownReturns`, `CloseStore`), its deadline (`Deadline`), and the server goroutine,
for which a closed listener is an error (`ServerExit`). Time is abstract: the 60 s for a
leader run from each manager's own start and may be over at any moment before it is ready,
whatever its peers do (`StartTimeout`). A signal before signal.Notify kills the process as
`Crash` does.

A crash leaves the data directory on its host, where the task is started again; `LoseHost`
takes it away, and callers hear nothing. Every start says ClusterStateFlagNew (`etcd.go:69`), and
etcd refuses that to a member without a data directory if a peer that runs knows it
already (`Admitted`). So a lost member stays out as long as another that knows it runs.

## 3. The runs

All runs check for deadlock: a behaviour ends only when everything has been
dealt with (`Terminated`, `Finished`); in ContentCodec there is always a next step.
The runs of safety properties use the symmetry of the model values they
compare for equality only; `lifecycle` checks liveness and uses none.

| run | instance | checks |
|---|---|---|
| `concurrent` | 4 requests, 2 IDs, 2 names, 2 nodes, 2 paths, 1 fault | `TypeOK`, `NameIndexSound`, `EntriesEarned`, `AckedCreateStands`, `RefinesIndexCatalog` |
| `serial` | 5 calls through the driver, 2 IDs, 2 names, 2 target paths, one call at a time on a name, no fault | `IndexComplete`, `PublicationHonoured`, `DeleteIsFinal`, `RefinesRecordCatalog`, `DeletedIsGone`, `FailuresJustified` |
| `csi_faulty` | 4 calls, 2 IDs, 1 name, 2 nodes with plugins, 1 fault, nil parameters | `CsiTypeOK`, `OneVolumePerName`, `NodeCallsCarriedOut` |
| `files` | 3 PUTs or DELETEs and a GET, a directory and a file in it, lengths 0 to 2, 1 fault | `TypeOK`, `ReadYourWrite`, `ReadYourDelete`, `FailsOnlyWhenDisturbed`, `MixedOnlyByOverlap` |
| `memory` | 4 requests, 2 IDs, 1 name, 1 node | `TypeOK`, `PublishedIsProtected`, `EntriesKept`, `DamageOnlyByRaces`, `RefinesCatalog` |
| `codec` | texts up to 5 bytes over 5 bytes, contents up to 4 over 5 | `CodecTypeOK`, `MeantIsStored`, `GetIsFaithful`, `PutBackKeeps` |
| `lifecycle` | 3 managers in 5 environments, 1 plugin, 1 call, 2 faults | `LifecycleTypeOK`, `CleanExitsCutNothing`, `SignalEnds`, `ClusterForms`, `PluginServesAgain`, `EveryCallReturns` |
| `unique_names`, `publication_lost`, `unpublish_first`, `delete_idempotent`, `graceful_shutdown` | 1 to 4 requests or calls | one claim of the code about itself each, violated: section 5 |

What the passing runs show:

- `NameIndexSound`: a name that is taken always leads to an existing volume of
  that name. `RefinesIndexCatalog`: read through the index, the store is a
  catalogue. Both survive every interleaving and fault, because CreateVolume's
  condition is on the key it writes, and UpdateVolume can only bring a volume back
  *without* its name.
- `EntriesEarned`: each entry of StagedOn and PublishedOn is owed to a request
  of its own whose directories or marker exist. A record may claim too little
  (a lost or failed update), never too much.
- `AckedCreateStands`: volumes of different names never disturb each other.
- `serial`: with callers that serialise, what was answered stays true. The handlers are
  called through the driver here, which checks both at once.
- `OneVolumePerName`: however often Docker repeats a create whose answer was
  lost, it never gets two volumes of one name. `NodeCallsCarriedOut`: OK means done on both
  sides. `FailuresJustified`: without faults and overlap, a call fails only
  for a reason in the catalogue. Unstage and unpublish are exempt: they always fail,
  which is what `unpublish_first` is about.
- `ReadYourWrite`, `ReadYourDelete`: if nothing else touches a path between a
  write and a read that follows it, the read sees exactly the write, also after
  timeouts, partial writes and crashes; a deleted path is not found, or is below a
  regular file that was PUT since (500). `FailsOnlyWhenDisturbed`: without faults, a 500
  takes another request: one that overlaps on the path, or a PUT, also one that is over,
  of a file where this one needs a directory or of something below its file.
- `MixedOnlyByOverlap`: without faults and overlapping PUTs of one path, a file
  nobody is writing is exactly what its last PUT wrote.
- `memory`: the lists race, the catalogue does not. `PublishedIsProtected`: once a
  publication was acknowledged, a later delete is refused, even if the entry itself was
  lost to a race. `EntriesKept` and `DamageOnlyByRaces` bound the damage: it
  takes two requests that overlap on one volume.
- `codec`: what a client encodes is stored byte for byte, also if it is base64 itself; a text
  as it stands, unless it is base64; what a client reads is the file, unless that is neither
  Unicode nor has a NUL in the window; reading and writing back changes no binary file.
- `lifecycle`: whatever signals, crashes and lost hosts come, a process that ends
  by itself has cut off nobody, and once faults cease the managers that have their data
  directories serve for good, if they are a majority, also when a member is misconfigured,
  lost, or runs beside the cluster; the plugin listens again; every call gets an answer.
  A member whose directory is lost is refused by the others for good: section 5.

**Why the bounds suffice.** The races are between two requests about one volume or
path, plus those that set the scene. The longest scene known is that of
`UniqueNames`: create, stage, delete, create, four requests with two IDs and one
name. A second name is needed for one name's requests to disturb another's.
Five serial requests allow create, publish, delete, and a create and delete on top. In the
files, an empty content over one of length 2 shows a missing
truncation, a write of 2 can stop half way, one directory shows RemoveAll against MkdirAll, and three writers allow an
older content, a failed attempt and its repetition. One GET is enough, since
GETs change nothing. The scene of a path below a regular file takes the three
writers: PUT below a directory, DELETE of it, PUT in its place. In `memory` two IDs let
a name be created again. One node makes equal entries, so that one which another
overwrites is not seen to be missing; the theorem about `EntriesKept` is for any
nodes. Damage needs a race of two appends or of an append and an encoder, and a
create and a delete or a third append around it; the smallest race in which an entry
is lost needs a create and two publishes; capacities grow to
4. In `codec` five bytes hold a whole quantum and one byte more, and contents of
four bytes have every padding, a NUL beyond the window, and a character of two bytes whole,
halved and beside a NUL. Three managers are the
smallest cluster that survives a loss, two faults let it lose its majority, or one member's
data and then another member; calls only meet in the guards of the plugin's and the managers'
ends, where one is enough. One fault lets any single step fail at any point; crashes
of several requests at once are one fault.

**Fairness.** Only `Lifecycle` states any:

| action | fairness | why it happens in the end |
|---|---|---|
| `StartManager`, `PluginStart` | weak | Swarm and Docker restart what has ended |
| `StartFails` | weak | a process that has met an error exits |
| `Ready` | strong | a leader is elected within seconds while a majority runs: the 60 s cannot forestall it each time; a start without etcd waits for nothing |
| `StartBesideAnother` | strong | tasks are restarted within seconds and each waits 60 s: two that start again and again are up together again and again |
| `Deadline`, `ClientTimeout` | weak | clocks: the context of main.go, the http.Client's timeout |
| `CloseStore` | weak | etcd's Close returns |
| `PluginExit` | weak | GracefulStop returns once no call is left |

None is assumed of `Answer` (a slow client can keep a handler busy for ever), of `ServerExit`
(a race that goes either way), of `StartTimeout`, and of signals, faults
and calls. Hence `SignalEnds` rests on the deadline alone and `EveryCallReturns` on
the client's timeout alone. `ClusterForms` rests on the two strong ones: the timer itself
looks at no quorum and no peer, and without them managers could time out in turn
for ever. The other
modules have safety properties only; a pending late write must not be given
fairness, since etcd may never have received it.

## 4. What is proved

TLAPS checks, for every number of requests, volumes, names, nodes, paths, managers,
calls and faults, every environment, and for both values of `SerialPerName` where
the statement does not fix them:

| theorem | statement |
|---|---|
| `VolumeHandlerProofs!TypeCorrect` | `Spec => []TypeOK` |
| `VolumeHandlerProofs!NameIndexIsSound` | `Spec => []NameIndexSound` |
| `VolumeHandlerProofs!HandlersRefineCatalog` | `Spec => RefinesIndexCatalog` |
| `VolumeAckProofs!AckedCreatesStand` | `Spec => []AckedCreateStands` |
| `VolumeAckProofs!EntriesAreEarned` | `Spec => []EntriesEarned` |
| `VolumeHandlerProofs!EveryVolumeIndexed` | `Serial` implies `Spec => []IndexComplete` |
| `VolumeHandlerProofs!NamesAreUnique` | `Serial` implies `Spec => []UniqueNames` |
| `VolumeHandlerProofs!PublicationsStand` | `Serial` implies `Spec => []PublicationHonoured` |
| `VolumeHandlerProofs!DeletesAreFinal` | `Serial` implies `Spec => []DeleteIsFinal` |
| `VolumeHandlerProofs!RecordsRefineCatalog` | `Serial` implies `Spec => RefinesRecordCatalog` |
| `MemoryHandlerProofs!MemoryTypeCorrect` | `Spec => []TypeOK` |
| `MemoryHandlerProofs!MemoryRefinesCatalog` | `Spec => RefinesCatalog` |
| `MemoryHandlerProofs!PublicationProtects` | `Spec => []PublishedIsProtected` |
| `MemoryRaceProofs!UnracedEntriesStay` | `Spec => []EntriesKept` |
| `MemoryRaceProofs!OnlyRacesDamage` | `Spec => []DamageOnlyByRaces` |
| `CsiDriverProofs!CsiTypeCorrect` | `CsiSpec => []CsiTypeOK` |
| `CsiDriverProofs!CsiNameIndexIsSound` | `CsiSpec => []NameIndexSound` |
| `CsiDriverProofs!NamesGetOneVolume` | `CsiSpec => []OneVolumePerName` |
| `CsiDriverProofs!NodeCallsAreCarriedOut` | `CsiSpec => []NodeCallsCarriedOut` |
| `CsiDriverProofs!DeletedVolumesAreGone` | `OneAtATime` implies `CsiSpec => []DeletedIsGone` |
| `CsiDriverProofs!FailuresAreJustified` | `OneAtATime` implies `CsiSpec => FailuresJustified` |
| `FileHandlerProofs!FileTypeCorrect` | `Spec => []TypeOK` |
| `FileHandlerProofs!WritesAreRead` | `Spec => []ReadYourWrite` |
| `FileHandlerProofs!DeletesAreRead` | `Spec => []ReadYourDelete` |
| `FileHandlerProofs!FailuresHaveACause` | `Spec => []FailsOnlyWhenDisturbed` |
| `FileHandlerProofs!OnlyOverlapsMix` | `Spec => []MixedOnlyByOverlap` |
| `ContentCodecProofs!CodecTypeCorrect` | `Spec => []CodecTypeOK` |
| `ContentCodecProofs!MeantStored` | `Spec => []MeantIsStored` |
| `ContentCodecProofs!GetFaithful` | `Spec => []GetIsFaithful` |
| `ContentCodecProofs!PutBackKept` | `Spec => PutBackKeeps` |
| `LifecycleProofs!LifecycleTypeCorrect` | `Spec => []LifecycleTypeOK` |
| `LifecycleProofs!ExitsAreClean` | `Spec => []CleanExitsCutNothing` |

They rest on the named assumptions only. `NullAssumption` (of `VolumeTypes` and
of `FileHandler`), `CallAssumption` and `MemoryAssumption` say that NULL is no value,
request, call or answer; `BoundsAssumption`, `DriverAssumption` and `FileAssumption`, that
the bounds are numbers and the switches Booleans, and that the paths are a tree;
`LifecycleAssumption`, that no two managers have one slot set; `CodecAssumption`, that
texts and contents are bytes, of any length; `TextsAssumption`, that the texts are UTF-8, since
they come in JSON. TLC evaluates them on every
run of their modules. `Serial` is `SerialPerName = TRUE /\ MaxFaults = 0`, the
instance that callers who serialise see; `OneAtATime` is `Serial /\ NilParameters = FALSE`, that
of the run `serial`. Both are hypotheses, since without them the runs of section 5 refute
what follows from them. TLC has checked every inductive invariant below as
well, on the instance of its module's run.

**The argument for the etcd store.** `NameIndexSound` alone is not inductive. A late `CreateTxn`
or `UpdatePut` writes the record in a goroutine's local variable, and a late `DeleteTxn`
deletes the name in one, so the invariant has to say what these variables hold:

- `Locals`: a request at a step has the parameters and the record the step uses;
- `VolumesNamed`: every record, in etcd or in a local variable, carries the name its
  ID was drawn for. This is why a put cannot change the name of a record, and a delete that
  removes a record removes the name key that could lead to it, if any does.

`IndInv` is `TypeOK /\ Locals /\ VolumesNamed /\ NameIndexSound`. It is shown to
hold initially and to be kept by each action, one lemma or step per action.

For the refinement an abstract phase is computed from `drawnFor`, the index
and the pending creates. Every step maps to a `Draw` (HandleCreate), a `Register` or a `Refuse`
(CreateTxn), a `Remove` (DeleteTxn, when the name led to its ID), or a stutter: a
put changes no index, and faults change no key. `PendingOK` is needed
besides: at most one request holds the create of an ID, and the ID is in no index yet.

**What a 201 is worth.** `AckInv` adds to `AckedCreateStands` that a handler that still
runs has given no 201, and that an acknowledged create has its own parameters and
record. Thirteen of the fifteen kinds of step then are `NoLoss`: they acknowledge no
create and lose no key. Of the other two, `CreateTxn` writes exactly the keys the 201
speaks of, and can overwrite no other's name, since the name was free; `DeleteTxn`
deletes two keys, of one ID and its name, and becomes the delete that excuses it.

**What an entry is worth.** `EntriesEarned` counts: a list has a node no more often than
there are requests that put it there and whose directories or marker exist. Counting
the store alone is not inductive, since `UpdatePut` replaces a whole record by a copy made
at any time before. So the copies are counted too (`CopyEarned`): a copy is
read from the store and owes its entries to requests that are over; from the backend's step on
it has one entry more, which it owes to the request that holds it, and to no other. When it
is put, that request is over. Counts on both sides only grow, which is why an
old copy is harmless here, and the requests are finitely many (`IsFiniteSet(Busy)`),
which is why they can be counted at all.

**What callers get who serialise.** `SerialInv` relates the local record of a request to the
store: `RunOK` (two requests that run are on different names), `CopyOK` (the record in
a handler is the one in etcd but for the handler's own entry; the volume of a delete under
way is not published; the ID of a create is new to all) and the three invariants themselves.
`OthersKeep` is the heart of it: a step of one request is on a volume no other
request is on, so the others do not notice. The refinement needs no second
proof: `NameIndexSound` and `IndexComplete` together say that the records and the index
are one catalogue, and the index is one already.

**The driver over the handlers.** A step of the driver is a step of `VolumeHandler`,
or a call that sends nothing and may take its plugin down, `Drops`. The latter is not a
step of `VolumeHandler`, but it touches no record, and looks to the handlers
like callers that went away; so every invariant above holds under `CsiSpec` as well
(`CsiHandlersStep`). `CallsInv` joins the two sides: a request that is under way was sent for the
call its plugin holds, with that call's ID, name and path, after the plugin made the path
(`Matches`); a 200 for a node call means the manager's directory or marker is there (`HostOK`).
From this and from the invariants `AckInv` and `Kinds` of the handlers
follow `OneVolumePerName` and `NodeCallsCarriedOut`, with faults and panics. Under
`OneAtATime`, `SerialInv` is kept too, and `GoneOK` (what was once
answered 404 to a delete stays gone) gives the remaining two. For `FailuresJustified`,
an action property, each step that gives an answer is shown to read its reason from the store.

**The argument for the memory store.** Here the refinement goes through the records: an ID
is live when `stored` holds it. `MapsAgree` (each stored ID has its name's
entry, and names lead to stored IDs only) is kept because the two maps change
together, and because a volume's name is never written after it was made:
`StoreKeeps` shows that of every store of a word into a slice. `Locals` says
that a handler holds a pointer to a volume that exists, stored or not, and `PendingOK` that a create
is the only one for its ID. Ten of the thirteen actions are then
quiet: they keep the types and change nothing the catalogue sees, however the words
they load are mixed.

A publication protects its volume although entries get lost: whatever is stored as a
length is positive, so a length never goes back to 0 (`LengthsStay`), and a
publication that was over when a delete arrived left one (`RefusedOK`).

What races can do is limited by who owns an array: a pointer in a volume, or
in the hand of an append, leads to an array allocated by an append to the same volume
(`OwnersOK`). An append that no other overlaps has in hand what is in the volume, but for the words it
has still to store (`HandsOK`); so when it has stored its entry, there is an index at which the entry is
found in the volume, and in everything a later append starts from. From then
on no step takes it from there (`EntriesStay`): pointers lead to arrays that hold it, lengths stay
above it, and an append writes at its own length only. Later races are covered. That is `EntriesKept`. Where
no two requests of a volume overlap with a publication, the three words of its slice fit together and every
entry below the length is written (`Soundness`); no load can then be out of bounds and no
answer garbled, which is `DamageOnlyByRaces`.

**The argument for the files.** `FileInv` says what a request at a step has, and that
the paths are a tree: what exists has directories above it and comes from a PUT.
`Alters(q, p)` is the relation of the properties: q may change what is at p.

- `ReadInv` follows a PUT, a DELETE and a GET through their steps. A PUT that nobody has
  disturbed since it arrived finds at its path the file it opened, then what it wrote
  (`WriteOK`); what a DELETE removed stays absent until it is made again (`DeleteOK`). A
  GET that comes after either, with nothing between, has at each step seen just that
  (`SeesWrite`, `SeesDelete`). Requests that ran before and beside are arbitrary.
- `CauseInv`: unless another request has disturbed it, a request still finds what
  it found or made, the directories above it or the file it opened; so a 500 takes a fault.
  A 500 for a path below a regular file needs no step beside it: the file there was made by a
  PUT, which is the one that disturbs it (`BlockedIsDisturbed`), and a DELETE that has removed
  what is above a path leaves no file there until such a PUT (`ClearStays`, `InTheWayStays`).
- `LastInv`: as long as the PUTs of a path do not overlap and nothing failed, one of them is the last
  to have opened the file; it is about to write to an empty file, or has written it all.

**The argument for the contents.** The invariant `CodecInv` is short: what is shown was read
from the file as it is, and files and texts are sequences of bytes. The rest is about
the operators, for sequences of every length.

- Base64 (`DecodeEncode`, `EncodeDecode`): three bytes and four digits are two ways to
  write the same 24 bits (`WordFromBytes`, `WordFromDigits`), and a
  digit depends on the byte of its place and the one before (`DigitsDepend`). So padding is decoded to no
  byte, because it stands for digits that are 0; and a text comes back but for
  the last digit before the padding, some of whose bits belong to no byte. That is
  `SameBase64`, the exception of two properties.
- JSON (`MarshalStringIs`): what MarshalString writes is Unicode, also where the replacement
  characters it puts in stand beside bytes that it keeps. This goes by induction
  over the prefixes of the content: a prefix's image is Unicode but for a character at its end
  that the content has begun and not ended (`Ends`, `Closed`).
- Induction: the library's theorems take an operator. `Induction` says the same of
  a set of numbers, which follows from the first-order `WFMin`: a set of numbers that is not empty
  has a least one. `FlattenExists` shows with it that FlattenSeq's
  recursive function exists at all.

**The argument for the lifecycle.** A clean exit of a manager comes from `closing`, of the
plugin when no call is in flight. That no handler runs in a closing manager is
part of `LifecycleTypeOK` (the handler of a call is a manager that serves or stops),
which makes the two together inductive.

**Only model-checked.** Every property that a passing run checks has a theorem,
but for the liveness properties of `Lifecycle` (`SignalEnds`, `ClusterForms`,
`PluginServesAgain`, `EveryCallReturns`): liveness under fairness, and the ENABLED it
takes, are out of the prover's reach.

## 5. Findings

Each is a run that ends in a violation, with the trace TLC prints. `PROJECT.json`
quotes the lines.

1. **Two volumes of one name** (`unique_names`, `etcd.go:237`): the put of a
   stage or publish that read the volume before its delete writes it back without a name.
   A create has meanwhile seen the name free.
2. **A publication is lost** (`publication_lost`, `volumes.go:175`): delete
   checks, publish publishes, delete deletes; or two updates overwrite each other.
3. **Delete is not idempotent under concurrency** (`delete_idempotent`,
   `volumes.go:183`): ErrNotFound of the second read becomes a 500.
4. **A published volume cannot be deleted any more** (`unpublish_first`, `server.go:85`):
   DELETE of `.../publish` has no route, the driver's unpublish is answered 405, and the entry
   that a delete is refused for ("unpublish first") stays.
5. **Shutdown is not graceful** (`graceful_shutdown`, `main.go:71`): closing the
   listener makes Start return `http.ErrServerClosed`, and the server goroutine calls
   os.Exit(1) while main waits in Shutdown. Requests are cut off, and the store is not closed.

Behaviours met while modelling that have no run of their own, because the
properties above are stated around them:

- Nothing asks for staging before publishing: ErrVolumeNotStaged is never returned (`volumes.go:299`).
- Unstage is not routed either (`server.go:84`); nothing depends on StagedOn.
- A create without parameters panics, and ends the plugin (`controller.go:49`).
- Overlapping PUTs of one file mix (`files.go:219`).
- A plain text that is valid base64 is stored decoded (`files.go:192`).
- A GET or DELETE below a regular file is a 500, not a 404 (`files.go:119`, `files.go:300`).
- A member whose data directory was lost with its host is not let in again while another that
  knows it runs, since every start says ClusterStateFlagNew (`etcd.go:69`): a cluster of three goes
  on with two. `ClusterForms` is about the members that have their directories.
- CLUSTER_SIZE and TASK_SLOT are not validated (`config.go:45`): a slot out of range
  restarts for ever, a missing size makes a store of its own.

## 6. What is not modelled

- HandleList, HandleGet of volumes over etcd, ListVolumes, ValidateVolumeCapabilities,
  the identity service, health and backend listings: they change nothing.
- Local Unstage and Unpublish, GetVolumeByName: no caller.
- The backend registry (filled before the server starts, read only after); logging, CORS,
  request IDs; MIME types, modes and times of files; what a directory listing
  contains; the splitting of the plugin's endpoint; packaging.
- etcd's own consensus: an external system, taken at its word (atomic
  transactions, linearizable reads, a leader while a majority runs).
- Timing: a timeout may happen at any moment while its clock runs.
- Two volumes over one source path; the volume's root directory in FileHandler.
- Data races elsewhere: the etcd store decodes a record of its own for each request.
- What etcd does with a member that began anew while no other that knew it ran: `ClusterForms`
  claims nothing of such a cluster.
- Two managers with one slot: etcd would refuse one of them or be confused by it.

## 7. What is left

1. Liveness of `CsiDriver`: with fair handlers, does a repeated call succeed in the
   end? (A create whose answer was lost cannot: it gets 409 for its own volume.)
2. HandleStage beside HandlePublish over the memory store, for the two lists of
   one answer.
