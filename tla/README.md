# Elko in TLA+

This directory holds a TLA+ model of the parts of Elko whose behaviour depends on
time, failure, interleaving or order, the TLC runs that check it, and TLAPS proofs
about the lease protocol (also with requests that outlive their callers), both sides of a
protocol connection, the service connection, the file cache, the build order, the saved revisions of
dependencies, the capacity monitor with its histograms and the goroutines of a service process. Elko is a runtime for services written in Go: a *service
manager* accepts connections from local services and node.js processes, nodes of a
cluster keep *leases* in Consul, and helper packages track files, load and plugins.
The repository has no tests; what is checked here is taken from the code, and
what it is checked against from doc comments and from what each part is for.

    tlc -workers 2 -config MCLease_code.cfg MCLease     # one run
    tlapm Lease_proofs.tla                              # the proofs of one module

## 1. Inventory

| component | state | operations | hard behaviours | what makes it correct |
|---|---|---|---|---|
| `pkg/lease` | the Consul key of the lease; the expiry, attempts and item of each running function | `Acquire`, `Maintain`, `Contest`, `Invalidate`, `Cleanup` | several processes over a store that is slow and fails; polling against a clock; crashes; a value that does not name its owner | at most one process acts on a lease; it is removed only when nobody does; an invalidation sticks; challengers come back |
| `pkg/consul` | endpoint, endpoints, counter `i`; the store itself is external | `Get`, `Wait`, `CAS`, `Put`, `Delete`, listings | errors that hide whether a write was applied; no timeout | compare-and-set semantics reach the caller |
| `pkg/protocol` | per connection: `closed`, `in`, `queue`, the proxy's `buf`, both loops' buffers; the shared `payloadPool` | `Write`, `Close`, `Run`, the two loops, `proxyQueue` | goroutines over channels; recycled structs; errors in the middle of a frame; a handler that fails | a FIFO of whole frames each way; nobody blocks for ever; an error ends the connection |
| `pkg/servicemanager` | per connection: `closed`, `seen`, buffers, `pending`; per server: `queues`, `serviceMap` (never used) | `handle`, `handleService`, `read`, `write`, `close`, `New`, `Run` | a byte stream cut into arbitrary pieces; a handshake; clients that die | messages are taken up as sent; the goroutine ends with its client |
| `pkg/filecache` | `Files`, `Changed`, `Tracked`, `Index`, `Digest`, `PathMap` | `Update`, `Track`, `Read`, `TrackingData`, `ResetTracking`, `ChangedSince` | files change while they are walked; a walk that fails half way; later calls rely on what earlier ones left | no change of a tracked path goes unnoticed; the cache converges to the disk |
| `pkg/stats`, `pkg/capacity` | two weighted samples kept as heaps; the last percentiles | `Update`, `Percentile`, `Monitor` | rescaling of weights; readings that fail | recent samples weigh more; the hook gets current values |
| `pkg/plugin` | the current v8 worker | `New`, `Update`, `Configure` | two updates at once | one worker lives, each is disposed of once |
| `pkg/elko` | the last context ID | `NewContext`, `Fire`, logging | mutual recursion on errors | IDs are unique; an error leaves a log entry |
| `cmd/build-go-service`: build order | package map, moved set | `FindPackages`, pruning, sort, compile | in-place sort, cycles, archives of earlier builds | packages are compiled after what they import |
| `cmd/build-go-service`: dependencies | the file `.goimports`; the clones of the workspace | `SaveImports`, `Install` | maps without order, ignored errors, a file truncated before it is written | what is saved is what the service needs, at the revisions its clones are at, and can be installed elsewhere |
| `runtime/nodejs` | the two queues, the socket | `run`, `write`, `Queue` | a pop that waits for a push | no lost wake-up |
| the rest | none that changes | `pkg/config`, `pkg/freeport`, `cmd/elko`, scripts | | |

How they interact: `lease` calls `consul` (one HTTP round trip per call, no shared
state besides the client). `cmd/elko` builds a `servicemanager.Server`, which starts
a goroutine per accepted connection; connections share nothing. The node.js
runtime is the client of such a connection and writes the frames `handleService`
reads. A service process is many goroutines that share a counter of contexts
and the handlers of plugins. `protocol.Conn` joins its callers, its three goroutines and its handler by two channels,
a lock and the pool. `capacity` feeds `stats`. `Build` sorts
and compiles after `SaveImports` has written what `Install` reads, maybe on another machine.
`filecache` stands alone.

What is hard to test, with its line and the property that covers it, is listed
in `PROJECT.json` under `hazards`.

## 2. Modules

| module | models | composed of |
|---|---|---|
| `Consul` | the key of a lease, and `Get`, `Wait`, `CAS`, `Delete` on it | |
| `Lease` | `lease.go` | extends `Consul` |
| `LeaseInv` | the lease's properties and its inductive invariant | extends `Lease` |
| `LeaseLate` | requests that Consul handles after their callers have given up or crashed | extends `LeaseInv` |
| `LeaseLock` | what a lease promises: its life from grant to removal, who acts on it and who removes it | refined by `LeaseInv` |
| `Lease_proofs` | the proofs | extends `LeaseLate` |
| `Conn` | the sending side of `protocol.Conn` | |
| `MessageQueue` | what it promises: a FIFO of whole frames | refined by `Conn` |
| `ReadLoop` | the receiving side, `StartReadLoop` | |
| `Protocol_proofs` | the proofs about both sides | extends `Conn` and `ReadLoop` |
| `Service`, `Service_proofs` | `Server.handle`, `handleService`, `service.read`, and the proofs | |
| `FileCache`, `FileCache_proofs` | `filecache.go`, and the proofs about it | |
| `BuildOrder`, `BuildOrder_proofs` | `Build` of `build.go`, and the proofs about it | |
| `GoImports`, `GoImports_proofs` | `deps.go`: `SaveImports` and `Install`, and the proofs | |
| `Histogram` | `stats.go` | |
| `Monitor`, `Monitor_proofs` | the loop of `capacity.go` with the steps of `Update`, and the proofs | extends `Histogram` |
| `Sampling` | what a histogram's sample is without its heap | refined by `Monitor` |
| `Goroutines` | program counters of the goroutines of a process | |
| `Context` | `context.go`: `NewContext`, `Fire` and what logs by it | extends `Goroutines` |
| `Plugin` | `plugin.go` | extends `Goroutines` |
| `Process`, `Process_proofs` | goroutines that use contexts and a plugin, and the proofs | compose `Context` and `Plugin` |
| `MC...` | instances for TLC, one per component | |

Operators marked `MUTANT` are never part of a specification. Each is a plausible
slip in the definition that follows it, kept to show that a property notices it.

### Lease

`pc[p]` is the call or sleep process `p` is in: `acquire`, then `m_sleep`, `m_get`,
`m_cas` for `Maintain`; `c_get`, `c_cas`, `c_look`, `c_wait` for the four calls of
`Contest`; `i_get`, `i_cas` for `Invalidate`; `sleep`, `cleanup`, `delete` for what
both end with. A call is three steps: the request leaves, `Serve` is Consul
handling it, and the step named after what the code does with the answer
(`MaintainReads`, `ContestDecides`, ...) consumes `reply[p]`. Everything else may
happen in between. Calls of processes in `Flaky` may return an error, a
compare-and-set or delete also after it was applied. `Crash` ends a process at any point; it may
start again, and the store keeps what it holds. In `Lease` a request whose caller has crashed
is dropped; `LeaseLate` keeps writes in `late`, from where Consul handles them at any
later time or never (`GiveUp`, `CrashInFlight`, `ApplyLate`). A late Delete removes
whatever is there, also another's lease, so that `LateCASHarmless` is about compare-and-sets:
`sound` records that no Delete was late and that challengers came one after the other.

Time is `Tick`. `left[h]` is `expiry - now`; `wait[p]` is the rest of a sleep or of
the interval of a blocking query. For a holder `wait` goes on below zero and
bounds how late a pending step of it, Consul's part included, can be: `Lag`. Challengers
may be arbitrarily slow. Clocks are assumed to run at the same rate; they are not
compared with each other, as the code does not either.

Of Consul, which is external, the model takes: consistent reads and
compare-and-set are linearisable, each write gets a fresh `ModifyIndex`,
index 0 asks for absence, and a blocking query returns when the item changes or
its wait has elapsed, not before. Real Consul adds up to 1/16 of the wait as
jitter, which only makes a challenger slower.

### Conn and ReadLoop

A message of `Conn` is one call of `Write`. `Write` is three steps as the lock
makes them (check, fill, send), the write loop three more (opcode, rest and flush,
put), with `pay` the contents of the recycled structs at each moment.
`Payloads` stands for all structs that are ever allocated. Frames count as sent
when flushed; bytes of a frame of more than 4096 bytes that reach the socket before
the flush fails are not modelled. `LoopFails` covers encoding errors, deadlines and
a closed socket. The queue and lock of Go channels and mutexes are the model's atomicity.

`ReadLoop` cuts the stream into units (an opcode, a length, a byte of data or
body), each of which knows its frame. A read that finds a unit of another
kind takes any value for it, so that nothing is assumed of a stream that got out
of step. A read deadline is set at the top of the loop; once a Read has found it passed (`late`) every
further Read of that frame fails, and the loop hands over what it has and begins anew, any number of times. From the
first one on the calls of the handler are not
recorded, as they may be made of any bytes, but the loop goes on as the code does. The peer is taken to be well-formed:
the writer sends data and body if they are not nil, whatever the opcode (lines 308 and 329), and nothing in
this repository calls `Write`; the model's peer has them where the opcode calls for them. `AfterData`, `ReadLength` and `ReadBytes` serve data and body alike, as the code has
the same lines twice.

### Service

The same representation, with a header of opcode and length, message and hash.
`Fill` is what `conn.Read(buf)` does to a buffer that is passed whole each time.
A read that times out is repeated and is no step of the model. A Read may return less than it was asked for; `cut` is the
message in which one first has, and `reason` says why the goroutine has returned. The client is what
`runtime/nodejs` writes. That the first byte of a length is zero (messages are
smaller than 16 MB) is built into `AsOp`.

### FileCache

`Update` is a walk of steps (`list` a directory, look at a `file`, `leave` a
directory, `finish`), between which files are written and removed. A write gets a fresh
modification time, which also names the contents. `dirty` holds the directories
whose local `changed` is true, so that `MarkDir` and `Leave` propagate it as
`updateDir` does on return. Any listing or reading may fail and `Abort` the
Update; `failed` records that one has. The order of the walk (`Walk`) is a constant, as `ioutil.ReadDir` sorts;
`WalkAssumption` says of it what the recursion of `updateDir` makes true of any tree: a directory is listed
before a file in it is looked at and returns after it, and before the directory above returns. `Above` is
the loop over `filepath.Dir`, as the least set that holds what is above each of its directories.
Paths are relative, as with an absolute one the loop at line 150 would never end once a file is deleted.
`NoSession` restricts when the caller updates; see the hazards for what happens otherwise.

### BuildOrder

`Project` is the key set of `packageMap`, `imports` what `FindPackages` found in the
sources. `PrunePackage` is one round of the loop at line 64; which package comes next is
open, as a map has no order. `sorted` is the array of line 114 and `base` where the slice
`packages` of it begins, so that `Move` writes to the array `Skip` and `Move` range
over. `NextPass` is the end of a pass (lines 132-144). An archive is all the compiler sees
of an import: `archives` begins with any left from earlier builds, and grows with what
is downloaded and compiled. `Download` ends with `SaveImports`, which may exit (`unsaved`); what it writes is `GoImports`. At this commit the package does not build
(`compilerPath`, `linkerName`, `compilerName` and `GO` are not defined in it); the order does not depend on them.

### GoImports

`head`, `known` and `outside` are the clones in the workspace, and `file` the entries of
`.goimports`. `Scan` is one round of the loop over `infoMap`, any package next; it
changes directory (`dir`), which fails silently for a clone that is not below the first
entry of `GOPATH`. `Create` truncates, `Write` fills, and `Stop` (a `log.Fatal`
or a crash) may come between. Between two runs of the tool a developer pulls, checks
out, clears revisions (`Unpin`) or moves to a machine with the project alone. `go get` clones what is missing and
leaves the rest, as `GO` and `Run`, undefined at this commit, are taken to. The revision saved is the one the
clone is at (`At`). It need not be what the service is linked with: `Build` links an archive of an earlier
build without compiling it again (`build.go:71-81`), also after a pull, and archives are not in this model. Every import is
taken to depend on something, if only of the standard library; for packages that import
nothing at all, `go list` without arguments would list the working directory (`deps.go:199`).

### Histogram and Monitor

`Update` is cut where container/heap (external) calls the methods of `sample`: `Read` is the swap of `heap.Pop`, each
`Sink` one of `heap.down`, `Pop` the end of it, `PushNew` the append, each `Rise` a swap of `heap.up`, and `Updated` what
follows, with `Percentile`. `step` and `at` say where in it the loop is, and which element moves. Nothing else runs in
between; the steps stand for the iterations of the library's loops, which no recursive operator hides. Weights
are logarithms: `exp(decay * t) / rand` becomes `decay * t + draw`, with whole draws,
so that the order of two weights is the order of the code's. `Percentile` keeps the fraction exact by
scaling with `Whole`. `born` and `behind` of an element are history, for the properties.

### Context, Plugin and Process

`pc[g]` is where goroutine `g` is in its current call. `Count` and `Take` are the two halves of the
section under `muCtx`. `fires[g]` is how many calls of `Fire` are on the stack of `g`: `NotWritten` adds
one, by way of `ErrorData`, and `Return` takes one off, so that a failure of the log
service is reported by a Fire that may fail as well. `encodes[g]` is false for arguments no
entry about which can be written either; then the stack overflows (`crashed`). `Update` of a plugin is cut where another
goroutine can see a difference: load, read `h.w`, assign under the lock, dispose.
`overlap` records that a call has begun during another one on the handler.

## 3. Runs

| run | bounds | shows |
|---|---|---|
| `MCLease_code` | 2 holders, 1 challenger, 2 API calls each, period 7, poll 1, 6 attempts, no lag | mutual exclusion, safe removal, the inductive invariant, refinement of `LeaseLock`: the life of a lease |
| `MCLeaseLate_live` | 2 holders, 2 challengers, 1 call each, period 3, 2 attempts, calls of one challenger fail, 1 late request, fair | challenges return, an invalidated holder stops, an invalidation sticks, a late compare-and-set is harmless |
| `MCLease_two` | 2 holders, 2 challengers | **violated**: a live lease is removed |
| `MCConn_code` | 2 writers, 2 messages each, capacity 1, fair | ownership of payloads, refinement of `MessageQueue`, writers return, messages are sent |
| `MCReadLoop_code` | 2 frames, data and body of length 0 or 2, deadlines at any Read, fair | framing, at every cut and end of the stream and up to the first deadline; frames are handled unless one passes, the loop ends whatever deadlines pass |
| `MCService_frames` | 3 frames, messages up to 1, fair | framing up to the first short Read; only CLIENT_HELLOs are taken up; termination |
| `MCService_short` | 2 frames, messages up to 2 | **violated**: a message is garbled |
| `MCFileCache_tracking` | `app/a`, `app/sub/b`, 3 writes, 3 updates | tracking, convergence, what "no files changed" says of cache and disk |
| `MCBuildOrder_three` | 3 packages with any imports, 1 other package, any archives, fair | each package after its imports; cycles, and only cycles, are reported; the sort ends |
| `MCGoImports_save` | 3 repositories, 3 packages, 2 commits of each library | what is saved is what is needed, at the revisions of the clones, can be installed elsewhere, and cleared revisions stay cleared |
| `MCMonitor_code` | samples of 4, 7 rounds, a rescaling after 5, failing readings of one resource | refinement of `Sampling`, how long a sample is kept, the hook's values |
| `MCProcess_two` | 2 goroutines, 2 calls each, a stack of 3 Fires, fair | unique numbers, reported failures, living workers, calls return |

Why the bounds are enough to see the interesting cases:

* *Lease.* The ratios of `MCLease_code` are the code's own: the poll is a seventh
  of the period and the sixth error gives up. Two calls per process let a lease be
  acquired, contested, removed and acquired by the other holder while an earlier
  answer is still on its way (the case in which `'A'` is somebody else's). `Lag = 0`
  still allows every interleaving within a tick; the proofs cover larger lags.
* *Conn.* With capacity 1 the second message already waits for room; the
  third is taken while two are queued, and payloads are recycled in between.
* *LeaseLate.* Two holders and two challengers let a lease be acquired anew while the request of a challenger
  that gave up is on its way; one late request at a time is one more than the code expects.
* *ReadLoop, Service.* A frame that is cut needs two units of one kind. The second frame shows
  what the first has left behind: stale buffers, or a stream out of step. `Service`
  has a third, behind the one that is cut.
* *GoImports.* A library with two packages, one of which needs another library: packages of one
  repository come apart in the map, and a directory is left for another. Two commits suffice for
  a clone that is older or newer than what was saved.
* *Monitor.* A sample of 4 has two levels below its root; 7 rounds fill it and push
  elements out before and after the rescaling.
* *Process.* Each property relates two calls; two of each goroutine let one end and another begin
  while the first of the other is still on its way. The proofs cover the rest.
* *FileCache.* Two levels suffice for the propagation of `changed`; three writes and
  updates allow a change between listing and reading, the update that repairs it and
  one in between that fails.
* *BuildOrder.* With three packages in any order a pass can skip, move in place and swap, a
  second pass can move what the first skipped, and a cycle can be of one, two or
  three packages, with or without others before or behind it. Two packages do not import themselves and
  one imports the other package: more of this only repeats the same cases. The proofs
  cover the rest.

`CHECK_DEADLOCK FALSE` stands where the system may come to rest: connections
end, and callers reach their bound. The lease runs check deadlock: time always passes.

### Fairness

`Lease!Fairness` (in `LeaseLate!LateFairSpec`): time passes, every request is answered or fails, goroutines that are
ready run, and cleanup callbacks return. Processes need not start calls, and may crash.
The answer to *every* request is an assumption about the network, as the HTTP client has no
timeout; a request counts as answered when its caller gives up, and one that is late may stay so. `Conn!FairSpec`: runnable goroutines run; a socket write ends, with an
error at the latest once the socket is closed; nothing is assumed about when it fails before that.
`ReadLoop!FairReadSpec` and `Service!FairSpec`: the loop's next step is taken while a
Read has something to return. A read deadline need not pass. `BuildOrder!FairSpec`: the build goes on, which assumes of
the compiler, the linker and `go get` that they end. `Process!Fairness`: every goroutine that can
go on does, strongly, as Go's mutexes hand themselves to a waiter after a millisecond; loading a script and writing a request end. No peer is assumed to send anything or to end.

## 4. What disagrees

1. *Two challengers* (`lease.go:98`). Both contest, wait and decide to clean up; one
   deletes, a holder acquires the lease, and the other deletes it. `MutualExclusion`
   then fails too, as a third process can acquire while the holder still polls.
2. *`service.read`* (`service.go:52`) puts every piece at the start of the buffer, and
   does not end once it has read past `size`, until the client goes.

Both have a run that shows them. The following are built into the models as the code
has them, and named in the properties that hold in spite of them:

3. *Write failures* (`protocol.go:306`) end the write loop and leave the connection open,
   though the comment says "kill connection"; `Write` goes on accepting messages (`Delivery`
   ends with the loop).
4. *Read errors inside a frame* (`protocol.go:215, 231, 245, 261`) end only the inner loop, and the
   handler gets what there is of the frame (`FramesInOrder` excepts the last frame, and all after a deadline).
5. *`ErrNothingChanged`* (`filecache.go:157`) is also returned by the Update after a failed one
   that had loaded the new contents (`NothingChanged` excepts failures).
6. *`seen`* (`service.go:93, 108`) is never set: every message after the CLIENT_HELLO that is not another one is refused
   as if it were the first, with the error of line 110, and the connection closed. `OnlyHellos`, a part of `ServiceInv`, says
   so; `FramesTakenUp` promises a frame to be taken up only if all before it and itself are CLIENT_HELLOs that decode.
7. *Rescaling* (`stats.go:80`) changes copies: after it the old elements of a full sample keep their weights,
   and each new sample is the next to be dropped (`OldSamplesLeave` holds up to the rescaling).
8. *`os.Chdir`* (`deps.go:223`): its error is ignored, and a clone outside of the first `GOPATH`
   entry is saved with the revision of another repository (`SavedRevisions` says which).
9. *Requests that cannot be encoded* (`context.go:32`) overflow the stack.
10. *Overlapping Updates* (`plugin.go:28`) dispose of one worker twice and of another never.
11. *`Queue.pop`* (`index.ts:31`) keeps a resolver that `push` never calls.

## 5. Proofs

### Lease

The theorems are about `Lease!Spec` with `Holders`, `Challengers`, `Flaky`, `Period`,
`Poll`, `MaxAttempts`, `Lag` and `MaxCalls` arbitrary within the assumptions of `Consul`
and `Lease`.

`Lease_proofs` shows `BaseInv` (types, timers, which answers each call can
have, and that an item known under the current index is the current item) to be
inductive for any number of challengers and any lag. `LeaseTyped` and
`LeaseInvalidation` follow: an `'I'` can only be followed by a removal, because a
compare-and-set with an index read before it no longer matches.

The other theorems of `Lease_proofs` assume two things more, both named in `LeaseInv`:

* `SingleChallenger`: one process at a time contests or invalidates. With two the
  theorems are false, see `MCLease_two`.
* `Timely`: `MaxAttempts` rounds of `Poll + 5 Lag`, and one `Lag`, take less than
  `Period`. For the code's constants (6 rounds of period / 7) this says that all
  delays of a round stay below about 1/217 of the period. Nothing in the code enforces it: the
  expiry is looked at only between calls (`lease.go:147`), and the HTTP client has no
  timeout (`consul.go:26`), so a holder whose call hangs for the length of
  the lease is still in `Maintain` when its challenger has waited.

`MutualExclusion` is not inductive: it needs to know why nobody claims the lease
when it is removed. `Rest(h)` bounds the time until `h` has stopped acting on the
lease or has asserted itself, whatever errors it meets; each
error costs a round, of which `MaxAttempts` are left. `Removal(c)` follows a
challenger on its way: once the item it waits on is `'C'` or `'I'`, every claim has
`Rest(h) < wait[c]` (`ClaimsEndFirst`), time lowers both sides alike, and a holder's step
either lowers its own `Rest` or changes the key. So when the interval is over and
the item is unchanged there are no claims, and with `ClaimsAreStored` nobody gets a
new one before the key is gone. `IInv` is the conjunction; `InitSafe` and `StepSafe` are its
induction, by lemmas for holders' steps, challengers' steps, `Serve` and `Tick`.
`LeaseImplementsLock` shows that each step of the protocol is one in the life of a lease, or none: an empty key is filled
only when nobody acts on the lease or removes it, `'C'` becomes `'A'` only by the one who holds it,
`'I'` stays until the removal, and a challenger begins to remove it only when no holder
acts on it. This is more than mutual exclusion, as it is about the key, its claims and the removals together; a
contest that writes over an invalidation breaks it and leaves `MutualExclusion` alone.

### LeaseLate

The second half of `Lease_proofs` adds the writes that Consul handles after their callers have given up or
crashed, for any number of them (`MaxLate`). An invalidation stays final without any
assumption: `RequestsSeen` says that no request still on its way asks for the index of an
invalidated item, since whoever read one sends no compare-and-set for it. `LateCASIsHarmless` assumes `Timely`
and speaks of histories that are `sound` (one challenger at a time, no Delete that outlives
its caller). `IInv` is of no use there: a late compare-and-set may replace the very item a
challenger waits on, with one that it did not write. `LateRemoval(c)` is what remains of `Removal(c)`: whatever late requests do,
the key is not emptied, an invalidated item is not replaced, and as long as the key
holds the item that `c` waits on, every claim ends before its wait does. So when the wait is over, either the item has changed and `c` finds out,
or nobody acts on the lease.

### Conn

The first half of `Protocol_proofs` holds for any set of writers, any number of messages of each and any capacity of
`c.in` (the buffer of `proxyQueue` has none). `ConnInv` is inductive as it stands: `OneOwner` says that a payload struct is
with one writer, in one place of `in` or `buf`, with the write loop or in the pool, and `Filled` what each of those
finds in it. What a step changes in one place, the other owners do not see, because it has
one owner. `ConnImplementsQueue` then follows step by step: `Send` is an append to the abstract queue, the flush is the
step that takes its head, and everything in between leaves `Pending`, the messages in the write loop's hands, in `buf` and in `in`, in that order, as it is.

### ReadLoop

The second half of `Protocol_proofs` holds for any set of lengths, any number of frames and any way the Reads cut the stream up, with the
end of the connection at any unit. `FramesInOrder` is about calls that were made; to be inductive
it needs where the loop is. `WholeFrames` describes the stream by itself: each unit in it stands at its place
among those of its frame, behind which the next frame begins. `InStep` says that the first unit is the one
the loop is about to read (`Due`), and `Buffered` that `data` and `body` hold the units before it, behind what a failed
handler has left. `CutOff` is what remains of that once the end has come inside a frame:
prefixes, and nothing more to read. The lemma `GoesOn` is the heart of it: n units from the front of the stream are those
of the frame from the one due, and the one behind them is due next; each action is then the arithmetic of
its lengths (`Counting`). A deadline at the opcode ends the loop. After a deadline has passed inside a frame the model records no calls, so the theorem says
nothing about them, as the run does not.

### Service

`Service_proofs` holds however the network cuts the stream,
for any lengths and any number of messages, and a client that stops anywhere in a frame, without an assumption on either.
`FramesInOrder` is false (`MCService_short`); what is proved is where that begins: `AsSentUntilCut` says that every message before the one
in which a Read first comes back short is taken up as sent, and `OnlyHellos` which messages are taken up at all. The first
needs to know
where in the stream the goroutine is. `InStep` says it without positions: every unit on its way is the one that
the client writes behind the unit before it (`Following`), and the first of them is behind the unit that was read last (`LastRead`). So
header and hash are what a Read that is given all it asks for finds, and `MessageAhead` shows it of a message of any length by the
least unit that would be out of place. Up to the first short Read, one is given less only at the end of the stream
(`ReadsWhole`), and the next one then fails. `Buffered` holds what has been read until it is taken up. Sending a
frame keeps the chain since it reaches to the end of the last frame as long as the client is there.

### FileCache

`FileCache_proofs` holds for any tree and walk within the assumptions of the module, any number of writes, removals and
Updates, and failures anywhere in them. `CacheInv` ties what a caller was told (`TokenHolds`) to the walk in progress:
a file that is no longer what it was when it was tracked has a newer index, or a directory above it is in
`dirty`, and `Marks` that such a directory is marked, and that the directory above it is too or will be when this one returns, because
that step is still to come. `Undisturbed` follows an Update that nobody writes during: listed directories are as on the disk,
files that were looked at are in the cache or gone. `Times` says why a modification time that
is not newer means the same contents. `FileChangesAreSeen` covers failed Updates; `DirChangesAreSeen` and `NothingChangedIsTrue`
hold until one has failed, as the code has it. What `NothingChangedIsTrue` says of the disk comes from `CacheFresh`. All rest on `NoSession`, a guard of the model's
callers, see the hazard at `filecache.go:101`.

### GoImports

`GoImports_proofs` holds for any packages, imports and repositories, any number of commits and any developer's doings between
the runs. `ImportsInv` follows both loops: `Gathered` says that the entries are for exactly the packages
ranged over so far, with the revisions their clones are at, or, outside of srcPath, that of a clone within; nothing changes a clone while `SaveImports` runs. `Committed` says that what is in the
file has been committed to its repository, and `Restoring` that a clone which `Install` has made is never older
than its entry (go get clones the latest). So a checkout can only fail for a clone that was there before.
`SavesWhatIsNeeded` and `InstallRestoresRevisions` are proved together with it. `Create`, a crash and a half-written file are
covered: an entry is then lost, and `unpinned` with it.

### Monitor

`Monitor_proofs` holds for any number of resources, any readings, numbers drawn and intervals, a sample of any size, decay and
resampling time, and any percentile. `OldSamplesLeave` bounds how many updates an
element outlives that outweigh it by their time alone. `Outweighed` says why: each of them is still in the sample and heavier,
and of a sample of `Size` elements at most `Size - 1` are heavier than one of its own. It is kept because only a
lightest element leaves, which nobody counts as one that outweighs it; that it is a lightest is `Heaps`. While `heap.down` or `heap.up`
is at work the heap property fails at one element, and there only in one direction: `Around` says that
what is below the moving element is heavier than what is above it, so that a swap mends one place and
leaves the next as the only one (`SinkHeap`, `RiseHeap`). The last element, which `heap.Pop` has swapped
with the root, stays lighter than all others until it is cut off.

`HeapImplementsSampling` needs no more than this: swaps keep the set of elements (`SwapKeeps`), `Pop` drops a lightest, `PushNew`
adds one that is newer. `Births`, that no two elements are of one update, makes the number of elements in the set that of the places in the
sample, and `Ahead`, which resources are still to be read in this round, makes the next element newer than all of them.

`PercentileIsRank` compares the code, which sorts and interpolates, with counting: the value at place k of a sorted sample is the only one
of which at most k values are smaller and more than k are not larger. `HookGetsPercentile` follows with `Reported`: between updates, `last`
is the percentile of the sample as it is, since nothing but an update changes either, and rescaling changes no value.

### BuildOrder

`BuildOrder_proofs` holds for any packages, any imports among them, any order
they are found in and any archives of earlier builds; the number of packages is not bounded.
`SortedSoFar` is the loop invariant of the sort. To be inductive it needs `Progress`:
what pruning leaves in `deps`, where the array begins and ends in each phase, and
that a package passed over is still waiting as long as its pass has moved nothing (what it was compared with is then
unchanged). `Swap` is the lemma about the array: other elements stay, none is lost or repeated.
`ImportsAvailable` follows, as what `deps` does not name had an archive when it was pruned and what it names
comes before. `CyclesReported` has two directions: `StuckIsCyclic` shows that what is left after
a pass without moves is a set in which each waits for a member, and
`OrderedIsAcyclic` that of any such set the member first in the order would
wait for an earlier one (with the well-foundedness of `<`).

### Process

`Process_proofs` holds for any number of goroutines and calls and a stack of any depth. The
invariant has two halves, which are shown inductive one by one (`CtxKeeps`, `PluginKeeps`): a step of
one half leaves the variables of the other alone, and moves `pc` between labels the other does
not look at (`CtxAlone`, `PluginAlone`). `UniqueIDs` needs `Numbered`: whoever is about to take a number
holds the lock, and nobody has been given that number. `FailureReported` needs that every Fire below
the one that has failed returns with an entry written. `InstalledAlive` needs `Replaceable`: a worker
that waits to be installed is known to one Update only and is in nobody's `existing`, so that
whatever is read without the lock, it is never the one that comes next. `OneWorker`
needs `Sequential`, who can be holding a living worker while no calls overlap.

### Only checked by TLC

All liveness (`ChallengesReturn`, `InvalidatedHolderStops`, `BuildEnds`, `CallsReturn` and
those of the other modules), as `ENABLED` and fairness are out of the prover's reach. Every safety property of a passing
run is a theorem.

## 6. Not modelled

* `consul`: listings and the choice of an endpoint, which nothing relies on while reads are consistent (the counter
  `i` is incremented without a lock).
* `filecache`: `Digest`, `PathMap`, symlinks, several roots, absolute paths and removed directories.
* `build-go-service`: the archives of earlier builds in what `.goimports` records; packages without any import.
* `protocol`: a peer whose payloads do not fit their opcodes.
* `servicemanager`: `write`, `pending`, `queues` and `serviceMap`, which nothing uses; start-up.
* `capacity_linux`, `capacity_darwin`: parsing of `/proc` and sysctl. At this commit
  `capacity_linux.go` does not compile.
* `stats`: `Mean`, `Variance` and `StdDev`, which change nothing and have no caller.
* `elko`: `WebContext`, whose state is that of one request in one goroutine.
* `runtime/nodejs`: its queues, to which nothing is pushed.
* Message contents and hashes, the parsing of sources, flags, configuration, scripts.

## 7. What could follow

1. An end-to-end composition of `Conn`, the stream and `ReadLoop`: what one side writes the other handles.
   The two ends are proved separately: `Conn` sends whole frames in order, `ReadLoop` takes them up in order.
2. Proofs of the safety half of the liveness properties: that a step is enabled wherever one is due, and what
   decreases with each (the passes of the sort, the rounds of a holder).
3. The queues of the node.js runtime once they are used.
