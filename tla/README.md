# Verification of viamrtsp

TLA+ specifications of the viamrtsp module: IP cameras over RTSP, their video
storage, RTP passthrough and the discovery of cameras. TLC checks every
specification on a small instance; TLAPS proves every safety property that the
passing runs check, for instances of any size. (Of the PTZ client only liveness is
stated.) `PROJECT.json` lists runs, mutants, findings, hazards and theorems, and maps
every definition to the lines it stands for.

## 1. The system

A robot's configuration names cameras, video-stores and discovery services. Each
is one Go object; they run in one process and reach each other through calls.

| Part | Source | State | Operations |
|---|---|---|---|
| Camera | `rtsp.go` | client, decoder, `lastFrameTime`, `cancelCtx`, `closeMu` | construct, reconnect, receive, `Image`, `Close` |
| Frame pool | `pool.go`, `decoder.go` | pooled frames, generation, reference counts, `latestFrame` | `get`, `put`, new generation, `decode`, `handleLatestFrame`, convert, close |
| Access units, lazy decoding | `rtsp.go` | packet held back, `rc.au`, `receivedFirstIDR`, `auMu` | mark, depacketise, store, append, reset, consume |
| Format processor | `formatprocessor/` | SPS and PPS of the format | extract parameter sets, remux access units |
| RTP passthrough | `rtsp.go` | `bufAndCBByID`, `rtpPassthroughCtx`, `lastPTS` of each subscription | `SubscribeRTP`, `Unsubscribe`, publish, callback, `unsubscribeAll` |
| Video request, registry | `videorequest.go`, `registry/` | the mux that asked for video, `started`, its context; cameras by name | request, cancel, write, stop, clear; add, get, remove |
| Mux | `videostore/mux.go` | codec, parameter sets, timestamps, segmenter | `Start`, `WritePacket`, `Stop`, `registrationMonitor`, `cleanup` |
| Video-store service | `videostore/videostore.go` | the store, its mux, a goroutine per stream | `New` with fallback, `GetVideo`, save, fetch, `Close` |
| Discovery | `viamonvif/service.go`, `discovery.go` | `discoveredResources`, `rtspToSnapshotURIs` | background worker, `DiscoverResources`, previews |
| mDNS server | `viamonvif/mdns_server.go` | `mappedDevices`, registrations, cache file | `Add`, `Remove`, `UpdateCacheFile`, `Shutdown` |
| MIME conversion | `mime.go` | encoder and scaler contexts | convert to JPEG, YUYV, RGBA |
| PTZ client | `ptzclient/` | a device, `cancelCtx` | status, moves, stop, `Close` |
| Other discovery | `unifi/`, `upnpdiscovery/`, `garmin/`, `rtsppreview/` | none that lasts | queries and mapping to configurations |
| ONVIF | `viamonvif/device`, `gosoap`, `ptz`, `xsd` | none that lasts | probes, SOAP requests, data types |

**How the parts interact.** A camera has three kinds of goroutines: the *worker*
that reconnects, the *receive goroutine* of the current RTSP client, which runs the
packet callbacks (decode, publish, write to video storage), and callers of
`Image()`. A connection is closed by closing the client, which waits for the
receive goroutine. A video-store's mux asks the registry for its camera and hands
itself to the camera's `videoRequest`; from then on the receive goroutine calls
`Start` and `WritePacket`, `closeConnection` calls `Stop`, and `Close` cancels the
context the mux's monitor waits on, so that the monitor asks again. Subscribers of
RTP passthrough get a buffer with a goroutine of its own, filled by the receive
goroutine. The discovery service maps hostnames to the addresses of the cameras it
finds and keeps the mappings in a file, so that configurations that use the
hostnames work right after a restart. A lookup asks every device in a goroutine
of its own, with one credential after the other, and sends the answers through a
channel to the code that makes configurations of them.

**What is hard.** Frames are C memory with manual reference counts that several
goroutines share (`closeMu`, `auMu`, `latestFrameMu` and `framesMu` each guard a
part of the story). The request of a video-store is spread over four locks.
Reconnections run at any time, take `closeMu` as a writer, and outlive failures.
`Close` must wait for the worker, for callers, for callbacks and for the receive
goroutine without deadlock. Timestamps come from devices, packets
get lost, and what is decoded later than it came must still be decodable. Lookups
overlap, with different credentials, and a crash may hit between two system calls.
Readers and devices stop answering. The list of hazards, each at its line,
is in `PROJECT.json`.

## 2. Modules

| Module | Models | Checked by | Proved in |
|---|---|---|---|
| `FramePool` | pool, frames, latest frame, eager and lazy decoding, `Close` | `MCFramePool` | `FramePool_proofs` |
| `FrameOwnership` | what the pool promises (abstract) | refined by `FramePool` | `FramePool_proofs` |
| `RawSegmenterMux` | the mux's `Start`, `WritePacket`, `Stop` | `MCRawSegmenterMux` | `RawSegmenterMux_proofs` |
| `VideoRequest` | registry, `videoRequest`, monitors, and the camera as they see it | `MCVideoRequest` | `VideoRequest_proofs` |
| `RTSPCamera` | life of a camera, time, reconnection, `Image`, `Close` | `MCRTSPCamera` | `RTSPCamera_proofs` |
| `Passthrough` | subscriptions, buffers, callbacks | `MCPassthrough` | `Passthrough_proofs` |
| `AccessUnits` | packets to access units to pictures, lazy decoding, format processor | `MCAccessUnits` | `AccessUnits_proofs` |
| `Discovery` | lookups, mDNS server, cache file, crashes | `MCDiscovery` | `Discovery_proofs` |
| `OnvifLookup` | device queries, credentials, configurations, what the service keeps | `MCOnvifLookup` | `OnvifLookup_proofs` |
| `VideoStore` | `New`, `GetVideo`, `Close` of the video-store | `MCVideoStore` | `VideoRequest_proofs` |
| `PTZClient` | commands and `Close` against a device | `MCPTZClient` | |

The modules overlap where one part needs a coarse picture of another: a camera is
a connection and a codec in `VideoRequest`, a clock and locks in `RTSPCamera`,
frames in `FramePool`, packets in `AccessUnits`, subscriptions in `Passthrough`; a
lookup is its effect on the mDNS server in `Discovery`, its requests and results in
`OnvifLookup`.

Definitions marked *Mutant* are not part of a specification: each is a plausible
mistake in the definition it precedes, and replacing the one by the other must
violate the property named in `PROJECT.json`. They show that a property depends on
the code it is about.

### FramePool

One action per critical section. `live`, `gen`, `fmt`, `refs` and `inPool` are the
fields of `avFrameWrapper`; `pool` and `generation` those of `framePool`. A wrapper
is *fresh* when no Go reference to it is left, so lost frames (whose C memory the
code never frees) do not come back as new ones. `put()` tests `isFreed` and
`isInPool` before it locks: the test is part of the step before, `PutDisplaced` is
the locked rest, and other goroutines run between. In the two places where the
caller is the only one left (`EndConvert`, `DropLatest`, which hold the locks
that matter) both are one step. `decode()` is split at each lock: get, discard, new
generation, remake, copy. What libav decodes is a nondeterministic format.

`FrameOwnership` states the intent with two variables: every frame has one place
(free, pool, latest, lost, or a goroutine), and the latest frame does not move
while it is read. `OwnsFrames` is the refinement; its mapping reads the place of a
frame off its flags, the slot and the goroutines' locals (`PlaceOf`).

### RawSegmenterMux

Every call holds `m.mu` from beginning to end and is one step. An access unit is
the SPS it carries (by the picture size it announces, unusable, or none) and what
is left of it after filtering. `WriteFiltered`, `WriteReInitFails`, `WriteSkipped`
and `WriteSent` are the ways through `writeH264` and `writeH265`; the codecs differ
in what they filter. `StartFails` is a `Start` that meets a NAL unit it does not
expect after it has stored the SPS already. The DTS extractor is any timestamp or a failure. `sent`
and `segFailed` are history: the last packet, and whether the segmenter failed.

### VideoRequest

Cameras are instances under one name, one after the other, as the robot rebuilds
them. `link` is the goroutine that connects and closes, `stream` the receive
goroutine, `pc` a mux's goroutine (first `init`, then the monitor). `RequestVideo`
is two steps, since it reads the codec before it locks. `cleanup` is two steps,
`Close` and `reconnectClient` are several. Here `Stop` succeeds and `Start` fails
only on a running mux; the failures of the segmenter are in `RawSegmenterMux`.

### RTSPCamera

Time is discrete, in units of the worker's interval; ages stop at `Cap`, one more
than the timeout (10 s, two units). `since` is `timeSinceLastFrame()`, while `heard`
and `connected` are the true ages of the last access unit and of the connection:
the properties compare the code's clock with them. `closeMu` appears as
`WriterHolds`, `WriterWaits` and `Readers`, with Go's rule that a waiting writer
keeps new readers out. A picture is its age. MJPEG and MPEG4, which ignore
`lazy_decode` and `i_frame_only_decode`, behave as H264 in eager mode. Assumed:
from PLAY to the mark of the new connection less than one unit (5 s) passes.

### Passthrough

`subsMu` is held across `unsubscribeAll`, whose `buf.Close()` waits for the running
callback; that is why each termination has two steps (`Shut`, `AllShut`). The
goroutine of a buffer is external (rdk's `rtppassthrough`), modelled from the use
the code makes of it: it runs one callback at a time, and `Close` waits for it.
`culls` counts the goroutines that callbacks start to run `unsubscribeAll`.
`bframes` is a fact about the camera's stream. Timestamps restart with each
connection.

### Discovery

Every service has an mDNS server of its own, and services are built one after the
other: by `Restart` in the process after a `Crash`, and by `Rebuild` in the same process
after a `Close`, since the service is `resource.AlwaysRebuild`. `mapped[s]` is
`mappedDevices` of server `s`, `served` what zeroconf answers for, by server: the end of
the process clears it, a rebuild leaves it alone. A lookup belongs to the service it
was begun with (`at`, set by `Ask`). `Close` does not wait for calls, and `Add` does not ask
whether its server was shut down, so lookups of a closed service go on to
register, and to write the one cache file, while the next service runs. `late` is history:
what was added to a server after its `Shutdown`.

One hostname per device (the code registers one for the MAC address and one for
the serial number in the same way). `Register`, `Remove`, `Collect`, `Create` and
`Write` are the steps of a lookup with respect to the server's lock and the file.
Two lookups that write at once may leave a file that does not parse. The network
is external: addresses change, devices come and go, `zeroconf` fails.

### AccessUnits

A packet carries whole NAL units or one end of a fragmented one, and goes through
`wrapWithMarkerFromTimestamp` (`Marked`: one packet is held back), the depacketiser
(`Depacketise`, external), the format processor (`Process`) and `storeImage`
(`StoreImage`), all in the step in which the next packet arrives, as in the
callback. A parameter set is its version; a picture remembers the versions it was
coded with, and the decoder (`DecodeNALU`, external) shows it intact only when it
has those and, for other than IDR pictures, the picture before. `eager` is history: what the
decoder would be had `lazy_decode` been off. `astray` marks the two places where
the code itself departs from that: the first IDR is decoded before what `rc.au` has
from before it, and a reset at a random access point drops parameter sets nobody
decoded and the new access unit does not repeat. Both mend at the next IDR that
brings its parameter sets. Abstracted: parameter sets are SPS and PPS, and the VPS of
H265, which is treated as they are, has no place of its own. An allocation
that fails in the decoder, after which `storeH264Frame` drops the rest of `rc.au`, is
left out; pictures that cannot be shown are not.

### OnvifLookup

A device is a *kind*: which calls need its credential, whether the service or only
a caller has it, whether it can be named, reports the address it was found at, and
answers. `asking[l][h]` is the goroutine of lookup `l` for device `h`, by the number of
the credential it tries; `ch` is the channel its answer goes to, with the capacity
`DiscoverCameras` gives it. `MediaInfo` lists what a device's profiles may yield:
profiles whose stream URI is refused are left out without an error, so a device that
serves profiles but not streams to a stranger ends the search for credentials with no
stream at all (`discovery.go:452`). Faults, answers lost and calls that fail
for no lasting reason, are counted. A lookup of a caller with a credential of his
own sets `rtspToSnapshotURIs`, which then has the URIs that his credential opened
(`service.go:214-217`), but not `discoveredResources`: `CachedArePrivate` is about the
latter. `Discovery` has the other
side of `tryMDNS`.

### VideoStore

`New` is a walk through `svc`: read-only without a camera; a store for RTP packets
whose mux asks the camera; a store that polls frames when the camera refuses. A
`GetVideo` goroutine fetches or waits in `emit`; `merged` is `mergedCtx`, which follows
the caller's context through an asynchronous `AfterFunc`. `Close` stops the mux, closes
the store and only then cancels and awaits the streams. The store itself is
external: it delivers chunks and ends. Its specification is called `ServiceSpec`,
since the proofs extend it together with `VideoRequest`.

### PTZClient

A command is what it asks of the device: nothing (status, profiles, capabilities), a
stop of some axes, a continuous move that ends by its timeout or never, or a move to
a position. Requests are a set: each has a connection of its own, and nothing keeps
them in order. `Close` sends its stop under a context that is cancelled afterwards;
with a device that never answers it does not return, and the property is about
devices that answer. A device may refuse what it is asked (`Decline`); a refused stop of
`Close` is logged and ignored (`client.go:504-506`), and the property excepts it
(`stopRefused`). Ranges of arguments are refusals. (Not a property: the
repository's README gives 1.0 as default speed of absolute moves, `client.go:24` has
0.5.)

## 3. Runs

| Run | Instance | Result |
|---|---|---|
| `frame_pool` | 3 frames, pool of 1, 2 callers, 2 formats, 2 generations | 8 properties hold |
| `segmenter_mux` | 2 sizes, unusable SPS, 4 timestamps, DTS up to 3 | 5 hold |
| `video_request` | 2 camera instances, 2 muxes | 4 hold |
| `rtsp_camera` | 2 transports, 1 caller, timeout 2 | 6 hold |
| `rtsp_camera_stale_image` | 1 transport | `NoStaleImage` violated |
| `passthrough` | 2 subscriptions, buffers of 1, timestamps 0 and 1 | 4 hold |
| `passthrough_reconnect` | 1 subscription | `OnlyBFramesDisable` violated |
| `discovery` | 1 device, 2 addresses, worker and 1 call, 2 services in a process | 4 hold |
| `access_units` | 4 access units, 1 loss, 2 connections, both codecs, 2 layouts | 3 hold |
| `onvif_lookup` | 2 devices in 3 networks, worker and 1 call, 1 fault | 3 hold |
| `video_store` | 2 calls of `GetVideo`, 2 chunks | 2 hold |
| `ptz_client` | 3 commands and `Close` | 1 holds |

**What the passing runs show.** *Frames*: no double free, no use after free, no
frame that is written while another goroutine can read it, no refused `put`,
exact reference counts, and a pool of distinct frames of its own generation.
*Mux*: strictly increasing DTS, PTS not before DTS, first packet at time zero and not
before a random access point, the segmenter initialised for the size and codec
the mux believes in, and no packet of another codec. *Requests*: a camera holds a
mux's request exactly when that mux's monitor is waiting for its cancellation;
`started` agrees with the mux; monitors find rebuilt cameras again. *Camera*: the
decoder is open while it is used, nothing comes back after `Close`, `Close` returns,
streams that deliver are never torn down by decision of the worker, and a server that answers again for good
always gets the camera back. *Passthrough*: terminated subscriptions are silent,
disabling terminates them, and those that come in before the last cull begins, without
deadlock, `SubscribeRTP` returns.
*Discovery*: `zeroconf`'s registrations are exactly those in the servers' `mappedDevices`,
and a closed service leaves only what its late lookups add; a settled device is
resolved by the running service, and cached, in the end. *Access units*: what is decoded,
published and stored is whole access units, cut at the right packet even without
marker bits, unless a packet was lost; `Image()` of a lazy camera shows what an
eager one would, outside the two cases named above; published key frames begin with
their parameter sets. *Lookups*: they end; devices whose credential the service has
stay listed with their previews, whatever cancelled or privileged lookups did; what
only a caller's credential opens is never listed for others (`discoveredResources`;
`rtspToSnapshotURIs` does keep URIs found with it). *Video-store*: stores are closed on every way
through `New` and `Close`; streams end when their readers read, cancel or leave and
the service closes. *PTZ*: after `Close` a device that did not refuse to stop moves only by a command
that had not returned before, and that has no timeout.

**What the violated ones show** (details under "findings" in `PROJECT.json`).
After a reconnection `Image()` returns pictures from before it. A reconnection
disables RTP passthrough for good in a camera without B-frames.

**What the properties except.** More places where the code does less than its
comments say, or than one might wish, have no run of their own; the properties are
stated around them.
The first packet of a new segment file after a change of the picture size is not at
time zero, since `firstPTS` and `firstDTS` are set once per `Start` (`mux.go:301-304`).
A camera that is being closed may grant a request it never honours, and the video-store
stays attached to it (`Stranded` in `ReRegisters`). A packet between the `Stop` and
the `CancelRequest` of a closing video-store starts its mux once more
(`StartedTogether` ends with `cleanup`). A lookup that outlives the shutdown of the
mDNS server writes a cache file without the mappings (`mdns_server.go:158-159`), and registers
hostnames on the old server (`service.go:309-316`): zeroconf answers for these until the
process ends, although the service built next has its own and nobody can clean them up
(`late` in `RegistrationsTracked`). A subscription that was validated before and is added after the last
cull, or after `Close`, gets neither packets nor an end (`rtsp.go:987`). The device may
refuse the stop of `PTZClient.Close`.

**Bounds.** `MaxGeneration`, `MaxDTS`, `MaxPTS` and `MaxServers` cut counters that the
code leaves unbounded, and the theorems hold for any value.
Three frames let one be in the pool, one be the latest and one be decoded into,
with a pool of capacity one so that `put` also meets a full pool; two callers race
each other and the receive goroutine. Timestamps 0, 1, 2 and 4 give equal,
decreasing, adjacent and distant pairs. Two camera instances are one rebuild, two muxes compete.
The timeout of two units distinguishes "before", "at" and "after". Two
subscriptions make one that triggers the cull and one that suffers it, a third
would behave as the second. With one device two lookups already add, remove and
overwrite each other's work; two services in a process are one rebuild, with a call of the
first still under way.
Four access units are an IDR, a dependent picture, a change of parameter sets and what comes after,
one loss hits any packet, and two connections are one reconnection. The three
networks pair an open device with a locked one, a half-open one with one that only a
caller's credential opens, and a locked one with a silent one; one fault is enough
for any partial answer. Two streams share nothing but the service; three commands let
one be finished, one under way and one begun after the stop.
Frames and callers, and picture sizes, are symmetric where no liveness
is checked.

**Deadlock** is checked in all runs but those of `Passthrough`, `OnvifLookup`,
`VideoStore` and `PTZClient`, where nothing is left to do after `Close` (nobody
subscribed, the worker cancelled and all calls returned, no stream, no command) or a
device never answers; in
the others a closed system stutters explicitly (`Closed`, `Finished`) or the
environment goes on. That the last three do not stop earlier is what their liveness
properties say; in `Passthrough` `SubscribeReturns` and `DisabledTerminates` do.

**Fairness.** `VideoRequest`: each monitor keeps running (a goroutine with a
timer); cameras and packets owe nothing. `RTSPCamera`: time passes, and the worker, the
receive goroutine, `Close` and callers inside `Image()` take the steps that are
enabled; the server need not answer, nobody need call. `Passthrough`: holders and
waiters of a lock go on; strong fairness only for the reader of `closeMu`, because
`sync.RWMutex` admits waiting readers before the next writer. `Discovery`: the worker's
ticker runs (`Ask`), and a lookup that began goes on; no service must be built or closed. `OnvifLookup`: the same, and each goroutine
of a lookup goes on when its device answers or its context is done. `VideoStore`:
`New`, `Close`, the goroutines of streams and `AfterFunc` are scheduled; readers and
callers owe nothing. `PTZClient`: a device that answers does so in the end, requests
of a cancelled client end, timeouts pass. `FramePool`, `RawSegmenterMux` and
`AccessUnits` have safety properties only.

## 4. Proofs

`FramePool_proofs` proves the type invariant and the six safety invariants of
`FramePool` for any finite or infinite sets of frames, callers and formats, and any
capacity, from `PoolAssumption` alone. The inductive invariant `PoolInv` adds two parts
to the seven. `Control` says what a goroutine has in its hands at each point of its
program and who holds which lock, since the counts and the exclusive access of
`WriterIsAlone` depend on where everyone stands. `NotDisplaced` says that a frame
about to be put back is in nobody else's reach: between the unlocked tests of `put()`
and its locked part, nobody can free it, pool it or take it. None of the
seven is inductive alone: no panic needs exact counts, exact counts need the place
of each reference, and that needs the pool to hold distinct frames. The
preservation proof has one lemma per action.

The same module proves the refinement `OwnsFrames`. `PlaceOf` is a cascade of tests;
`Placed` says that in a state of `PoolInv` the order of the tests does not matter: a
frame is in a place exactly when the corresponding test holds, and in one only. Each
step of the pool is then compared with the abstract one it stands for in a lemma of its
own (`GetStep`, `GiveUpStep`, `ClearStep` and others for the shapes that recur); a step
that moves no frame and no reader maps to a stutter (`QuietRefinement`). That the
latest frame is displaced or freed under no reader is where `latestFrameMu` enters:
by `Control` its holder is the one goroutine that may be converting. `PoolAssumption` asks that
goroutines are not called `"free"`, `"pool"`, `"latest"` or `"lost"`, since a place is
either one of these or a goroutine.

`RTSPCamera_proofs` proves `TypeOK`, `DecoderAlive`, `ClosedForGood` and the action
property `NeverHasty` for any callers, any number of transports and any timeout.
`Locking` says that a writer of `closeMu` excludes its readers and that `Close` asks for
it only when the worker has ended; `Decoders` that whoever may still use the decoder (a
client that lives or drains, an access unit that waits in `rc.au`, a caller
inside `Image()`) finds it open; `Clocks` that the code's clock is never behind the
true ages of the last access unit and of the connection, but for the moment between
PLAY and the mark of the new connection. `DecoderAlive` alone is not inductive: a
caller that decodes got its access unit from `rc.au` while the client lived,
and `closeConnection` must have waited for both. `NeverHasty` is the last of these
read at the step in which the worker decides.

`Passthrough_proofs` proves `TypeOK`, `SilentWhenTerminated` and two facts about the
code's locking for any subscriptions, size of the buffers and timestamps: buffers are
closed under `subsMu` only and by one goroutine (`SubsMuHeld`), and what is terminated
stays terminated (`TerminatedForGood`). `Quiet` says that a buffer that is being closed
holds no packet and a closed one runs no callback; it survives because nothing is
published to a subscription that is not in the map, and because whoever
closes keeps `subsMu` until the callbacks have returned. `Fresh` says that a call that
has not inserted its subscription yet has none. Here the assumption asks that the names
of the lock's other holders are not subscriptions.

`RawSegmenterMux_proofs` proves the type invariant, `SegmenterMatches`,
`NoCodecMismatch`, and the action properties `PacketsOrdered` and
`StartsAtRandomAccess` for all sets of sizes and all integer timestamps. `MuxInv`
adds `Clock` (`lastDTS` and `lastDTSSet` describe the last packet sent, so that
"greater than `lastDTS`" is "greater than the DTS before") and
`SegmenterFollowsSize` (as long as nothing failed the segmenter is the one for
`size`, and `size` is empty exactly when it is closed).

`VideoRequest_proofs` proves `TypeOK`, `RequestIsWatched` and `StartedTogether` for
any number of camera instances and video-stores. They are inductive together with
`Asking` (a mux that may ask for video is not registered, and a monitor runs only for
a mux that once was): without it `newRequest` could register a mux that another camera
still holds. That a mux is held by one camera at most (`HeldOnce`) follows from
`RequestIsWatched` and carries `StartedTogether` through stops and clears. The module also
extends `VideoStore`, the other side of a video-store, and proves `StoresAreReleased`
for any set of requests; `Stores` says which store is open at each point of `New` and
`Close`.

`Discovery_proofs` proves `TypeOK` and `RegistrationsTracked` for any hostnames,
addresses and lookups, and any number of services in a process. Two parts are needed with
them: a server that is yet to be built has no mappings (`OnlyBuilt`), since no lookup
belongs to it, and a crash leaves neither mappings nor lookups
(`CrashLeavesNothing`); so a server that is built starts from nothing, and the cached
mappings are all that it adds to what is served. The rest of the work is in what adding
and removing one hostname of one server does to the set of registrations that belong to
all mappings (`RegisterOne`, `CleanUp`).

`OnvifLookup_proofs` proves `CachedArePrivate` for any devices, callers and any
number of faults. `Privacy` says that what a lookup without a credential of its own has in
its hands, in its goroutines, its channel and its configurations, was found with the
service's credentials, and that a lookup that begins has nothing left from the one
before, which may have been privileged.

`AccessUnits_proofs` proves `AccessUnitsAreWhole` for any number of access units,
losses and reconnections, and parameter sets before a key frame in either layout.
`Whole` says abstractly what an access unit in packets is: for each packet, what a
depacketiser has gathered before it, and that the last one completes the unit; the two
layouts are shown to be of that kind (`PackSingle`, `PackAggregated`). `Queued` then
follows the one that is on its way: `Held` relates the packet held back to the
depacketisers' buffers, in two cases, since that packet is either the last one that left
of the newest access unit, or the one that completes an earlier unit. That a unit
needs the one before undamaged is what the proof shows to be enough: nobody else's
NAL units can be in the buffer then.

The same module proves the two properties about what is decoded later or elsewhere,
for access units and an `rc.au` of any length. What they compare is computed by recursion
over sequences: `Only` selects NAL units by kind, `Newest` is the parameter sets after some
NAL units, `Store` what the decoder makes of an access unit, `Consumed` what it makes
of `rc.au`. Each is a recursive function inside a LET. The library's induction theorems
take an operator as a parameter and cannot be instantiated, so the module begins with an
induction of its own: a *set* of naturals that holds 0 and the successor of each of its
members holds them all (`Induction`, from the least element of its complement), a set of
sequences likewise (`SequenceInduction`). `IteratesExist` and `Determined` then say that
such a function exists and is the only one, and for each operator there
are lemmas on what it is for the empty sequence and for one element more.

`DecodingInv` is `UnitsInv` (what `AccessUnitsAreWhole` needed) with three parts more.
`Postponing` is the heart of `PostponedIsEnough`: unless `astray`, consuming `rc.au`
brings the decoder to the *same* state as decoding at once, that is to the same parameter sets
and, when the eager decoder is good, to a good one with the same picture. The picture alone
is not inductive, for the next picture depends on the parameter sets as well. An access unit
that is appended or decoded at once keeps this, because decoding respects `Same`
(`SameStore`); a reset at a random access point keeps it, because an IDR picture needs
nothing but its parameter sets, and these are the same or the state is `astray`
(`ResetSame`). `Ordered` says in which order NAL units arrive, whatever is lost: no
picture waits in a depacketiser, so an access unit that is handed on ends with its only
picture and an IDR in it comes after the sets it needs. `Tracked` says that
the format processor's sets are the newest received (H264), from which
`PublishedUnitsAreDecodable` follows with what `Only` keeps: the pictures, in order,
behind the sets that `Remuxed` puts first.

**Only model-checked**: the liveness properties (`ReRegisters`, `CloseReturns`,
`Recovers`, `DisabledTerminates`, `SubscribeReturns`, `ResolvesInTheEnd`, `CachedInTheEnd`,
`LookupReturns`, `ListedInTheEnd`, `StreamsEnd`, `StopsInTheEnd`), which are out of
the provers' reach, and with them everything said of `PTZClient`; and the absence of deadlocks.

## 5. Not modelled

ONVIF data types, the contents of SOAP messages, the executables and the examples
have no behaviour that a state machine would show. The codecs, `zeroconf`,
`gortsplib`, the segmenter and the video-store's files are external and appear through
their results. MIME conversion, the UniFi, UPnP and Garmin discovery and the RTSP
preview are sequential code that keeps nothing from one call to the next. In the modelled
parts, fragments that carry parameter sets, the size of packets that the format
processor makes, the MAC lookup of devices and the fetching of previews are left
out. `rc.au` and the channel of `GetVideo` have no bound that could be stated: the
first grows until the next random access point or `Image()`.

Platform memory effects of unsynchronised accesses (`rc.client` is read by
the worker without `closeMu`, which only it and `Close`, after it, write) are not
modelled.

## 6. Plan

Done first, because crashes and corruption come from there: frames; then the mux
with its timestamps; then the protocols between goroutines (requests, life cycle,
passthrough, discovery); then access units with lazy decoding and the format processor,
ONVIF lookups, the video-store service and the PTZ client. What is left:

1. Proofs: lemmas on the order of the locks, the safety half of the absence of
   deadlocks.
2. Composition: `VideoRequest` with the mux of `RawSegmenterMux` in place of
   `running`, as a refinement.
3. `MimeContexts`: the contexts of `mime.go` across changes of the picture size;
   deadlines of `garmin/` and `rtsppreview/`.
