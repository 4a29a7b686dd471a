# A verification development for ffmpeg-pathcer

The repository keeps ffmpeg's `ddagrab` desktop capture alive across events that end a
DXGI desktop duplication: UAC and lock screens, mode changes, virtual displays that come
and go. A proxy `avfilter-12.dll` loads `dda-hook-core` into ffmpeg; the core hooks
`D3D11CreateDevice`, follows the COM calls from the device to the duplication, and wraps the
`IDXGIOutputDuplication` in an object that recovers inside `AcquireNextFrame`. Scripts under
`poc/` swap the proxy DLL in and out of an ffmpeg build, plug a virtual display, and stream
to an Android viewer through a relay.

This directory holds TLA+ models of that code, the TLC runs over them, and TLAPS proofs.

## Inventory

| Part | State it keeps | Operations | What is hard | What makes it correct | Model |
|---|---|---|---|---|---|
| `hooks/duplication_proxy.rs`, `recovery.rs`, `state.rs` | `real`, `locked_frame_owner` per proxy; `LAST_DUPLICATION_SOURCE`, `LAST_OUTPUT_INDEX`, `DUPLICATE_OUTPUT_LOCK`, a thread-local flag | `AcquireNextFrame` with inline recovery in eight steps, `GetFramePointerShape`, `ReleaseFrame`, the hooked duplicate and enumerate calls | losses and topology changes between any two steps; late releases; two captures and one lock; process-wide statics | the client never sees a loss; a held frame keeps its instance; one live object per output; the capture heals | `DdaProxy`, `Dxgi`, `CaptureService`, `DdaContract` |
| `hooks/vtable.rs` (inline), `hooks/d3d11_device.rs` | the code bytes of `D3D11CreateDevice`, their page protection, `HOOK` | `install`, `call_through` | the hook takes itself out for each call | every device is observed, no call comes back to the hook | `InlineHook` |
| `hooks/vtable.rs` (slots), `dxgi_*.rs` | `PATCHED`, the vtables, the `ORIGINAL_*` | `already_patched`, `patch_slot`, the walk that installs hook after hook | mark, patch and store are three steps | no slot is patched twice; every duplication is a proxy | `VtableHooks` |
| `poc/dll_layout.py` and its scripts | three DLLs in `bin/`, a stash | stash, swap, restore; Ctrl+C, kill, rerun | any step can be the last | the genuine DLL survives; the layout comes back | `DllLayout` |
| `vdd-helper` and `record_until_ctrlc.py` | the plugged display, the helper's standard input, the index in the pipe | plug, find the output, report, unplug | either process dies at any step; the driver drops a display; outputs come and go between the lookup of an index and its use | the display goes with the script; ffmpeg captures the right display | `VirtualDisplay`, `Session` |
| `tcp-ws-relay` | a broadcast channel of 256 chunks, one WebSocket connection | accept, forward, drop when lagging | two tasks with one channel between them, the first spawned before the second has subscribed; chunks dropped inside NAL units | without a drop nothing is lost or reordered once there is a subscription; nothing waits for ever | `Relay`, `WebSocketLink` |
| `WebSocketServer.kt`, `AnnexBNalSplitter.kt`, `MainActivity.kt` | the client socket, the splitter's tail, the current decoder | accept loop, handshake, split, start and stop of the pipeline | a start code across chunks; `stop()` between accept and the assignment of the socket; a receiver thread that outlives its join | NAL units independent of the chunking; no NAL reaches a later pipeline; every thread ends | `Receiver`, `NalSplitter`, composed in `StreamPath` |
| `tv/VideoDecoder.kt` | two queues, the codec, detection state | feeder, codec callbacks, reset, stop | callbacks of an old codec; two queues and no lock; exceptions half way through a submit, a start or a release; format detection | no stream mixes with another; no buffer or codec is lost but by an exception of its own; the decoder starts | `VideoDecoder` |
| `capture-helper`, `desktop-shot`, `dda-probe` | one duplication, its thread's desktop; the cached cursor | attach, duplicate, capture loop, recovery strategies; draw the cursor | the same losses, without a proxy; a cursor across the edges of the frame | the loop comes back; the cursor's pixels are where it is | `CaptureLoop`, `CursorOverlay` |
| `deployer` | the ffmpeg tree | fetch, install | a step that fails half way | a rerun completes it | not modelled |
| `send_stream.py` (beyond the DLLs), `mdns_discovery.py` | child processes | start relay and ffmpeg, read their output, stop both | one child dies first | both are stopped | not modelled |
| `test-harness`, verification drivers, `xtask`, `dummy-tcp-server`, the proxy's generated forwarders, logging, statistics, the mDNS advertiser, the mobile template | - | - | sequential, I/O, or generated | - | not modelled |

The parts meet in few places. The scripts place the DLL and start ffmpeg; `DllMain` installs
the inline hook; the inline hook sees devices and starts the vtable walk; the walk ends in
`wrap_duplication`, which makes a proxy; the proxy's recovery uses the statics that the walk's
hooks write. A script that records a virtual display starts `vdd-helper` between the swap of the
DLLs and ffmpeg, and removes the display after the restore. The streaming side is connected to
all this only by ffmpeg's output: TCP to the relay, the relay's channel, a WebSocket, the splitter,
and the decoder of the pipeline that is up.

## Modules

**`Dxgi`** is the world outside the repository as the code uses it: the input desktop, the
display topology, device removal, and duplication objects. An object is *good*, *lost*,
*doomed* (made while another of its output lived) or a *ghost* (made on an output of a
torn-down topology; it hands out a frame and fails to release it). These are the four
behaviours that the comments in `recovery.rs`, `state.rs` and `duplication_proxy.rs` record.

**`DdaProxy`** has one action per step of a call between two accesses to shared state. `pc`
says where each capture's call stands, `real` and `owner` are the proxy's two fields, `rdev`,
`ridx` and `fresh` the locals of the recovery; `Collect` drops the objects that nothing refers to any
more, as the last `Release` of a COM reference does. The client is the environment: it opens,
polls, releases and closes in any legal order. `HoldAcross` says whether it may poll again
while it holds a frame.

**`CaptureService`** is the abstract specification of a proxy: a capture that never loses
access. `DdaContract` maps `DdaProxy` onto it.

**`InlineHook`** writes and restores the stub, changes the page protection and nests calls
step by step; a call may create a device or fail. **`VtableHooks`** does the same for the five
slots of the walk over any number of implementation classes. Each class has its slots, but there is one
`ORIGINAL_*` per call for all of them, which holds the function of the class patched last; a hook that
fires on an object of another class runs that function on it, which may bring the process down
(`CallCrashes`). Any call of the walk may fail, and the host may leave the walk (`Leave`). Both modules
run calls on several threads and record in `raced` whether two have overlapped; the code takes no lock, and
comments ask for one call at a time. `reverted` says that the host has gone back to a class it had left
for another one.

**`DllLayout`** is a run of a script from the stash to the end of its `finally`, and the next
run on what is left. Ctrl+C can come wherever SIGINT is not ignored, and a kill everywhere.

**`VirtualDisplay`** is `vdd-helper`: what its `main` does from the plugging of a display to its
removal, when its standard input can end it, and the driver, which drops a display whose process
is gone or does not call `vdd_update`. `outputs` is what `EnumOutputs` lists: the virtual displays and the
monitors, which the user turns on and off at any time. A new output can be put anywhere in the sequence,
and an index is a position in it: `FindIndex` looks it up, `Report` prints it and starts the watchdog,
ffmpeg opens the output that is there later still. `shifted` holds the processes at whose
index, or in front of it, an output has come or gone since the lookup. An adapter lists the outputs there
were when it was made; `FindIndex` is that moment. The sequence begins empty, a headless host; monitors
that are on from the start are those turned on before the first run. **`Session`** composes it with `DllLayout`:
`LayoutStep` takes the steps of the script on the DLLs, and `add_virtual_display` and
`remove_virtual_display` stand before and after them where `record_until_ctrlc.py` has them.
`OpenOutput` is ffmpeg opening what is at the reported index, some time after its launch.

**`WebSocketLink`** is the connection between a process of the relay and a listening socket of
the app: backlog, handshake, frames under way, and which end has closed. **`Relay`** is
`tcp-ws-relay` with a process per start, the task that reads senders and the task that forwards. It spawns the
first before it subscribes for the second (`main.rs` 121-122): what is read between `StartRelay` and
`Subscribe` goes to nobody, and no receiver ever counts it as skipped. `ring` is tokio's broadcast channel as
the one receiver that reads it sees it. **`NalSplitter`** is
`AnnexBNalSplitter` as an operator on a pending sequence and a chunk, and next to it what the NAL units of a
stream are, read in one pass. **`Receiver`** is the main thread of the app through `startPipeline`
and `stopPipeline`, and the thread of each `WebSocketServer` it starts. **`StreamPath`** composes
the four; the byte values are 0, 1 and another, all a start code can tell apart.

**`CaptureLoop`** runs the three capture programs, `dda-probe` with each of its four
strategies, against the same `Dxgi` as the proxy. `program` says which one it is.
**`CursorOverlay`** is `draw_cursor_bgra` of `capture-helper` on sets of pixels: `Fetch` and `Draw`
as the code has them, with its arithmetic and its skip of transparent pixels, and `Overlay` as what
should be in the frame.

**`VideoDecoder`** has three kinds of thread: the feeder, the callback thread of each codec
and the main thread in `stop()`. NAL units are reduced to connection and header byte, and the
byte is read in the code's two ways. An access unit is the set of connections its NAL units
came from. The calls that may throw do so in the model: a submit whose `put` or `queueInputBuffer` throws
leaves the buffer neither queued nor parked (`Submit`, 379-396; `thrown`); a `startCodec` that throws after it
has created a codec leaves that codec with the surface (`Configure`, 344-351); a `codec.stop()` that
throws skips `release()` (`Release`, 152-157). `live` holds the codecs that exist, `orphans` those among them that such an
exception made the decoder lose.

`MC*` modules give TLC the values of function-valued constants. Operators named `Mutant*` are
each a plausible slip in the definition below them; nothing in a specification uses them, and
replacing that definition by them breaks a property.

## Runs

| Run | Question | Instance and why it is enough |
|---|---|---|
| `DdaSolo` | all safety properties of the proxy and the refinement of `CaptureService` | one capture, two outputs (a wrong one to fall back to), two devices (a wrong one to recover on), two threads, a desktop switch, a removable device, clients that poll while holding. Two object identities are enough: when a recovery duplicates, `real` is already empty and only the owner of a held frame still lives |
| `DdaHeals` | recovery comes back for good once the disturbance ends | the same without holding across polls |
| `DdaPair` | the lock on every exit path, and that neither of two captures waits for ever | two captures on three threads, one per duplicate interface. One object identity is enough: a second duplicate can then only fail, and a failing exit is the case in question. A panic ends the process, so the run may stop |
| `InlineHooks` | devices observed, no fault, no reentry | two threads, four calls, each of which may create a device or fail; the bound on calls ends the run |
| `HooksWalk` | no slot patched twice, every duplication a proxy | two threads, two classes, unbounded walks; a crash ends the process. Two classes are the least for an original that is another class's, and for a host that comes back to a class |
| `Sessions` | nothing loses the genuine DLL; a finished restore is exact; ffmpeg can load; the display goes; ffmpeg captures the right one | unboundedly many runs of two scripts, from a fresh build and from one that an earlier version left with the proxy in it; one helper, two monitors. `record` has a display, and `verify` has every exit `send` has. Two monitors are the least for an index above 2 and for one that moves while another stays; they may come and go at every step, so that the index is right, wrong or of nothing when ffmpeg opens it. A second helper is one more output that comes and goes, and `TheRightDisplay` is about any number. The theorems about the layout begin with any layout |
| `Decoder` | streams do not mix, buffers and units are accounted for, the decoder starts and stops | two connections of different formats, HEVC and then H.264, two input buffers, two access units, `pendingUnits` of length one (a FIFO with one consumer: its length only delays). Two units are the least that make a queue miss add up, two codecs the least for a stale callback. Any submit and start may throw, and any release; one of these loses a codec (`MaxOrphans`), and `StopReleasesCodec` is about any number. The run also evaluates `SplitterAssumption`: every stream of up to seven bytes of three values, cut anywhere into three chunks, splits as `NalsOf` says. Seven bytes hold two start codes of three bytes, or one of each length, with a code across one cut or both |
| `StreamPath` | the bytes reach the decoder callback once, in order and whole; each pipeline's thread keeps to its decoder and ends; nothing waits for ever | two senders that may connect before the relay has subscribed, two processes of the relay, two pipelines; a channel and a socket of one chunk, so that both are full and dropping at once; one size of read, longer than the second stream. The chunking itself is `SplitterAssumption`'s question, and for any length that of `NalSplitterProofs`; here the two streams meet inside a start code |
| `CaptureLoop` | which capture programs come back, which cannot; the cursor | each of the six programs on one output, two devices of which one can be removed, two desktops, two object identities (the one there is and the next). A frame of 3 by 2 pixels, a cursor with its hotspot inside, one larger than the frame with a transparent pixel and one that is all mask, at places left of and above the frame and inside it, so that each edge clips |
| `DdaOutputDrift` | *violated:* recovery duplicates the client's output | the client enumerates another output after its own; `LAST_OUTPUT_INDEX` is process-wide |
| `DllInUse` | *violated:* the layout is restored after an error | `send_stream.py` with an ffmpeg that outlives Ctrl+C and keeps the DLL loaded |
| `DecoderMidStream` | *violated:* the decoder starts at the next keyframe | a connection that begins with the slice header `0x41`, which read as HEVC is a VPS; the relay drops chunks, so a connection can begin there |

Some runs do not check for deadlock because the system may really stop: a panic or a crash ends
the process (`DdaPair`, `HooksWalk`), the devices run out (`InlineHooks`), `stop()` ends everything
(`Decoder`, `DecoderMidStream`), processes and pipelines are finite in number (`StreamPath`), a program may end
(`CaptureLoop`).

What the passing runs assume is in their properties or constants: `SameOutput` and `SameDevice`
hold for a client that enumerates and duplicates only what it captures; `NoPanic` for a client
of the interface recovery uses; the inline and vtable properties that begin with `~raced` for
calls that do not overlap, `EveryDuplicateProxied` also for a host that does not go back to a class
of devices (`~reverted`: the slots of that class are marked, and their originals are overwritten for good);
`Bootstraps` for connections that begin at a keyframe;
`StoppedReleasesCodec` for a feeder that ends within the second `stop()` waits (`~timedOut`; one that
does not can find the codec gone under it, or start one after `stop()`) and for codecs that no exception made
the decoder lose (`orphans`);
`PipelineIsolation` while no join has timed out (`~outlived`); `NoGap` from the subscription on, while the
channel has dropped nothing; `Resumes` once the desktop rests, with the display
and the device that were there at the start (`Calm`). `CapturesItsDisplay` has no such assumption: it says
that only an output that comes or goes at the index, or in front of it, can lead ffmpeg to another
display, and the run has those steps at every moment. Nothing in the code notices them.

### Where the sources say more than the code does

The three violated runs show one each. The others, found while modelling, have no run:

- `GetFramePointerShape` can hand the client `ACCESS_LOST` (`duplication_proxy.rs` 309 against
  351-353; `CaptureService` allows it), and every error outside three codes is passed on (251
  against 47-50; `CaptureService` allows the removed device).
- A client that polls while it holds a frame makes the recovery duplicate beside a live object
  (`duplication_proxy.rs` 234 against `state.rs` 87-91; `OneLivePerOutput` excepts it).
- `attach_once_this_thread` attaches a thread once, not before each duplicate (`recovery.rs` 37
  against `dxgi_output.rs` 132-139).
- A hook can fire before its original is stored when two threads walk at once (`dxgi_output.rs` 43
  against `state.rs` 73-76), and a recovery that calls `DuplicateOutput1` panics when the client
  only ever used `IDXGIOutput1` (`recovery.rs` 126 against `dxgi_output.rs` 98-114). `HooksWalk`'s properties begin with
  `~raced`, and `NoPanic` with the interface, because of these two.
- A Ctrl+C in a script's `finally` before SIGINT is ignored skips the restore
  (`DllLayout.InterruptOutside` against `latency-poc/README.md` 210-212; `RestoredExactly` is
  about restores that ran).
- `send_stream.py` 456-463 says ffmpeg can connect to the relay at once while the relay searches for
  the app; the relay (`main.rs` 100-122) binds its TCP port after the search.
- Two senders at once are mixed inside NAL units (`tcp-ws-relay/src/main.rs` 182), and a sender
  that is restarted behind an open WebSocket is no new connection for the app (170-172 against
  `TcpReceiver.kt` 24-29), so the decoder is not reset.
- `startPipeline` advertises the service as soon as the bound socket is there
  (`MainActivity.kt` 118-121), but also when the bind has failed or the wait has timed out.
- "no input buffer is ever silently dropped" (`VideoDecoder.kt` 90-95) does not hold of a submit that
  throws (379-396): the exception is logged, the index is not parked again and the unit is gone
  (`BuffersAccounted` and `OneLossPerReset` except exactly those).
- `capture-helper` (289-294) and `desktop-shot` (250-255) make the new duplication while the old
  one is alive, which `poc/README.md` 12-13 says cannot work; `Resumes` therefore leaves out
  what leads there.
- A handshake that fails leaves its socket open (`WebSocketServer.kt` 109-116).

## Fairness

`DdaProxy.Fairness` asks for what the host and the scheduler give. ffmpeg polls in a loop and
releases what it got, hence weak fairness of `Poll`; a call under way goes on, hence weak
fairness of `Acquire \/ Recover` and of `DuplicateCall`; a `parking_lot` mutex hands itself to
each waiter in the end, hence strong fairness of the two lock steps. Nothing is assumed of the
desktop or the displays: `Heals` asks for the capture only when they rest.

`StreamPath.FairSpec` has one weak fairness condition, on all the steps threads and tasks take by
themselves: something that can go on does. Starting and stopping of relays, senders and pipelines is
left to the user, and so is the choice which thread goes on. That is enough, because every thread
that could hide another runs out of work in the end.

`CaptureLoop` has weak fairness of `Step`: the one thread of the program runs. An error of
`acquire_next_frame_now` that is none of the three the programs tell apart (`AcquireFails`, `capture-helper`
302-306) is tried again with nothing changed, and strong fairness of `Answered` says that it does not come at
every try: otherwise no frame can be asked of any program. `Session` has weak
fairness of each helper's own steps, with the driver's for a helper that is gone, and of the
script inside `remove_virtual_display`, where it waits at most five seconds. Neither the script
nor ffmpeg has to end: `DisplayGoes` begins when the script is done with the display.

The other modules have safety properties only.

## Proofs

All theorems are for every value of the constants that satisfies the modules' named
assumptions.

`DdaProxyProofs.TypeCorrect` rests on `ProxyInv`. `TypeOK` is not inductive alone: `Collect` and
the updates `inst[real[c]]` stay inside the type only if `real`, `owner` and `fresh` refer to
live objects, and that needs to know at which steps of a recovery the locals are set
(`LocalsOK`), where a call without a real instance can stand (`FieldsOK`), and that the live
objects are those some capture refers to, each only one (`RefsOK`). The step proof has one
step per action and a lemma for each way the references change.

The rest of `DdaProxyProofs` adds to `ProxyInv`. In every host: a held frame always has its owner; a good
object that is locked by a frame belongs to a client that can release it; the lock is held by
exactly the call inside the guarded stretch. Four more hold in a class of hosts only, which the
theorem names as its hypothesis. For the first, a run shows what happens outside the class; for the
other three the class is a limit of what is proved:

- `OneOutput`, where all clients capture the one display they enumerate: every recovery comes
  back to it (`RecoversSameOutput`). `LAST_OUTPUT_INDEX` is one static for the process, and
  `DdaOutputDrift` shows it leading a recovery to the other display when there are two.
- `OneDevice`: every recovery duplicates on the client's device (`RecoversSameDevice`).
- `OneCapture`: two duplications of an output are alive together only while the client holds a
  frame of one of them (`OneLiveForOneCapture`).
- `RecoveryApiOnly`, where every client uses the interface recovery uses: no recovery panics,
  because every proxy in use came through a duplicate call whose original was stored.

`ObjectsFollow` is what the first two share: a capture gets an object from its client's own call
or from its recovery, and an object keeps its output and its device.

`DdaProxyProofs.ProxyImplementsService` proves the refinement for clients that release before
they poll again (`ReleasesFirst`): every step of `DdaProxy` is a step of `CaptureService` or
leaves its variables alone. Its invariant says that a proxy that polls holds no frame. For clients that
do not release first the refinement is model-checked only, by `DdaSolo`.

`DllLayoutProofs` proves that the last genuine DLL survives every interrupt, kill and failed copy;
that a restore that ends is exact; and that a running ffmpeg can load its layout. The invariant
relates `bin/`, the stash and the step the script is at:
from the pinning of the genuine DLL to the removal of the stash, a genuine copy is in the
stash, and the stash is the layout before the run. The module then goes on to sessions:
`SessionKeepsLayout` shows that `Session` implements `DllLayout`, so that what was proved of the
layout holds of sessions, and `TheRightDisplay` proves `CapturesItsDisplay` for any number of helpers
and monitors, overlapping or not. `Placed` says that an index that was
looked up is its display's place unless an output has come or gone at it or in front of it since, and
`PlacesStay` that one that comes or goes behind it moves nothing; `ScriptInv` adds that what the script and
ffmpeg have is what the helper printed.

`SessionTypeCorrect` proves `SessionTypeOK`, the heart of which is that no output is listed twice
(`OutputsInv`), hence that an index is a number of an output there can be; `VanishIs` and `AppearIs` say what
becomes of each place.

`VtableHooksProofs.NoHookCallsItself` proves that no `ORIGINAL_*` is ever our own hook. The
invariant says why a mark that is set before the slot is written is enough: every hooked slot
is marked, and so is every slot a thread is about to patch, so that thread is alone with it
and finds the class's own function there. `OneWalkAtATimeSuffices` is about walks that do not
overlap, of a host that does not go back to a class: `Serial` says that one thread at most is on the walk, and that,
but for what that thread has still to do, the marked slots of the class in use are hooked and their `ORIGINAL_*` is
that class's own function; those of classes left behind may hold any other's.

`InlineHookProofs` proves, for any number of threads whose calls come one after the other, that
every device is observed and that no thread faults or reaches the hook from inside it. Neither is inductive:
`CallInv` ties the place of a thread in `call_through` to the bytes, the protection of their page
and the thread's saved copy, and `OneCall` says that the other threads are outside and what the
bytes are when nobody is inside. `TypeCorrect` is about all calls, those that overlap too: `Saved`
says that a call has its bytes until it puts them back, `Counted` that a call is under way, or
counted once: as observed, missed or failed.

`StreamPathProofs.Isolation` proves `PipelineIsolation` for any number of pipelines, relays and
senders and any streams: `DecoderInv` says whose decoder the activity has at each step of the
main thread, `ThreadInv` that the threads of earlier pipelines are over unless a join has timed out.
`NothingIsSkipped` proves `NoGap`. Its invariant follows the bytes from the sender to the app:
`Flows(done, chunks, total)` says that there are points at which `total` can be cut into what is done and
then the chunks under way, one after the other, and `FlowInv` that what the relay has read since it subscribed (`sent`) flows
through the channel and the wire into what the app has read. What it read before is lost without a lag, and
nothing is claimed of it. `LinkInv` says which thread and which
relay a connection belongs to, so that nobody else's bytes come into it.

`ChunksDoNotMatter` proves `ChunkingIndependent` for streams and chunks of any length. It rests on
`NalSplitterProofs`. There, `PushIs` says that a search from code to code, with codes of three bytes and of
four, finds what a single pass over the occurrences of `0 0 1` finds (`CodesAre`). `NalsAfterCut` says
that wherever a stream is cut, its NAL units are those of the first part, and then those of what that part
keeps with the second behind it: the last code of the part is the first of what is kept, and `CodesInOrder`
puts the two lists of codes together. `KeepAfterCut` says that what is kept then does not depend on the cut
either. No induction is needed: `Sorted` is defined by how many elements there are up to each, and
`SortedOnly` shows that any increasing list of a set is that one. `SplitInv` applies the two facts
at each frame.

`VideoDecoderProofs` proves all that is checked of the decoder, for any number of connections,
buffers and units. `BasicInv` has the types, the order of the queue of NAL units (`PendingInv`) and which
codecs there can be (`MadeInv`). On it rest `FlowInv`, that all a codec is given is of the
connection it was made from, also when `stop()` and late callbacks come in between
(`AccessUnitsStayInStream`, `StopReleasesCodec`); `BufferInv` (`NoBufferIsDropped`); `MissInv`
(`MissesAreBounded`); and `SurplusInv`, which pays for each unit lost, index queued and callback under way
with a codec made or a buffer out, and with `StaleInv` gives `ResetsCostOneUnitEach`.
`CompleteSetsConfigure` has the hypothesis `~JoinsMidStream`, that a connection begins with a parameter
set; `DecoderMidStream` shows that it is needed. `LeftInv` is about what exceptions leave: a buffer that a throw
has cost is not the codec's own again, and a codec that is neither released nor lost to an exception is the one
in use. The assumption `IsFiniteSet(Buffers)` is `MediaCodec`'s: it
has a fixed number of input buffers. That a codec that throws from `stop()` is in its error state, with no more
events and no more buffers to take, is `MediaCodec`'s too; it is built into `Release` and `InputAvailable`.

`CaptureLoopProofs.CursorIsTrue` proves that what `draw_cursor_bgra` copies is the part of the
cursor over the frame that is not transparent, pixel by pixel, for every size and place and after any sequence of failed
fetches; its lemma `InFrameIsCovered` is the clipping arithmetic. `ProbeNeverRecovers` proves that a
duplication that `dda-probe` has lost is followed only by ones that fail for ever, whatever the desktop and the
displays do: the lost duplication is alive when the next is made. `TypeCorrect` says that in every
program the duplication that is alive is the one it holds (`LoopInv`): none is leaked by a rebuild.

Model-checked only: the liveness properties `Heals`, `NobodyWaitsForEver`, `Resumes`,
`DisplayGoes`, `StoppedThreadEnds` and `EverythingArrives`, since fairness and ENABLED are out of
the prover's reach. Every invariant and the refinement have a theorem; those that hold for a class of hosts or
streams only name it as their hypothesis.

## Left out, and why

Interface methods that only forward; wording and logging; the counters and the overlay of the
viewer; the two device recreation attempts that comments describe as
removed. `DdaProxy` identifies a hooked call with its effect; that the hooks are there is
`VtableHooks`' question. An empty NAL unit and the decoder's output buffers change no state the
properties are about; a sender that is stopped sends no more, so a NAL unit without a successor
stays in the splitter.

`TcpReceiver` is the loop of `WebSocketServer` without a handshake, and nothing uses it.
`NsdAdvertiser` and `StreamStats` only announce and show. `bgra_to_i420` and the alpha blending are
arithmetic on one pixel; what it does with an odd width or height (`capture-helper`
636) is a question of layout that no state depends on. A cursor that is only a mask has no pixel whose alpha
is not 0, and so is never drawn (606-609): `CursorTrue` asks nothing else. The end
of capture-helper's ffmpeg is noticed at the next write (338), and the model has it so.

The deployer is a sequential program that renames and extracts files; the layouts it can leave
behind are among those the theorems about the layout begin with. `test-harness` makes the calls
of a host one after the other, which are `DdaProxy`'s. The proxy DLL's forwarders are generated,
and `build.rs` generates them. What `send_stream.py` does besides the DLLs is to start two children and
copy their output; how the two meet is `StreamPath`.

In `VideoDecoder.kt`: a `startCodec` that throws leaves a `HandlerThread` behind besides the codec, at each
attempt (`live` has one member for all such codecs), and a unit that takes
a parked index can overtake one in the queue (372); the decoder's properties are about which
stream a unit is from and that buffers come back, not about the order inside a connection. In
`MainActivity.kt`, `bytesReceived` is read and cleared in two steps (98), and a statistic can miss
bytes.

## Plan

1. Done: the proxy and its refinement, the hooks, the DLL layout and sessions with a virtual
   display, the decoder, the path of a stream, the capture programs; proofs of every safety
   property.
2. `VideoDecoder` composed with `Receiver` in place of its own connections, and the order of units
   inside one connection.
3. `Deployer` as one more source of layouts in `Session`; `send_stream.py`'s two children, with
   `Relay` as one of them.
4. Proofs: `NoPanic` and `SameOutput` for the hosts of two displays or two
   interfaces in which they hold; the refinement for clients that hold a frame across polls.
