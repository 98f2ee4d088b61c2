# Verification project for the FreeRDP sources under `src/`

This directory holds TLA+ models of parts of the FreeRDP sources in `src/`, the TLC
configurations that model-check them, and TLAPS proofs about them. `PROJECT.json`
lists every component, run, mutant, hazard, finding and theorem. Its `map` names the
source lines that each definition translates.

## 1. The system and its parts

| Part | Source | State and operations | Interactions |
|---|---|---|---|
| Interleaved RLE bitmap decoder | `libfreerdp/codec/include/bitmap.h` | Source cursor `pbSrc`, destination cursor `pbDest`, `fgPel`, `fInsertFgPel`, `fFirstLine`; one loop pass per compression order (background, foreground and set-foreground runs, dithered run, colour run, FGBG image and set-FGBG image, colour image, special FGBG 1/2, white, black, invalid code) | Called by the interleaved codec (`interleaved.c`, not in this repository) once per bitmap, for each pixel size |
| Static virtual channel manager | `libfreerdp/core/client.c` | `initDataList/Count`, `openDataList/Count` bounded by `CHANNEL_MAX_COUNT`, per-channel `flags` (1 initialised, 2 open, 0 closed), `connected`, `can_call_init`, the write message queue | Plugin threads call `VirtualChannelInit/Open/Close/Write(Ex)`; the main thread drains the queue (`process_message`), connects, disconnects and closes |
| Video surfaces | `libfreerdp/gdi/video.c` | Surfaces and their presentation rectangles | Called by the video channel |
| OpenH264 wrapper | `libfreerdp/codec/h264_openh264.c` | Library handle, encoder/decoder parameters | Glue around an external library |
| SSSE3 sign primitive | `libfreerdp/primitives/sse/prim_sign_ssse3.c` | None (a pure loop) | None |
| Transport declarations | `libfreerdp/core/transport.h` | Declarations only | None |

What makes them hard:
- **The decoder.** Each handler does a sequence of checks (`buffer_within_range` on the
  source, `ENSURE_CAPACITY` on the destination) and writes between them. A run written
  off the first scanline reads the row above, which the same run may be writing. A UINT32
  `runLength - 1` can wrap.
- **The channel manager.** Plugin threads and the main thread interleave. Counters are
  advanced before checks.

## 2. Modules

### `RleDecode.tla`: the decode loop of `RLEDECOMPRESS`

This module is one iteration of the `while (pbSrc < pbEnd)` loop per step, with every
early return.

- **State.**
  - `src` is the stream, a sequence of bytes.
  - `sp` is the byte offset of `pbSrc`.
  - `dp` is the pixel offset of `pbDest`.
  - `dest` maps every cell of the `rowDelta * height` buffer to a pixel, or to the model
    value `NoPel` while it is unwritten.
  - `fgPel`, `fInsertFgPel` and `fFirstLine` are the C locals.
  - `status` is running, success (`return TRUE`) or failure (`return FALSE`).
- **Constants.**
  - `PixelSize` is 1, 2 or 3 bytes.
  - `RowDelta`, `Width` and `Height` are the geometry.
  - `Bytes` and `MaxSrc` give the streams that are enumerated.
  - `NoPel` is the unwritten marker.
- **Actions.** There is one action per order handler: `BgRun`, `FgRun`, `DitheredRun`,
  `ColorRun`, `FgBgImage`, `ColorImage`, `SpecialFgBg`, `SpecialPel`, `BadCode`, plus
  `Finish` (the loop exits and the decoder returns TRUE).
  - Each action begins with `Order`: the first-scanline check of lines 136-143, then the
    order code of the header byte.
  - Each return FALSE is a disjunct that sets `status` to failure. The disjunct keeps
    exactly the writes the code has made by then. Examples: the inserted foreground pel
    of a background run, and the whole 8-pixel chunks of an FGBG image before its tail
    check fails.
  - `Emit(w, V)` writes `w` pixels at the cursor.
- **Abstractions.**
  - **Pixels.** Pixels are their low bit (`Pel = {0, 1}`). XOR, black, white and
    "copy a source pixel" stay distinguishable.
  - **Runs written off the first line.** Such a run is written in closed form. A pixel at
    `k` is the pixel `RowPix` before it, XORed with `fgPel` at the steps whose bitmask bit
    is set. The chain back leaves the run at `Root(k)`, which is what the `UNROLL` loops
    compute pixel by pixel.
  - **The UINT32 wrap.** The wrap of `runLength - 1` for a zero-length run is the
    `wraps` case. The code's `ENSURE_CAPACITY` then fails, as it does for 0xFFFFFFFF.
- **Spec-modelled helpers.** The order-header helpers live in `interleaved.c`, which is
  not in this repository. They are modelled from the spec and marked `spec_modelled` in
  the map:
  - `ExtractCodeId`, `ExtractRunLength` (with `ShortRun` for the one- and two-byte
    forms) and `buffer_within_range` (`SrcHas`);
  - the pixel macros, the order codes and the special masks.

`MC_RleDecode.tla` gives the byte sets that TLC enumerates.

### `ForwardWriter.tla`: what the decoder promises about its output

`ForwardWriter` is the abstract specification of a decoder that fills its destination
front to back.
- **State.** `out` is the destination, `cur` is the first cell not yet written, and
  `result` is running, success or failure.
- **Actions.**
  - `Write(n)` gives the `n` cells at the cursor pixel values and advances the cursor by
    `n`, never past `Size`. It leaves every other cell as it was. The decoder may fail
    after the write.
  - `Stop` ends a running decode with success.

`RleDecode` implements it through `FW == INSTANCE ForwardWriter WITH out <- dest,
cur <- dp, result <- status` (with `Size <- DestPix`, `Pels <- Pel`, `Blank <- NoPel`).
- Every handler pass maps to one `Write(n)`, or to a stutter when nothing changes.
- `BadCode` maps to `Write(0)` with failure.
- `Finish` maps to `Stop`.
- The geometry check at the top of `RLEDECOMPRESS` (`rowDelta` zero or below `width`),
  which fails before any write, is `Init` with `result = "failure"`.

The property `ForwardRefined` is `FW!Spec`.

### `ChannelManager.tla`: the static virtual channel manager of `client.c`

The main thread and the plugin threads share the channel tables and the write queue.

- **State.**
  - `mpc` is where the main thread is in its life cycle: loading plugins, after
    `pre_connect`, running, inside `disconnect` (before and after `connected` is cleared),
    down, inside `close`, closed, freed. `cycle` counts reconnections.
  - `clients` is `clientDataList[0 .. clientDataCount-1]`; `initCount` is `initDataCount`;
    `tried` holds the plugins whose load was attempted (the `is_loaded` check).
  - `opens` is all `CHANNEL_MAX_COUNT` slots of `openDataList` (name, flags, handle). Their
    contents survive `close`, which only resets the counts. `openCount` is `openDataCount`.
  - `handles` is `g_ChannelHandles` (handle to slot, or -1); `seq` is `g_OpenHandleSeq`.
  - `queue` is the message queue: write ids and the `WMQ_QUIT` message `Quit`.
  - `wr` follows each write call: idle, checked, queued, refused or done, the slot its
    message points to, and the event it got.
- **Actions.**
  - Main thread: `Load(p)` (the loaders and the entry point's `VirtualChannelInit[Ex]`
    through `InitChannels`, with the too-many, duplicate-name and registration outcomes),
    `PreConnect`, `PostConnect`, `ProcessMessage` (one message of `process_sync`),
    `Disconnect`, `DisconnectFlushed`, `DisconnectDone`, `Close`, `CloseDone`, `Reconnect`
    and `Free`.
  - Plugin threads: `OpenChannel(n)`, `CloseChannel(h)`, and a write as two steps,
    `WriteCheck(w, h)` (handle, `connected` and flags checks) and `WriteDispatch(w)`
    (`MessageQueue_Dispatch`). The main thread may run between the two.
  - `disconnect` and `close` are split where the code calls `check_fds`. A step that needs
    the queue drained waits for `ProcessMessage` to empty it, which is what the flush does.
- **Abstractions.** Names, plugins and writes are model values; payloads, user data,
  callbacks and the pub-sub events are left out. A plugin thread may pass any handle value,
  stale ones included. The `connected` check of `VirtualChannelInit` is not modelled: loading
  happens only while `connected` is FALSE.
- **`WriteService.tla`** is the abstract promise a plugin relies on: a write is refused, or
  accepted and then answered exactly once, with `WRITE_COMPLETE` or `WRITE_CANCELLED`,
  eventually. `ChannelManager` maps onto it with `AbsWs`: idle and checked are idle,
  queued is accepted, done is its event. The property `WriteServiceRefined` is
  `WS!Spec` through `INSTANCE WriteService WITH ws <- AbsWs`.

`MC_ChannelManager.tla` gives the plugin sets and the `CHANNEL_DEF` arrays TLC enumerates.

## 3. Runs

| Run | Config | Bounds | Checks |
|---|---|---|---|
| `decode_small` | `MC_RleDecode.cfg` | 1-byte pixels, 2x2 buffer, streams of at most 4 bytes over 18 chosen bytes | `TypeOK`, `AboveWritten`, `Terminates`, `ForwardRefined` |
| `decode_wide` | `MC_RleDecode_wide.cfg` | 4x3 buffer, streams of at most 4 bytes over 10 bytes | the same |
| `success_fills_dest` | `MC_RleDecode_SuccessFillsDest.cfg` | as wide | `SuccessFillsDest` (violated) |
| `failure_writes_nothing` | `MC_RleDecode_FailureWritesNothing.cfg` | as wide | `FailureWritesNothing` (violated) |
| `channels_small` | `MC_ChannelManager.cfg` | 2 plugins, names n1-n3, arrays `<<n1>>`, `<<n2>>`, `<<n1,n2>>`, `<<n3>>`, `CHANNEL_MAX_COUNT` = 2, 1 write, 1 reconnect | `TypeOK`, `HandleTableSound`, `WriteServiceRefined`, `QueuedExactlyOnce` |
| `channels_crowded` | `MC_ChannelManager_crowded.cfg` | 3 plugins, arrays `<<n1,n2>>`, `<<n3>>`, 2 writes, no reconnect | `TypeOK`, `HandleTableSound`, `WriteServiceRefined`, `QueuedExactlyOnce` |
| `init_slot_in_bounds` | `MC_ChannelManager_InitSlotInBounds.cfg` | 3 plugins, no reconnect | `InitSlotInBounds` (violated) |
| `write_outlives_disconnect` | `MC_ChannelManager_NoWriteOutlivesDisconnect.cfg` | 2 plugins, 1 write | `NoWriteOutlivesDisconnect` (violated) |

Why these bounds:
- **The byte sets.** Each chosen byte is a header of one order form: regular, lite and
  mega, with non-zero low bits or a zero field that pulls in the next byte. There are also
  bytes that are only good as run lengths or bitmasks.
- **Four-byte streams.** They reach every short/long header form, and every "header cut
  short" and "literal missing" return.
- **The small run.** It hits the row straddle, where the first line ends mid-run.
- **The wide run.** It fits 8-pixel FGBG chunks and the special FGBG orders, and
  overflows the buffer on them.
- **Coverage.** Together the two passing runs fire every disjunct of every action.

What the properties say:
- **`TypeOK`.** Both cursors stay inside their buffers. This is the job of every
  `ENSURE_CAPACITY` and `buffer_within_range`.
- **`AboveWritten`.** When an order runs off the first scanline, the whole row above
  `pbDest` lies inside the buffer and has been written. So `DESTREADPIXEL(pbDest -
  rowDelta)` never reads outside the buffer or an unwritten pixel.
- **`Terminates`.** The loop returns.
- **`ForwardRefined`.** The decoder implements `ForwardWriter`. Every pass writes pixels
  exactly in `[pbDest, pbDest')`, with the cursor advanced and never past the buffer, so no
  pixel is written twice. Only the final return changes the status to success.
- **`SuccessFillsDest`.** Violated. An empty stream returns TRUE with nothing written,
  at `bitmap.h:450`.
- **`FailureWritesNothing`.** Violated. `src = <<64, 8, 0>>` is an FGBG image of 9
  pixels. It writes its first 8-pixel chunk, then fails at `bitmap.h:336` on the missing
  tail bitmask byte.

Each property of a passing run is broken by a mutant of the code it is about (see
`mutants`):
- a `buffer_within_range` that allows one byte too many (`SrcHasShort`);
- a first scanline that ends a pixel early (`FirstLineShort`);
- a failed check that falls through (`AbortContinue`);
- a write that advances `pbDest` one pixel short (`EmitShort`), which breaks `ForwardRefined`.

**Fairness.** `Spec` has `WF_vars(Next)`. `RLEDECOMPRESS` is one sequential loop with
no waits, so while it runs it always takes its next step. `CHECK_DEADLOCK FALSE` is set
because the function returns: a state with status success or failure has no successor.

**The channel manager runs.**
- **Bounds.** `CHANNEL_MAX_COUNT` = 2 lets one plugin fill both slots with `<<n1,n2>>`, so
  the too-many-channels return fires, and with a third plugin the too-many-clients return
  fires. One reconnect reuses the slots with fresh handles, which is where a stale handle
  could reach a reused slot. One write is enough for the check/dispatch race. The crowded
  run has two writes, so that their messages interleave in the queue.
- **`HandleTableSound`.** A handle in the table leads to a live slot that carries that
  handle, and every live slot's handle is in the table. This is what keeps a handle a plugin
  kept across `close` from reaching a slot reused since.
- **`WriteServiceRefined`.** Every write is refused or accepted, and every accepted write is
  answered exactly once, eventually: by the pump, by disconnect's flush, by the flush in
  `close`, by `pre_connect`'s clear or by `MessageQueue_Free`.
- **`QueuedExactlyOnce`.** A write is in the queue exactly while it is queued, and at most
  once. So the pump, a flush and `MessageQueue_Free` each answer a given write at most once,
  and nothing queued is forgotten by `pre_connect`'s `MessageQueue_Clear` or by
  `MessageQueue_Free`.
- **`InitSlotInBounds`.** Violated (see the finding at `client.c:1072`).
  `VirtualChannelInit` increments `initDataCount` before its checks, and `client_load_ex`
  before the entry point, while the loaders' guard counts only `clientDataCount`. Three
  loads with two slots write `initDataList[2]`.
- **`NoWriteOutlivesDisconnect`.** Violated. A write checked before `connected` is cleared is
  dispatched after the final "Flush pending messages" of `disconnect`. It stays queued until
  `close`, which answers it; that is why `WriteServiceRefined` still holds.

Mutants: a channel-count check off by one (`TooManyShort`) breaks `TypeOK`; a handle-removal
loop one slot short (`CloseDoneOffByOne`) breaks `HandleTableSound`; a closed channel's
message dropped without `WRITE_CANCELLED` (`ProcessMessageNoCancel`) breaks
`WriteServiceRefined`; a `pre_connect` that clears the queue without cancelling its writes
(`PreConnectNoCancel`) and a `MessageQueue_Free` without the cancel (`FreeNoCancel`) break
`QueuedExactlyOnce`.

**Fairness of the channel manager.** Weak fairness is assumed for:
- the main thread's draining of the queue (`ProcessMessage`);
- the completion of what it has started: `PreConnect` to `PostConnect`, the two halves of
  `disconnect` and of `close`, and after a disconnect the `close`;
- `Reconnect \/ Free` once closed;
- each plugin thread's dispatch once its write has passed the checks.

The main thread is the client's event loop: it calls `check_fds` whenever the queue's event
is set. A plugin thread runs straight from the check to the dispatch. Nothing forces loading, the
decision to disconnect, or any plugin call. `WF(PreConnect)` and `WF(Reconnect \/ Free)` are
not guarantees of `client.c`. They assume that the application goes on from loading to
`freerdp_channels_pre_connect` (as `freerdp_connect` does), and that it reconnects or frees
a closed instance. `Free` requires that no write is between its
check and its dispatch: plugins join their threads on `CHANNEL_EVENT_TERMINATED`, which
`close` sends. `Reconnect` has no such guard: a plugin thread may still be between the two
halves of a write when the manager reconnects (see the hazard at `client.c:1290`). `CHECK_DEADLOCK FALSE` is set because a freed manager, or one closed for the
last modelled time, really stops.

## 4. What is proved

### `RleDecode_proofs.tla`

TLAPS proves these theorems for every pixel size, geometry satisfying the named `ASSUME`s,
and stream:
- `TypeCorrect == Spec => []TypeOK`;
- `AboveWrittenInvariant == Spec => []AboveWritten`;
- `ForwardRefinement == Spec => ForwardRefined`, the whole refinement (`ForwardWriter`
  has no fairness, so nothing of it is left to TLC).

The named `ASSUME`s are:
- `PixelSize \in {1,2,3}`;
- `RowDelta` is a multiple of `PixelSize`;
- the stream is bytes;
- `NoPel` is not an integer.

`TypeOK` is in fact inductive on its own, because XOR of anything yields a pixel.
`AboveWritten` is not. The inductive invariant is
`IInv == TypeOK /\ Prefix /\ FlagOK`:
- **`Prefix`.** The written cells are exactly those below `dp`. Every handler writes
  contiguously at the cursor, and no failure path leaves a gap.
- **`FlagOK`.** `fFirstLine` is cleared only once `dp * PixelSize >= RowDelta`.

With these two, `~FirstLine` gives `dp >= RowPix`, and `Prefix` gives the row above
written.

The argument is laid out as lemmas:
- `RunLengthType` says what `ExtractRunLength` returns: a length, and an advance that
  stays in the stream.
- `EmitStep` says a write of `w` pixels keeps `Prefix`.
- `FlagStep` covers the first-scanline check.
- `PassStep`, `StillStep` and `WriteStep` are the frame of one pass.
- There is one lemma per handler, with one step per return path, then `NextIInv` and
  `IInvInvariant`.

The refinement rests on the same `IInv`:
- **`PassShape`.** Every handler pass keeps `status` running or fails, and either leaves
  `dest` and `dp` alone or is one `Emit(w, V)`. There is one Zenon lemma per handler
  (`BgRunShape` ... `SpecialPelShape`).
- **`PassRefines`.** It turns a pass into `FW!Write(n)`. The cursor cannot move back: by
  `Prefix` and `Prefix'` a cell below `dp` but not below `dp'` would have to become
  unwritten, which `Emit` never does. The cells in `[dp, dp')` are written by `Prefix'`,
  and the others are unchanged by `Emit`. `StepRefinesFW` then maps `BadCode` to
  `Write(0)` and `Finish` to `Stop`.

Liveness (`Terminates`) is checked by TLC only: TLAPS does not reason about fairness and
`ENABLED` here.

### `ChannelManager_proofs.tla`

TLAPS proves, for every `CHANNEL_MAX_COUNT` >= 1, every number of reconnections and all
sets of plugins, names and writes (the `ASSUME`s `CountAssumption`, `DefsAssumption`,
`ValuesAssumption`):
- `TypeCorrect == Spec => []TypeOK`;
- `HandleTableInvariant == Spec => []HandleTableSound`;
- `WriteServiceSafety == Spec => WS!Init /\ [][WS!Next]_AbsWs`, the safety part of the
  refinement;
- `QueuedExactlyOnceInvariant == Spec => []QueuedExactlyOnce`.

`HandleTableSound` is not inductive on its own. A registration writes handles
`seq+1 .. seq+n` into the table, and nothing in `HandleTableSound` says those entries were
empty. The inductive invariant `IInv` adds:
- **`Fresh`.** Handles above `g_OpenHandleSeq` are absent from the table.
- **`LiveHandles`.** Every live slot's handle lies in `2 .. seq`.
- **`SeqBound`.** `seq` grows by at most `CHANNEL_MAX_COUNT` per connection, which keeps
  every handle in range. That is `TypeOK`'s bound on `seq`.
- **`ClosedEmpty`.** A closed manager has no live slots.
- **`QueueOK`.** Every write in the queue is queued, and is there once. This is what makes
  each message's answer an answer to an accepted write, and at most one.
- **`Pending`.** The converse: every queued write is in the queue. It is needed for
  `QueuedExactlyOnce`. It is also what shows that `CancelAll`, at `pre_connect`'s clear
  and at `Free`, leaves no write queued (`CancelAllPending`).

TLC checked `IInv` as an invariant of both passing runs before the proof. There is one lemma
per action (`RegisterIInv` carries the arithmetic of the new slots and handles), then
`NextIInv` and `IInvInvariant`. `StepRefines` maps each step to `Refuse`, `Accept`,
`Answer` or a stutter.

The liveness half of `WriteServiceRefined` (every accepted write is answered eventually)
rests on fairness and `ENABLED` and is checked by TLC only.

## 5. Not modelled, and the plan

Order of the work:
1. **Done: the RLE decoder core.**
2. **Done: the channel manager of `client.c`** (`ChannelManager`, `WriteService`, the proofs).
3. **Done: the proof of `QueuedExactlyOnce`, and the proved
   refinement of `ForwardWriter` by the decoder.**
4. **Next.**
   - The liveness of a write under a plugin that closes its channel while the main thread is
     inside `disconnect`, with more writes per plugin.
   - A write message kept across close and reconnect (`client.c:1290`): a property that
     the slot a queued message points to still holds the channel the write was made on.
   - A per-pixel refinement of the decoder: `UNROLL` loops as steps, checked to implement
     `RleDecode`.
   - `video.c`: surface presentation and its clipping.

Not modelled, with the reason:
- **Parts of `client.c` left out of `ChannelManager`.**
  - `attach` and `detach`, and the drdynvc callbacks: they notify plugins and change no
    channel table.
  - `freerdp_channels_data`: it passes received data to a plugin.
  - The registry of event handles.
  - The settings `ChannelDefArray` and `ChannelCount`: bookkeeping for the connection
    sequence.
  - The malloc, `HashTable_Insert` and `MessageQueue_Dispatch` failure paths: out-of-memory
    returns.
  - `VirtualChannelWrite` (without Ex): the same checks as `WriteEx`, mapped to
    `WriteCheck` and `WriteDispatch` through `WriteEx`.
- **The OpenH264 wrapper.** Glue to an external library.
- **The SSSE3 primitive.** A stateless vector loop.
- **`transport.h`.** Declarations only.
- **The tests.** They exercise code outside these components.
