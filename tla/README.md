# libvdpau-tegra in TLA+

A model of [libvdpau-tegra](../src), the VDPAU driver for NVIDIA Tegra20/30
GPUs: surfaces with their references, links, locks and threads, decoding,
drawing, presentation, the window system, buffer objects and command streams,
checked with TLC on small instances and, for the core, proved with TLAPS for
every instance. Line numbers below are those of `src/src/`.

## 1. Inventory

| part | source | state | operations | concurrency and failure |
|---|---|---|---|---|
| surfaces and handles | `surface.c`, `surface_video.c`, `surface_output.c`, `surface_bitmap.c`, table in `vdpau_tegra.c:393-494` | `tegra_surfaces[256]`; per surface `refcnt`, `surface_id`, `destroyed`, `detached`, `shared`, `lock`, pixels | create, get, put, destroy, put_bits | any application thread; `global_lock` around the table, but not around the final unref; allocation failure |
| surface cache | `surface_cache.c` | list of decoded surfaces per decoder, `last_use` | add, take, self-remove, expire, drop, release | `cache_lock`; surfaces stay referenced while cached |
| shared surfaces | `surface_shared.c` | `tegra_shared_surface`: refcnt, a video and an output surface, source and destination rectangles | create, get, swap, transfer, kill, break | `shared_lock`, `surf->lock`; a link is broken by whoever first draws on, mixes onto or destroys the output |
| video mixer | `surface_mixer.c` | CSC matrix, background colour, refcnt | create, set attributes, render, destroy | holds the destination's lock over the whole render, including layers |
| drawing | `surface_output.c`, `surface_bitmap.c`, `surface_rotate.c` | pixels (`data_allocated`), mappings, background flag; the registers of both engines | render_bitmap, render_output, put_bits | locks source and destination, in either order; memory, mappings and the engine may fail |
| decoder | `decoder.c`, `bitstream.c` | reference pictures, bitstream buffer | create, render, destroy | reference surfaces are held across an ioctl |
| V4L2 decoding | `v4l2.c`, `media.c` | request, bitstream buffer, 24 buffer slots with surface and timestamp | init, decode | kernel queue; every ioctl may fail, a request may be late |
| presentation queue | `presentation_queue.c` | `surf_list`, one thread, `exit`; per surface status IDLE / QUEUED / VISIBLE | create, display, block_until_idle, query, destroy | the queue's thread against application threads, timed waits |
| queue target | `presentation_queue_target.c` | `disp_surf`, overlap state, drawable, DRI buffer, colour key, two threads | create, display, prepare, to_idle, destroy | X11 event thread, display thread, queue thread; the X server refuses or grants |
| buffer objects | `tegradrm/tegra.c`, `tegra_bo_cache.c` | handle and name tables, refcnt, size buckets with free lists, mmap cache | new, ref, unref, map, from name/handle/dma-buf, cleanup | `table_lock`; buffers expire |
| streams, jobs, fences | `tegra_stream_v1.c`, `tegra_stream_v2.c`, `tegradrm/uapi_v*` | status FREE / CONSTRUCT / READY / FAILED, relocations, last fence | begin, prep, push, reloc, end, flush, submit, wait | submit fails; fences shared by reference |
| device, API entry | `vdpau_tegra.c` | device with Xv port and DRI2, output flags, colours; decoder, mixer, queue and target tables | device create/destroy, get_proc_address | `global_lock` |
| 2D/3D command builders | `host1x-gr2d.c`, `host1x-gr3d.c`, `host1x-pixelbuffer.c` | none of their own; the engines keep their registers between jobs | clear, blit, scaled blit, rotate, blend | jobs of other surfaces run in between |
| DRI2, dma-buf helpers | `dri2.c`, `dmabuf.c` | none of their own | request encoding | - |
| shader assembler, shaders, uAPI headers | `asm/`, `shaders/`, `gen_shader_bin.c`, `uapi/` | - | build-time tool, vendored headers | - |

How they interact: the application calls `vdp_*` entry points on any thread. A
decode writes a video surface; the mixer either links that surface to an output
surface (zero copy) or blits it; drawing on a linked output surface resolves the
link first; the presentation queue hands output surfaces to the target's
display, on its own thread. Everything is held together by reference counts:
the application's handle, the decoder's cache, a link, the queue and each call
in flight hold one each.

What makes each part correct:

* surfaces: a count equals the number of holders; a handle that the application
  owns resolves, one it does not own does not; nothing leaks.
* cache: what is handed out is referenced by nobody who would write or show it.
* links: symmetric, dropped exactly once, and invisible: the application sees
  what copying on each mix would show.
* queue: status, list and visible surface agree; no circular wait; what is
  queued is shown; who waits is woken; destroy returns.
* buffer objects: one object per GEM handle, a cached buffer is in one bucket
  and in no table, no cached buffer survives its time.
* streams: what was pushed reaches the hardware whole, in order and closed by an
  increment, or not at all; every buffer and fence reference is dropped once.
* decoder: every reference of a picture reaches the kernel with the picture it
  had and by the number H.264 gives it; the kernel is asked for nothing it must
  refuse.
* target: the window shows the visible picture whatever covers or moves it; the
  threads come down before what they use does.
* drawing: what a call was asked for is drawn, whichever engine does it and
  whatever earlier jobs left in its registers; no return keeps a lock or a
  mapping.

`PROJECT.json` lists every component with its status, and under `hazards` the
places of the code that are hard to test.

## 2. Plan

Done, in this order:

1. `Surfaces`, `FrameStore`, `FramePipeline`: the core and its refinement;
   `SurfacesProofs` and `FramePipelineProofs`, the proofs about both.
2. `PresentationQueue`: queue, target and their threads, with liveness, and
   `PresentationQueueProofs`.
3. `BoCache`: buffer objects and their two caches; `BoCacheProofs`.
4. `TegraStream` implementing `CommandStream`: both kernel interfaces;
   `TegraStreamProofs`, its refinement among them.
5. `Decoder`, `H264Pictures`: slots and references, what the kernel is told;
   `DecoderProofs`.
6. `DisplayDevice`, `QueueTarget`: the window, Xv and DRI2; `QueueTargetProofs`.
7. `Engines`, `OutputDrawing`: drawing and the words the engines get;
   `OutputDrawingProofs`.

Left:

* an abstract queue (a surface's status machine with one visible surface) that
  `PresentationQueue` implements;
* a finer `get_surface` against the unlocked slot write of the last
  `unref_surface`, bitmap surfaces and layers in `Surfaces`;
* the mixer's attributes; decoder, mixer, queue and target handle tables.

## 3. Modules

### Surfaces

State (names as in the source where TLA+ allows it):

| variable | code |
|---|---|
| `table` | `tegra_surfaces[]` |
| `refcnt`, `id`, `destroyed`, `detached`, `shared` | the fields of `tegra_surface` (`id` is `surface_id`) |
| `cache` | the surfaces with `cache_entry.cache` set |
| `link` | `tegra_shared_surface` objects: refcnt, video, disp |
| `lock` | owner of an output surface's `surf->lock` |
| `call`, `pc`, `vid`, `out`, `hold` | the call each thread is in, the step it has reached, its two surface pointers and the link it has referenced |
| `open` | handles the application was given and has not destroyed |

Objects are addresses that are reused after a free, as an allocator may: a
pointer that outlives its object therefore meets another object. The grain is a
critical section. An action is everything the code does under one lock or, when
several are nested, under the outermost; references that a call adjusts on its
own between two sections join the section before. `Settle` is `unref_surface`:
it applies a change of counts and, for a count that reaches zero, frees the
object and clears the slot that `surface_id` names.

| action | code |
|---|---|
| `CreateVideo`, `CreateOutput`, `CreateFail`, `Register`, `RegisterFail` | `create_surface` with `alloc_surface` and `get_unused_surface_id` |
| `FetchTarget`, `WriteRejected`, `BeginWrite`, `FinishDecode`, `FinishPutBits` | `vdp_decoder_render`, `put_bits_y_cb_cr` |
| `SwapUnshared`, `SwapShared`, `SwapFail` | `shared_surface_swap_video`, `replace_surface` |
| `FetchMix`, `MixLock`, `MixShare`, `MixBlit` | `vdp_video_mixer_render`, `shared_surface_kill_disp`, `create_shared_surface` |
| `FetchOutput`, `DrawLock`, `DrawDone`, `DisplayDone` | drawing on an output surface with `shared_surface_transfer_video`; `pqt_display_surface` |
| `DropCaches`, `ReleaseCache` | `tegra_surface_drop_caches`, the last `unref_decoder` |
| `FetchDestroy`, `MarkDestroyed`, `FinishDestroy` | `vdp_*_surface_destroy`, `destroy_surface` |

Rules of the application: VDPAU leaves concurrent use of a surface that is
written or destroyed undefined, so `Users`, `Readable` and `Destroyable` let a
call start only when no other call of the application uses the surface in a
conflicting way. The display thread is bound by none of this. Two constants
widen what the environment may do: `AllocMayFail`, and `KeepsLinkedVideo`
(FALSE: a video surface is destroyed while an output surface shows it).

### FrameStore and FramePipeline

`FrameStore` is what an application is promised: a handle has the content last
written to it, mixing copies, a call changes the content of its own handle only.
`FramePipeline` adds pixels to the actions of `Surfaces` (`pix` of video
surfaces, `img` of output surfaces, which is `Gone` while a link stands for it)
and is checked and proved to implement `FrameStore` under the mapping at the end of
the module: the frame of a handle is the pixels of the surface it resolves to, the
picture of an output handle is that of the linked video surface while there is
one. This is what the swap in `decoder.c:1169`, the transfer before drawing and
the cache's recycling have to achieve together.

### The proof modules

Each extends the module it is named after, `FramePipelineProofs` extends
`SurfacesProofs` as well. `TegraStreamProofs` begins with what the operations of
`TegraStream` do to command buffers, before its invariant. Section 6 says what they prove. The `MC` modules add symmetry, and values that a
configuration cannot write, for TLC.

### PresentationQueue

One queue on one target. It stands beside `Surfaces`: there the display is one
more reader of output surfaces, here an output surface is its status, its time,
its lock and its count, and its pixels are its name.

| variable | code |
|---|---|
| `handle`, `refcnt`, `status`, `due`, `surfLock` | an output surface: in `tegra_surfaces[]`, `refcnt`, `status`, `earliest_presentation_time`, `lock` |
| `list`, `pqLock`, `pqRefs`, `exit`, `pqHandle` | `surf_list`, `lock`, `refcnt`, `exit` of `tegra_pq`, and whether the application's handle resolves |
| `pqtLock`, `disp`, `prep`, `overlapped` | `lock`, `disp_surf`, `dri_prep_surf`, `overlapped_current` of `tegra_pqt` |
| `back`, `screen` | whose picture is in `dri_pixbuf`, and on screen |
| `pc`, `arg`, `want` | the step, surface and time of each thread; `arg[Queue]` is the local `disp_surf` of the queue's thread, `arg[Overlap]` the surface `pqt_display_thr` redraws |
| `todo`, `time`, `earliest`, `next` | the locals of `presentation_queue_thr`; during a scan `list` holds what the scan has passed and left, `todo` what it has not reached |
| `now` | `get_time()` |

| action | code |
|---|---|
| `ShowLock`, `ShowPicture`, `ShowOnly`, `Replace` | `pqt_display_surface` in its three callers, with `pqt_update_dri_buffer` and `pqt_display_surface_to_idle_state`, and what the caller does when it returns |
| `OverlapEvent` | a round of `pqt_display_thr` |
| `Display`, `DisplayLock`, `Refuse`, `Enqueue`, `ShowNow` | `vdp_presentation_queue_display` |
| `StartWait`, `TimeOut`, `Resume`, `ScanLater`, `ScanDue`, `ScanEnd`, `PrepareLock`, `Prepare` | `presentation_queue_thr`: wait, scan, show, prepare the next |
| `ExitDrop`, `ExitLock`, `ExitIdle` | the same thread when `pq->exit` is set |
| `Block`, `BlockLock`, `BlockRetry`, `BlockWait`, `BlockRefuse`, `Unblock` | `vdp_presentation_queue_block_until_surface_idle` |
| `CreateQueue`, `DestroyQueue`, `Close`, `Join` | `vdp_presentation_queue_create`, `_destroy`, `unref_presentation_queue` |
| `CreateSurface`, `DestroySurface` | `vdp_output_surface_create`, `destroy_surface` |

A step takes at most one lock that another thread may hold, and does everything
up to the next such lock. This keeps every order in which the four kinds of
threads can meet on `pq->lock`, `pqt->lock` and `surf->lock`, the two condition
variables with their lost and stolen signals, and every circle of locks. The
locks are recursive, hence `Free`.

What the application and the scheduler do is bounded by rules; `Admits` is a set
of sets of rules to lift, one of which, `admits`, holds in a
behaviour. Checked one by one, with the properties each would break:

| in `Admits` | lifts | breaks |
|---|---|---|
| `late_start` | the queue's thread is in its first wait before the first call | `QueuedIsShown`, `EveryCallReturns`: a signal before the first wait (`presentation_queue.c:42`) is lost; destroy joins for ever |
| `two_waiters` | one thread waits for a surface | `NoLostWaiter`: `pthread_cond_signal` wakes one of them |
| `reorder` | one display call at a time, in the order of times | `EveryCallReturns`, `ShownPictureIsOwn`: due surfaces are shown in the order they were queued |
| `late_display` | destroy starts when no display is under way | `ReportsAgree` (`NothingLeftBehind`), `QueuedIsShown`: a display that has the queue's pointer adds a surface after the thread has gone |
| `early_destroy` | queued surfaces are not destroyed | `ShownPictureIsOwn`: destroying makes a surface due at once, before one that is prepared |
| `new_queue` | one queue in the life of the target | `ShownPictureIsOwn`: `dri_prep_surf` outlives the queue |
| `redisplay` | only idle surfaces are displayed | `ReferencesAreKept` (`RefsExact`): showing the visible surface again leaks the display call's reference (`presentation_queue_target.c:643`); with `redraw` `EveryCallReturns`: `surf->lock` and `pqt->lock` in both orders |
| `redisplay` with `new_queue` | both | `ReferencesAreKept` (`HeldIsAlive`): a surface replaced while it is QUEUED loses a reference but stays `disp_surf` (lines 35-50) |
| `late_display` with `new_queue` | both | `ReferencesAreKept` (`HeldIsAlive`): what a late display put into the list of the old queue goes with it, and its references with that |
| `redraw` | `pqt_display_thr` does not redraw | `ShownPictureIsOwn`: it draws over the prepared picture, section 5 |

The runs admit what their properties survive.

### BoCache

Buffer objects of `tegradrm/tegra.c` and `tegra_bo_cache.c`. What runs under
`table_lock` is one step, what runs outside of it is not: a buffer being
registered, released or named is on its way, in `arg[t]`. Ages replace times, as
the code compares a time with the present only.

| variable | code |
|---|---|
| `bo` | `struct drm_tegra_bo` at each address: `ref`, size, flags, `reuse`, `name`, mapping, `mmap_ref`, ages |
| `list`, `entries`, `mmaps` | `cache_bucket[].list`, `num_entries`, `num_mmap_entries` |
| `mmapList`, `cacheTime`, `mmapTime` | `mmap_cache.list`, the times of the two caches |
| `handleTable`, `nameTable` | the two tables |
| `busy` | buffers given back that the GPU still works on |
| `app` | what the callers hold: references, mappings, what they asked for |
| `pc`, `arg`, `want` | step, buffer and request of each thread |

| action | code |
|---|---|
| `NewFromCache`, `NewMiss`, `Create`, `CreateFail`, `Register` | `drm_tegra_bo_new` with the first and the second attempt |
| `FlushTake`, `FlushFree`, `FlushEnd` | the flush of both caches after a refused create |
| `Ref`, `Unref`, `Release` | `drm_tegra_bo_ref`, `_unref`, `drm_tegra_bo_cache_free` with `_cleanup` |
| `Map`, `Unmap` | `drm_tegra_bo_map`, `_unmap` with the mmap cache |
| `GetName`, `InsertName`, `FromName`, `Forbid` | `drm_tegra_bo_get_name`, `_from_name`, `_forbid_caching` |

| in `Admits` | lifts | breaks |
|---|---|---|
| `unlocked_flush` | nobody runs while a failed create empties the cache | `OwnershipAgrees`, `OwnerCanUse`: the flush takes no lock (`tegra.c:415`), though `tegra_bo_cache.c:113` asks for it; one buffer is freed and given out |
| `reopen` | a name that is open is not opened again | `OwnershipAgrees`: the object of an opened name is in no list, and the lookup removes it from one |
| `huge_map` | buffers larger than the largest bucket (112 MB) are not mapped | the walk of the mmap cache follows the null bucket (`tegra_bo_cache.c:402`) and the thread ends in `crashed` |

### CommandStream and TegraStream

`CommandStream` is what the users of `tegra_stream.h` rely on: the words pushed
between begin and end reach the hardware whole, in order and closed by an
`OP_DONE` increment, or not at all. `TegraStream` models the header over both
kernel interfaces - buffer objects with a list of relocations (v1), one growing
buffer with relocations in its words (v2) - and is checked to implement
`CommandStream` with `phase <- status`. A stream is used under the lock of its
surface, so a call is one step. Operations on command buffers are functions from
a buffer to the set of their outcomes, which `Then` chains: every allocation and
every ioctl may fail.

| variable | code |
|---|---|
| `api`, `status`, `class_id`, `op_done_synced`, `last_fence` | `struct tegra_stream` |
| `job`, `push` | `stream->job`, the command buffers with relocations, increments, references |
| `fences`, `refcnt`, `pending`, `held`, `stray` | the fences, their counts and who has them |
| `room` | the words the caller prepared and has not pushed |
| `built`, `sent` | the words pushed since begin, what the kernel got |

Actions are the calls of the header: `Create`, `Destroy`, `BeginV1`, `BeginV2`,
`Prep`, `Push`, `PushSetClass`, `PushReloc`, `PushWords`, `Sync`, `End`,
`Cleanup`, `Flush`, `Submit`, `GetLastFence`, `WaitFence`, `ReleaseFence`.

| in `Admits` | lifts | breaks |
|---|---|---|
| `full_end` | v2: the buffer is not exactly full at the end | `NoOverrun`: `tegra_stream_end` pushes a word it did not prepare (`tegra_stream_v2.c:263`) |
| `late_reloc` | no relocation follows a synchronisation | `SparedWordsAreKnown`: `op_done_synced` stays set |
| `drop_class` | synchronisations keep the class | `SparedWordsAreKnown`: `class_id` stays set |

The model stops after a failed begin of v1, which leaves `stream->job` pointing
to a freed job: what follows frees it again.

### Decoder

`vdp_decoder_render` over stateless V4L2: `decoder.c`, `v4l2.c`, `media.c`, with
creation and destruction. The kernel's side (`kernel`) is modelled from the
ioctls the code makes; what it refuses and what it may fail at are told apart.

| variable | code |
|---|---|
| `at`, `detached`, `cached`, `held`, `mem` | the surface of each handle, swapped-out surfaces, the cache, references of `get_surface`, `v4l2.buf_idx` and `v4l2.timestamp` |
| `slotSurf`, `slotTime` | `dec->v4l2.surfaces[]`, `timestamps[]` |
| `clock` | `gettimeofday` |
| `kernel` | request, bitstream buffer, slots with state, time and memory |
| `dpb`, `shows` | the pictures the application may refer to |
| `job`, `refused` | the call under way; what it came to |

| action | code |
|---|---|
| `Render`, `Submit`, `RenderUnsupported`, `Finish` | `vdp_decoder_render` up to the copied bitstream; `tegra_decode_h264_v4l2` up to the wait; the early return; the dequeueing after it |
| `Decode` | the kernel |
| `CreateSurface`, `DestroySurface`, `EndShow` | `alloc_surface`, destroy, a broken link |
| `CreateDecoder`, `DestroyDecoder` | `vdp_decoder_create`, `_destroy` |

Lifting a rule breaks: `second_decoder` `ReferencesReach` (`decoder.c:1057`
compares with the wrong bound and sets the decoder in use up again); `clock_set`
`NeverRefused` (two pictures of one time); `failed_reference` (the application
refers to a picture that was not decoded), or `AllocMayFail = TRUE` (an
allocation empties the cache), `ReferencesReach` and `SurfacesReturn` (leaving
the loop early keeps the surface, `decoder.c:619`, `:751`); `"late"` or
`"request"` in `KernelFails` `NeverRefused` and `ReferencesReach` (the buffers
stay queued); fewer `Granted` buffers than asked for `NeverRefused`.

### H264Pictures

What the kernel is told of a picture: the slice type, read bit by bit from the
stream by the reader of `bitstream.c` with its emulation prevention, and the
references with their numbers, order and flags, for VDE, its first version
(turned in place, `TurnedToV1`) and V4L2. The application is a player that
follows the H.264 rules for `frame_num` and the sliding window. Reading and
sorting are functions of the data; the reference definitions they are checked
against are in the properties (`TypeOf`, `Nearer`, `FrameNumWrap`).

Actions: `Render` (a picture of the stream comes in), `Decode` (`DecodeVde`,
`DecodeV4l2`), `Refuse` (weighted prediction, CABAC), `Return`. Lifting
`intra_at_wrap` (an intra picture that starts `frame_num` again has no
references) or `b_only` (B pictures are of slice type 1, not 6) breaks
`ReferenceListIsRight`: only a picture that looks at its references changes their
numbers, and the B flag is set for type 1 alone.

### DisplayDevice and QueueTarget

`DisplayDevice` is `vdp_imp_device_create_x11` with the choice between Xv and
DRI2, the references of a device and the colours of its Xv port (`setup`,
`flags`, `device`, `server`). `QueueTarget` adds a target: `target`, `queue`,
where the application and the two threads are (`app`, `x11`, `redraw`, `seen`),
`disp_lock` (`held`, `locks`), `pqt->lock` (`owner`) and the display under way
(`shown`). `server` is what the X server shows. `PresentationQueue` decides when
a picture is shown; here every picture may come at any time, and the subject is
where it goes.

| action | code |
|---|---|
| `CreateDevice`, `DestroyDevice`, `InitColours` | `vdp_imp_device_create_x11`, `unref_device`, `tegra_xv_initialize_csc` |
| `CreateTarget`, `StartRedraw`, `DestroyTarget`, `JoinX11`, `SignalExit`, `JoinRedraw` | `vdp_presentation_queue_target_create_x11`, `unref_queue_target` |
| `CreateQueue`, `DestroyQueue`, `SetBackground`, `EndBackground` | `vdp_presentation_queue_*` as far as the target is concerned |
| `Display`, `EndDisplay`, `Prepare` | `pqt_display_surface` in its two halves, `pqt_prepare_dri_surface` |
| `X11Loop`, `X11Timeout`, `X11Visibility`, `X11Move`, `X11Post` | `pqt_x11_event_thr` |
| `RedrawLoop`, `RedrawCheck`, `RedrawSpurious`, `RedrawWake`, `RedrawOverlap`, `RedrawMove`, `RedrawEnd` | `pqt_display_thr` |

| in `Admits` | lifts | breaks |
|---|---|---|
| `late_event` | no event while a target is destroyed | `DestroyReturns`: the thread leaves its loop with `disp_lock` held (`:663`) |
| `slow_thread` | the display thread sees `exit` while the X11 thread's `select` ends | `DestroyReturns`: it may wait after the only signal (`:658`, `:784`) |
| `early_event` | no event before the target is complete | `OwnersKeepAlive`: `disp_lock` is initialised after the thread that uses it (`:915-921`) |
| `recolour` | nothing is displayed while the background colour is set | `PortFitsPicture`: the colour is written without a lock (`presentation_queue.c:280`) |
| `port_forgets` with `second_target` | a port that forgets its attributes shows one target's video | `PortFitsPicture`: the device believes the colours applied (`:792`) |

### Engines and OutputDrawing

`Engines` holds the command builders of `host1x-gr2d.c`, `host1x-gr3d.c` and the
blending of `surface_output.c` as the words they push - opcodes that open
registers, and values - and engines that read registers: `Run` feeds words to a
register file that keeps its values from job to job, `LeftoverRegs` is what
another job may have left there. A pixel is the set of inks in it. A job may be
refused - beginning, building, ending or flushing it fails - and then touches
nothing; `Asking` is what the jobs of one builder will be answered, and `status`
how the last one went.

`OutputDrawing` has the drawing calls on top: `data`, `link`, `set_bg`,
`map_cnt`, `lock` of each surface, `gpu` (registers and pixels), `pc` and `arg`
of the call of each thread, and `want`, what the calls that drew asked for. A call
whose job the engine refuses returns `VDP_STATUS_OK` all the same
(`surface_output.c:735-742` logs and goes on), so `DrawnAsAsked` is not that a call
which returns OK has drawn: it is that a call draws all it was asked or nothing,
and nothing only if it returns an error or a job of its own was refused. Following
a NULL `pixbuf` ends the process (step `crashed`).

| action | code |
|---|---|
| `Transfers`, `Fails` | the ways `shared_surface_transfer_video` returns: 0 with pixels, 0 without (no memory, the video lost), an error |
| `BeginDraw`, `CheckSource`, `ProbeRotation` | `surface_render_bitmap_surface` up to the destination's lock, with `rotate_surface_gr2d` asked whether it can |
| `DrawNothing`, `DrawNoMemory`, `Clear`, `PrepareTarget` | under it: `dynamic_alloc_surface_data`, `shared_surface_transfer_video`, a clear by the engine, by pixman or by neither |
| `Blend`, `RotateVideo`, `Copy` | by the engines, each job taken or refused (`EngineDrew`) |
| `MapTarget`, `MapSource`, `Composite` | by pixman, with the transfer, the mappings and the image of an area that fail |
| `PutBits`, `Mix` | `put_bits_native`, `vdp_video_mixer_render` (`MixShare`, `MixBlit`, `MixNoMemory`) |

| in `Admits` | lifts | breaks |
|---|---|---|
| `opposed` | a surface is not drawn on while another call reads it | `DrawnAsAsked`, `TypeOK`: what is read changes under the reader, and a mix frees what is mapped; `CallsReturn`, from the third call on: source and destination are locked in both orders (`surface_output.c:529`, `:683`) |
| `two_readers` | a surface that shows a video has one reader | `CallsReturn` likewise; `DrawnAsAsked`: one reader resolves the link that the other is about to rotate |
| `linked_copy` | a surface that shows a video is not copied plainly | `DrawnAsAsked`: it has no pixels, the call succeeds (`:724`) |
| `crop` | a rotated video is shown from its first row on | `DrawnAsAsked`: the position of the shown part is dropped (`:533`, `:703`) |
| `no_source` | a clear that stands for an empty source is not refused by the engine | `DrawnAsAsked`: the fallback paints white (`:633`) |
| `refused_video` | the engine does not refuse the jobs that paint a shown or mixed video and its background | `DrawnAsAsked`: the refusal is only logged and the link is broken (`surface_shared.c:321-334`, `surface_mixer.c:702`, `:722`) |
| `linked_memory` | memory suffices for a surface that shows a video | `DrawnAsAsked`: the video is lost, in a transfer or in a mix that then returns an error (`surface_mixer.c:587`); `TypeOK`, `NothingLeftHeld`, `CallsReturn`: a surface without pixels is mapped and the process ends (`surface.c:130-137`) |
| `linked_memory` with `opposed` or `two_readers` | | `NothingLeftHeld` with no crash: a source that lost its video fails to be fetched, and `surface_output.c:753-759` returns with the destination mapped |
| `rotate_memory` | memory suffices for a rotation | `NothingLeftHeld`, `CallsReturn`: `surface_rotate.c:129` returns with the destination locked |

## 4. Runs

| run | instance | shows |
|---|---|---|
| `surfaces` | 3 videos, 1 output, 2 links, 3 slots, 2 threads, failures and destroyed displayed videos allowed; 55 000 states | counts of surfaces and links equal their holders, links are symmetric and what is detached is shown, what is reached is alive and owned handles resolve, nothing leaks |
| `frame_pipeline` | 2 videos, 2 outputs, 2 links, 2 threads; 645 000 states | sharing and swapping are invisible (`FrameStore`), whatever the interleaving, and when a second output finds the video already linked |
| `failed_create` | expects a violation | section 5 |
| `presentation_queue` | 2 threads, 2 surfaces, redraw thread; two sets of lifted rules; 1 262 000 states | references, status, list and visible surface agree; no thread sleeps on an idle surface; an ended queue leaves nothing queued or visible; nothing is shown early |
| `presentation_liveness` | 2 threads, 2 surfaces, DRI forced, fairness; 43 000 states | what is queued is shown or handed back, waiters wake, display and destroy return, the picture shown is that of the visible surface |
| `bo_cache` | 2 buffers, 2 threads, 1 name, buckets of 1 and 10 pages, both kinds of memory; 1 992 000 states | a buffer has one owner, the books agree, its owner can use it, nothing gets old |
| `stream` | both interfaces, 2 relocation targets, 1 class, 2 fences, at most 4 words and 2 buffers; 550 000 states | implements `CommandStream`; no word outside a buffer; left-out words are known; fences and buffers are returned |
| `decoder` | 2 handles, 3 surfaces, 2 slots, 5 pictures, every ioctl failing except those above; 1 980 000 states | every reference reaches the kernel, nothing is refused, no call keeps a surface |
| `pictures` | 4 surfaces, 3 references, `MaxFrameNum` 4, three interfaces; 415 000 states | the slice type is read, the list is complete, ordered and numbered as H.264 has it |
| `pic_num` | expects a violation | section 5 |
| `target` | one picture mixed to video and one not, 2 colour keys, seven X servers, fairness; 289 000 states | owners keep alive, the picture reaches the window in its colours, the window is followed, destroying returns |
| `drawing` | 2 outputs, 1 bitmap, 2 threads, 2 calls, 2x2 pixels, every job, allocation and mapping failing except those above, fairness; 420 000 states | what is asked for is drawn, nothing is left held, calls return |

Why these bounds.

*Surfaces.* One video surface shown, one detached and one recycled are the three
roles a video surface can play at once, so three suffice for every swap and
cache situation of one output; a second link lets a surface be linked anew while
a call still holds the old link; three slots let the table be full while another
create runs; with two threads every pair of calls meets. `frame_pipeline` has
the constraint `Meeting`: either two calls meet or the second output surface is
alive, not both at once. Model values are interchangeable, hence the
symmetry, and every property checked under it is symmetric.

*Queue.* Two surfaces are the visible one and the one that replaces it or is
prepared; two application threads let a display, a wait and a destroy meet each
other, the queue's thread and the redraw thread. `MaxTime = 2` gives an immediate
display and two deadlines, one of which passes before the other; time 3 stands
for `UINT64_MAX`. When the clock has stopped a queued surface is due, so nothing
is cut off. `MaxRefs = 5` is met only where `redisplay` leaks references.

*Buffers.* Two buffers in two buckets, one small and one large, are enough for a
bucket to be emptied from its front while another buffer is kept. Sizes stand for
16384 bytes (`SmallSize`), 65536 (`SmallTotal`), 5 buffers (`Few`), 4 MB
(`Plenty`); `Fresh`, `Aged`, `Old` for 30, 60 and 300 seconds. The instance keeps
their order and puts each limit where two buffers reach it.

*Streams.* `Page` 3 lets a command buffer fill up and be exchanged, and the one
of v2 grow, within four words. Two fences let a new one replace a last one
somebody still holds.

*Decoding.* Two slots with one reference are the tightest: the only slot that is
not the reference's must be found, where the code has 24 slots for 16 references.
Three surfaces for two handles let a handle be swapped and a surface recycled.
`MaxFrameNum = 4` with three references lets references lie on both sides of a
wrap, and B pictures have references on both sides of themselves. `SliceData`
covers reads that end at, cross and follow an emulation prevention byte.

*Target.* `MCSetups` are one choice that leaves the window to be followed and the
choices made for good; `MCOutcomes` let each call of the X server fail by itself.

*Drawing.* In two by two pixels with `Align` 2 a rectangle is the surface or its
second row, whose position and height the rotation has to round. Two calls let
one find what another left in the registers, the pixels, the links and the locks,
and overlap with it.

Deadlock is checked in `surfaces`, `frame_pipeline`, `presentation_liveness`,
`bo_cache` and `target`. It is not where the system may stop: `presentation_queue`
(an application all of whose surfaces have leaked, and `redisplay` with the
lock order of section 3), `stream` (a dangling job), `decoder`, `pictures` and
`drawing` (the bounded clock, stream or calls are used up).

Fairness is assumed in three runs. In `presentation_liveness` the clock runs
(weak fairness), and every thread that is again and again able to take its next
step takes it (strong fairness per thread: a mutex that is released over and over
is not withheld from one thread for ever, and a woken thread gets its mutex). In
`target` the X11 thread, the calls that join and the second half of a display run
(weak fairness), the display thread gets `pqt->lock` although the queue takes it
again and again (strong fairness). In `drawing` a thread that can take the lock
it waits for takes it (weak fairness: calls are bounded). Nothing obliges the
application to make a call, the X server to send an event or the queue to display,
and nothing says which of a thread's steps is taken.
`block_until_surface_idle` retries a trylock without bound; no property claims
that this loop ends.

## 5. What the code does that it should not

Two runs show a disagreement with what the repository says:

* **A failed create succeeds** (`failed_create`). `create_surface` returns
  `VDP_STATUS_RESOURCES` (23) in place of a handle (`surface.c:641`), its
  callers compare with `VDP_INVALID_HANDLE` only.
* **The pic_num of older references** (`pic_num`). V4L2 is to be told PicNum;
  `decoder.c:634` makes it negative only in the picture whose `frame_num` is 0.

Met while modelling, and kept out of the runs by the rules named in section 3 or
visible there as lifted rules:

* A destroyed handle comes back. A decoded surface is cached with its slot in
  `tegra_surfaces[]` still set; `destroyed` makes `get_surface` refuse it. When
  `alloc_surface` takes it from the cache it clears `destroyed`
  (`surface.c:560`), registers it in a second slot and overwrites `surface_id`:
  the old handle resolves again, to somebody else's surface, and its slot is
  never cleared. The proofs show that, in spite of this, handles the application
  still owns are right.
* The prepared picture is overwritten. The queue's thread blits the next surface
  into the DRI buffer before it sleeps, and `pqt_update_dri_buffer` later skips
  the blit, "using prepared surface" (`presentation_queue_target.c:494`). A
  redraw by `pqt_display_thr` in between blits the visible surface over it; the
  next surface is then reported visible while the old picture stays on screen
  (`redraw` breaks `ShownPictureIsOwn`).
* With `KeepsLinkedVideo = FALSE` the cache hands out a destroyed surface that an
  output surface still shows, and the next decode changes that picture; with
  `AllocMayFail = TRUE` `shared_surface_swap_video` writes into a shown surface
  when it gets no replacement, and `shared_surface_transfer_video` loses the
  picture.
* A call that drew nothing may return `VDP_STATUS_OK`: a refused blend, rotation or
  blit is only logged (`surface_output.c:735-742`), and so are the jobs of a transfer
  and of a mix.
* When the source of a drawing by pixman cannot be fetched, the destination is
  unlocked but stays mapped (`surface_output.c:753-759`). `SourceInv` shows that no
  interleaving of calls gets there by itself: the source was seen with pixels or a
  video, and loses both only when memory runs out (`linked_memory`).
* `shared_surface_transfer_video` returns 0 when it got no memory for a surface that
  shows a video (`surface_shared.c:283-290`). The video is lost, and the callers that
  do not allocate again follow a NULL `pixbuf` (`surface.c:130-137`, `blend_surface`).
  A mix breaks the link before it allocates (`surface_mixer.c:587`), so that one that
  returns `VDP_STATUS_RESOURCES` has lost the old picture, too.
* `copy_bitstream_to_dmabuf` (`decoder.c:182`) fails for a wrong start code
  without giving back the buffer it allocated and its dma-buf.
* After the window was covered, uncovered and covered again, pictures go to a
  buffer of the drawable that was destroyed (`presentation_queue_target.c:68`;
  `stale` in `QueueTarget`). The last `unref_queue_target` frees no `dri_pixbuf`.
* `host1x-gr3d.c:149-152` announces 31 words and pushes 30, `:49-59` prepares 17
  and pushes 22: room left by the buffer's alignment, not by the call.
* `put_bits` of a surface returns `-errno` as a status
  (`surface_bitmap.c:157`). A rotation by pixman replaces, whatever the blend
  state (`PIXMAN_OP_SRC`). The mixer draws its layers last to first.

## 6. Proofs

Each theorem holds for every value of the constants that satisfies the named
assumption of its module (threads and surfaces finite, kinds disjoint, special
values distinct, bounds at least what the code needs). Where a theorem needs a
rule of the application, the rule is its hypothesis on `Admits`, and section 3
says what is broken without it. In each module `IInv` (`PInv` in
`FramePipelineProofs`) is the inductive invariant,
checked with TLC before it was proved: one lemma per action shows that the action
preserves it.

| module | theorem | hypothesis | what holds in every behaviour |
|---|---|---|---|
| `SurfacesProofs` | `TypeCorrect`, `CountersAreExact`, `LinksAreConsistent`, `WhatIsReachedIsAlive`, `NothingLeaks` | none | the properties of the run `surfaces` |
| `FramePipelineProofs` | `PipelineImplementsStore` | `Granted`: `AllocMayFail = FALSE`, `KeepsLinkedVideo = TRUE` | `ImplementsFrameStore`: `FrameStore` is implemented |
| `PresentationQueueProofs` | `QueueTypeCorrect` | none | `TypeOK` |
| | `SurfaceReferencesAreKept` | `Sane`: no `new_queue` with `redisplay` or `late_display` | `ReferencesAreKept` |
| | `StatusIsTrue` | `Sane`, no `late_display` | `ReportsAgree` |
| | `WaitersAreWoken` | `Sane`, no `two_waiters`, not both `redisplay` and `late_display` | `NoLostWaiter` |
| | `NothingIsEarly` | `Sane`, not both `redisplay` and `late_display` | `NeverEarly`, an action property |
| | `PictureShownIsOwn` | no `redraw`, `reorder`, `early_destroy`, `new_queue` | `ShownPictureIsOwn` |
| `QueueTargetProofs` | `TargetTypeCorrect` | none | `TypeOK` |
| | `OwnersOutliveUsers` | no `early_event` | `OwnersKeepAlive` |
| | `ShownIsInWindow` | none | `PictureReachesWindow` |
| | `PortIsFit` | no `recolour`, not both `port_forgets` and `second_target` | `PortFitsPicture` |
| `BoCacheProofs` | `CacheTypeCorrect`, `OwnershipHolds`, `OwnersCanUse` | no `unlocked_flush`, no `reopen` | `TypeOK`, `OwnershipAgrees`, `OwnerCanUse` |
| | `NothingOldIsKept` | no `unlocked_flush`, no `reopen` | `NothingGetsOld` |
| `TegraStreamProofs` | `StreamTypeCorrect`, `NothingLeaks` | none | `TypeOK`, `NothingIsLost` |
| | `BuffersAreLargeEnough` | no `full_end` | `NoOverrun` |
| | `SparedWordsAreNotNeeded` | no `drop_class`, no `late_reloc` | `SparedWordsAreKnown` |
| | `StreamsAreDelivered` | no `late_reloc` | `DeliversWhatWasBuilt`: `CommandStream` is implemented |
| `DecoderProofs` | `DecoderTypeCorrect` | none | `TypeOK` |
| | `SurfacesAreReturned` | no `failed_reference`, `AllocMayFail = FALSE` | `SurfacesReturn` |
| | `NothingIsRefused` | no `"request"` or `"late"` failure, no `clock_set`, `Granted = NumBuffers` | `NeverRefused` |
| | `ReferencesReachKernel` | `Admits = {}`, `AllocMayFail = FALSE`, no `"request"` or `"late"` failure | `ReferencesReach` |
| `OutputDrawingProofs` | `NothingStaysHeld` | no `rotate_memory`, no `linked_memory` | `NothingLeftHeld` |
| | `MappedArePainted` | no `opposed`, no `linked_memory` | `MappedHavePixels`, a part of `TypeOK` |

The invariance of the inductive invariant itself is a theorem in each: `Invariance`,
`PipelineInvariance`, `QueueInvariance`, `TargetInvariance`, `CacheInvariance`,
`StreamInvariance`, `DecoderInvariance`, `DrawingInvariance`.

**Surfaces.** `RefsExact` alone is not inductive: that a step drops a reference
somebody holds depends on who owns what. The invariant has eight parts:

* `TypeOK`;
* `LinkInv` - a link is either free or joins one video and one output surface,
  its count is the number of its holders, both ends point back while it stands;
* `LockInv` - the owner of a surface's lock is in a step that holds it;
* `CallInv` - the pointers each step of each call has set, and their kinds;
* `OwnerInv` - a surface that is being created, written or destroyed belongs to
  one call;
* `HandleInv`, `OwnedInv` - a handle the application owns resolves to a live
  surface that names it, distinct handles to distinct surfaces;
* `RefInv` - counts equal holders.

The actions rest on lemmas about cardinalities (adding or removing one holder
changes a count by one), about `Settle` and about `BreakLink`.
`CountsAreExact`, `LinkCountsAreExact`, `PointersAreLive` and `HandlesResolve` are
parts of the theorems in the table.

**Frame pipeline.** `PInv` is `IInv` of `Surfaces`, which says what each handle
leads to, and `PixelInv`: a video surface the cache may give away is linked to
nothing, nor is one that is being written; a call that composes, draws on or creates
an output surface finds no link on it but the one it resolves. The refinement is not
provable from `IInv` alone: what an output handle shows is the pixels of the video
surface at the other end of its link, so that a write has to be known to meet no link
before it can be one step of `FrameStore`. `NothingShown` and `OneSeen` reduce each
action to the surfaces whose content changes: none, or the one of the handle the call
was given; `StoreStep` then maps each action to a step of the store or to a stutter.
The swap of a shared surface moves the handle to garbage, which the store calls
`Torn`, and leaves the old picture to the output. Both rules of `Granted` are needed:
section 5 says what is shown without them.

**Presentation queue.** The invariant is in two layers. `BaseInv` - `TypeOK`,
`StepInv` (which surface a thread at a step has), `LockInv` (a lock is held by the
thread that is where it is needed), `QueueRefsInv` (the queue's references are its
handle and the calls in it) - needs no rule of the application. `SInv` is who
holds each surface, and does: `ListInv` (a surface is listed once, not while the
queue's thread has it), `StatusInv` (QUEUED is the list and that thread),
`UsersInv`, `VisibleInv` (VISIBLE is what is on screen or being put there),
`RefInv`, `EndInv` and `ExitInv` (what is left when the queue ends), `WaiterInv`,
`TimeInv`. `RefInv` is not inductive without the others: that putting a reference
finds one depends on the list holding a surface once, on the status saying who
has it, and on nothing being queued after the thread has gone. `IInv` is
`BaseInv /\ (Tame => SInv)`: with `redisplay` and `late_display` together, `SInv`
holds until the queue's thread has ended (`Tame`), and `SurfaceReferencesAreKept`
covers the rest, since what it claims of a surface then needs no count. With
`redisplay` the counts are bounds (`RefInv` says "at least") because the code
leaks one.

`PictureInv` is the second induction, over `IInv`: `OrderInv` (the list is in the
order of its times, what a scan has passed over is not due, and what the thread
prepares is the head of the list), `WantInv` (a display that shows at once finds
nothing queued or prepared, and one that queues comes behind the rest), `PrepInv`
(what was prepared is `First`, the next surface to be shown, and is still in the
DRI buffer), `ScreenInv` and `OnceInv` (nothing is redrawn, one call displays at a
time). `ShownPictureIsOwn` says only that the screen has the surface being shown;
what makes the skipped blit of `pqt_update_dri_buffer` right is that between the
preparation and the display no other surface came first, and so that insertion, scan
and waking keep the order of the times. Each of the four rules of the theorem is one
way the code loses that (section 5).

**Queue target.** `DeviceInv` and `TargetInv` say who refers to device and target
- handles, the target, the queue, and a call that joins - and which of them keeps
what alive; `ThreadInv` that the threads run between the target's creation and
the joins, in the order in which `unref_queue_target` ends them, with
`disp_lock` in being; `DisplayInv` who is displaying under `pqt->lock`. Ownership
alone is not inductive: that the last reference goes only when the threads have
been joined follows from where the call that drops it stands.

`ImageInv` is what the window and the port have. A display is two steps under
`pqt->lock`, between which threads and application go on, so it has two forms:
`Whole`, between displays - the window shows `disp`, the overlay is only on when
the path is Xv - and `Half`, when the picture of `shown` is out and `disp` and the
background are still the old ones. `Coloured` (the port has the colours that the
device noted, unless it forgot them with its target) and `Keyed` (the port's key is
the background drawn last) hold under `Proper`, the hypothesis of `PortIsFit`.
`PortFitsPicture` alone is not inductive: that a conversion may be skipped for the
colours applied last depends on every way the port can lose them having cleared
`applied`, over Xv, DRI, the target and the next target. `DriShows` and `XvShows`
are the two outputs for every outcome of the X server's calls, `Alike` relates
states that show the same, which most steps lead to.

**Buffer objects.** `PlaceInv` says that a buffer is held by callers, or listed in
a bucket, or on its way in one call, or free; `ListInv` that the list of a bucket
has each of its buffers once, none with a reference, and as many as `num_entries`;
`CallInv` what each step of a call has in its hands, `RefInv` that `refcnt` and
`mmap_ref` are what the callers hold, `MmapInv` that the mmap cache is the buffers
whose mapping is cached and that `num_mmap_entries` counts them; `TablesAreExact` is
a part of `OwnershipAgrees`, `SizeInv` relates sizes to buckets and requests, and
`FlushInv` lets one call empty the caches. `OneOwner` alone is not inductive: that a
buffer found in a bucket has no owner depends on when it was put there, and that it
is large enough on the bucket being that of its size, which `drm_tegra_bo_new` found
again from the rounded size. `drm_tegra_bo_free`, which both cleanups and the flush
end in, is one lemma about a set of buffers no one holds; which buffers the cleanups
choose (`FreeUp`, `Expired`, `MmapWalk`) is left open in it, so that the theorems on
ownership do not depend on sizes and ages. `DRMLISTDEL` is `Without`, a recursive function, whose
result is found by the least prefix on which a claim fails. A thread
that walks a null bucket (`huge_map`) ends in `crashed` with nothing in its hands, so
the theorems need no rule about it.

`AgeInv` is the second induction, over `IInv`: every bucket's list and that of the
mmap cache have their buffers in the order of their ages, the oldest first, and
while the time of a cache is the present one nothing large in it is too old. The
order is what `NothingGetsOld` rests on: `drm_tegra_bo_cache_cleanup` stops at the
first buffer it keeps and `drm_tegra_bo_mmap_cache_cleanup` at the first fresh one,
so that what they did not look at is no older. It is kept because a list is only
appended to at age 0 and what is taken out leaves the rest in place (`InOrder`,
`WithoutOrder`). The walk of the mmap cache is a recursive function, of which the
proof needs that a buffer once dropped stays dropped and that it stops at nothing
old before the end; which of the small or few mappings it keeps is left open.

**Command streams.** `JobInv` relates the interface, the status and the job;
`PushInv` says who holds which command buffer and that what the caller prepared
still fits; `WholeInv` that the words in the listed buffers and the current one
are what was built - with relocations and the gaps where a buffer was exchanged
or grew left out; `KnownInv` what the library believes of the class and of
synchronisation; `FenceInv` that each fence has the references its holders stand
for. That a put is never refused, whatever the bounds, follows from the last: a
count is `held` plus the last fence, the stray ones, less one, and so at most
`MaxHeld + 1`. The first half of the module has what the operations on command buffers
(`Then`, `Prep`, growing, `Push`, the end of each interface) give for every buffer:
that room for n words after a prep is room for each of them, and how what the
kernel reads changes. What it reads is a fold over the listed buffers;
`FlattenSeq` of a longer list is reasoned about from its recursive definition, by
the least list on which a claim fails. The refinement maps `phase` to `status`:
`StepImplements` shows, call by call, that a step of `TegraStream` is one of
`CommandStream` or leaves `status`, `built` and `sent` alone. `TegraStreamAssumption`
says that `None` is no version, target, class or fence, as the null pointer, the
zero class and no interface are not.

**Decoder.** Four tables describe a decoded picture - the surface's slot and time,
the library's two tables of slots, the kernel's, the application's list - and no
code compares them; the invariant says that they agree. `TypeInv`, `HandleInv` (a
surface has one handle) and `JobInv` (a call names the whole list and never its own
picture) need no rule. `PictureInv` (`Recorded`: a picture of the list is cached,
its slot names it back with its time, and a call under way decodes to another slot)
needs `Follows`: an application that refers to decoded pictures, no failed
allocation. `ClockInv` (no two slots of one time, the picture being decoded is later
than all) needs `Monotonic`. `KernelInv` (the kernel has one slot, and only while a
call waits) needs `Calm`: requests are taken and complete in time. `SlotInv` (the
kernel's times and memories are those of the library) needs `Calm` and one decoder.
`IInv` states each part under its own rules, so that one induction gives the four
theorems with the fewest hypotheses each. `ReferencesReach` alone is not inductive:
whether a slot may be reused is decided by comparing times, so that two slots of one
time must be excluded first. `SlotIsFound` is why `MAX_V4L2_BUFFERS`, 24, is enough:
a slot refused is used and of the time of a reference, no two slots are of one time,
and there are more slots than references - a map of slots to references that is
injective, which the pigeonhole principle excludes. `QueueingIs` follows the five
calls to the kernel with all the ways out of them: a failure leaves the kernel's
slots as they were, and only with fewer buffers than asked for can one be a refusal.

**Output drawing.** A call holds what its step says: `Locks`, `MapsDst` and `MapsSrc`
are functions of a step and the call's arguments. `LockInv` (a surface is locked by a
thread exactly when that thread's call holds it), `MapInv` (`map_cnt` counts the calls
that map) and `CallInv` (which surfaces a call has, two of them) make the induction,
in which one lemma, `StepInv`, takes any step of one thread from one account to the
next; `LockInv` and `MapInv` need `CallInv`, since a call on one surface would count
once where it gives back twice. `PixelInv` - what a call draws on has pixels from
`PrepareTarget` on, what it composites from `MapSource` on - is what a mix could
break, that lets the pixels of its surface go: only with `opposed`. `SourceInv` -
from its check on, the source of a call has pixels, shows a video or stands for a
clear - is what keeps a call out of the return that leaves its destination mapped;
`Keeps` is the fact about a step behind it, that no surface loses its pixels or its
video without getting the other, which is false as soon as memory may run out for a
surface that shows a video. Hence the hypothesis of all three theorems: no
`linked_memory`. No theorem assumes anything of what the engines answer.

Out of the prover's reach, and left to TLC: liveness under fairness and ENABLED
(all temporal properties of `presentation_liveness`, `target` and `drawing`);
induction over data beyond such least counterexamples, so what the bit reader,
the reference sort and the folds of the command builders compute for every input
(`SliceTypeIsRead`, `ReferenceListIsRight`, `DrawnAsAsked`); RECURSIVE operators, of
which there are none.
`TypeOK` of `OutputDrawing` types what the folds over command words paint, and so
stays with TLC but for the parts that `DrawingInvariance` has: what is locked,
mapped, called for and allocated, and its last conjunct in `MappedArePainted`.

## 7. Not modelled

* Of drawing: a job that was submitted and whose fence then fails to be waited for
  (a refused job touches nothing here); guard areas.
* `tegra_stream_push_words` hands its `va_list` to `stream->push_words(...)`, a
  variadic function (`tegra_stream.h:253`), which would read it as the first of the
  arguments. It has no caller; `PushWords` is what it was written for.
* `tegra_decode_h264` refuses a B picture whose order count is not positive
  (`decoder.c:442-446`): the order counts of the model start at 1.
* Data the properties do not tell apart: pixel formats, strides, filter and
  colour matrix coefficients, scaling factors, the 3D engine's state table,
  SPS and PPS fields that are copied, X11, DRM and V4L2 ioctl marshalling.
* The mixer object: attributes, features and the arithmetic of the colour matrix
  (`surface_mixer.c`), which no other part reads back. Layers are further drawing
  calls made under the same lock.
* The decoder, mixer, queue and target handle tables, which follow the pattern of
  the surface table without its cache; `get_proc_address`, error strings and
  capability queries, which keep no state.
* `surface.c`: bitmap surfaces in `Surfaces` (the lifetime of an output surface
  without links) and the window between the last decrement and the slot write of
  `unref_surface`. A surface allocated again after the caches were dropped
  (`surface.c:481`) may put `aux_bo` twice; an allocation is one step here.
* Of the queue: spurious wake-ups of its condition variables; a library whose X
  connection is not thread-safe (every display is immediate); `display` of an
  unknown surface (it leaks a reference of the queue, `presentation_queue.c:352`);
  `first_presentation_time`, vertical sync, borders and queries.
* Of buffer objects: `drm_tegra_bo_wrap` and the dma-buf import, which look up and
  create as `FromName` does; tiling and flags.
* The search for device files and the sizes of the bitstream buffer
  (`decoder.c`); opening and closing of channels; `dmabuf.c`, `dri2.c`.
* `asm/`, `shaders/`, `gen_shader_bin.c` run at build time; `uapi/` and the kernel
  headers under `tegradrm/` are vendored declarations.
