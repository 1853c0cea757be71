# Hearth in TLA+

A verification project for Hearth, a small KVM virtual machine monitor in Rust
with a bare-metal Doom guest in C. The modules here model the parts of it where
threads, the guest and the kernel meet: who may lose a signal, an interrupt, a
buffer, a frame, a byte or a pixel, and what a guest may rely on when it starts
and a user when it ends. TLC checks them on small instances; TLAPS
proves every safety property that holds for every value of the constants: any
number of vcpus, every ring size and index width, every disk, every kernel,
command line and memory size.

Paths below are relative to the repository; `src/src/main.rs` is the monitor's
`main.rs`. `PROJECT.json` maps every definition to the lines it models.

## 1. The system

Hearth creates a VM, maps guest memory, loads a kernel and runs one vcpu thread
(the code is written for several; `main` creates one). Everything else hangs
off that thread and a few others:

| Component | State | Operations | Talks to |
|---|---|---|---|
| `VmControl`, `VM::run`, `VCPU::run` (`main.rs`) | `should_stop`, `devices_pending`, `vcpu_threads`; per thread `KVM_RUN_PTR`; per vcpu `immediate_exit` | `stop`, `kick`, register and unregister, the run loop, the signal handler, spawn and join | every device and frontend |
| Coalesced-PIO ring (`main.rs`) | `first`, `last`, entries shared with KVM | `drain` | VGA, KVM |
| Memory slots, dirty log (`main.rs`, `util/mmap.rs`) | `guest_memory`, `next_slot`, KVM's slots | `add_mem_region`, `gpa_to_host`, `log_dirty_pages` | VGA, KVM |
| Split virtqueue (`virtio/queue.rs`) | `last_avail_idx`, rings in guest memory | `pop_avail`, `push_used` | guest driver |
| virtio-mmio (`virtio/mmio.rs`) | registers, queues, `irq_status` | register accesses, notify, `poll` | virtqueues, devices, interrupt line |
| virtio-net (`virtio/net.rs`) | `rx_pending` | RX thread, `process`, `can_process` | tap, virtio-mmio, `VmControl::kick` |
| virtio-blk (`virtio/blk.rs`) | the image file, `capacity` | `process`: read, write, flush | virtio-mmio |
| i8042 (`arch/x86_64/i8042.rs`) | configuration, `output`, `queue`, parameters awaited, `irq_level` | two ports, key events | frontends, `VmControl::stop` |
| 16550 UART and tty (`arch/x86_64/io.rs`, `frontend/serial.rs`) | IER, MCR, `rx`, `thr_ipending`, `irq_level`; `is_escape` | ports, `send_char`, the tty thread | terminal, `VmControl::stop` |
| PL011 (`arch/aarch64/mmio.rs`) | `rx` (one byte), `ris`, `imsc` | registers, `send_char` | terminal |
| VGA mode 13h (`arch/x86_64/vga.rs`) | palette, attribute controller, `page_written`, frames | ports, `render` | coalesced ring, dirty log, RFB |
| RFB server (`frontend/rfb.rs`) | per client: channel, format, `seen`, `next_render` | `handshake`, `read_messages`, `send_updates`, `serve` | VGA, i8042, socket |
| Doom guest (`guests/doom`) | keyboard byte queue, IDT and I/O APIC, clock, heap | `keyboard_init`, handlers, `DG_GetKey`, `sleep_ms`, `setup_memory` | i8042, LAPIC |
| Machine setup, loaders, `main` (`arch/*/init.rs`, `vcpu.rs`, `util/elf.rs`) | the boot data in guest memory, the vcpu's registers, the terminal's saved mode | `arch_init`, `arch_load_linux`, device set-up, restoring the terminal | everything |

What is hard here:

* a **kick signal** has to reach a vcpu wherever it is between reading a flag
  and being in the guest, and never after its thread or its mapping is gone;
* **edge-triggered interrupts**: a device whose line stays high, or rises while
  nobody looks, goes silent for good;
* **memory shared without locks**: virtqueue rings with wrapping indices, the
  coalesced ring, the framebuffer that is copied while the guest draws;
* **one dirty log, several clients**: fetching it clears it for all of them;
* **two threads on one socket**, with a client that may stop reading;
* **protocol order**: a driver that probes twice, keys pressed in the middle of
  `keyboard_init`, a keyboard reset in the middle of an extended scan code;
* **arithmetic at the edges**: a boot layout built by rounding up or at fixed
  offsets, sectors whose byte address does not fit 64 bits, lengths that do not
  fit 32, memory that ends inside the framebuffer or before the first MiB;
* **lifetimes**: frontends go on rendering after the VM is dropped, and the
  terminal's thread may be anywhere when `main` restores the terminal;
* **failure**: a device error, a device panic, a thread that cannot be spawned,
  a dirty log that cannot be fetched, a disk or tap that fails, an ioctl refused
  half-way through splitting a memory slot.

`PROJECT.json` lists these one by one under `hazards`, each at its line.

## 2. The modules

```
VmControl ----------------.            ChainQueue (abstract)
   |                       \               ^ implemented by
   |  MCVmControl           \          Virtqueue --- VirtioBlk --- MCVirtioBlk
   |                         \             | extends
   |        IrqLine           \          Vring
   |       /   |    \          \           |
 I8042   Console  VirtioMmio ---+----------'
   |      /    \        |      /
   |  Uart16550 Pl011   |     /        GuestMemory  CoalescedRing
   |      \    /        |    /                  \    /
DoomKeyboard Consoles VirtioNet                 Machine --- MCMachine

RfbHandshake --- RfbSession            VgaDisplay
```

`DoomKeyboard` and `Consoles` extend the devices they drive; `VirtioNet` has
instances of the two specifications it composes. The theorems are in modules of
their own, which no run uses: `VmControlProofs`, `VringProofs` (lemmas only),
`VirtioBlkProofs` and `VirtioMmioProofs` (both on `VringProofs`),
`VirtioNetProofs` (on an instance of `VirtioMmioProofs`), `DoomKeyboardProofs`
(`I8042` and `DoomKeyboard`), `FrontendProofs` (`VgaDisplay`, `RfbSession` and
`Consoles`) and `MachineProofs`.

**VmControl** — one step per atomic access or mutex section of a vcpu thread,
the device threads (`Kickers`), the frontends (`Stoppers`) and the main thread.
A vcpu's `pc` follows the closure in `VM::run`, `VCPU::run` and `run_loop`:
`set_ptr`, `register`, then the loop (`check_stop`, `check_pending`, `poll`,
`kvm_run`, `guest`, `eintr`, `handle`), then `unregister`, `clear_ptr`, `stop`,
`drop`. `stop` and `kick` are two steps each, the store and the signalling,
because another thread can run in between. A signal is delivered at any point of
a living thread; in the guest it makes KVM_RUN return EINTR, elsewhere the
handler sets `immediate_exit`. Devices may return an error or panic in `poll`
and `handle`; a panic unwinds past everything after `run_loop`. The kernel's
part (signal delivery, KVM_RUN) is external.

**Vring**, **Virtqueue**, **ChainQueue** — `Vring` has the rings and both sides'
indices as pure operators. `Virtqueue` steps the device through its memory
accesses in the order of the code (index, slot, element, index) against a
driver that runs concurrently, and implements `ChainQueue`, which says what a
virtqueue promises: chains are taken in the order they were offered, and each
comes back once. A chain is its head descriptor; how the descriptors behind it
are walked is not modelled. Memory order is the program order that the fences in `queue.rs`
establish.

**VirtioBlk** — what `process` does between taking a chain and returning it. A
request is a type, a sector, a length and, for a write, the value of its bytes;
sectors have a few bytes and `u64` a few bits, so that addresses really wrap.
`disk_offset` keeps its checked arithmetic, a file operation may fail after any
number of bytes, and a malformed request ends the VM. The used length is the
`u32` of the code: `total as u32` truncates, and `written + 1` wraps or, in a
build with overflow checks, panics. The driver remembers, for
each byte, what the requests it collected allow it to hold.

**VirtioMmio** — the transport with two queues and a driver that resets,
programs the queue addresses half by half, goes live, offers chains, notifies
and serves interrupts (read INTERRUPT_STATUS, acknowledge, collect). The vcpu
is inside its own exit while the device works, so guest steps wait for `work`
to be empty, as they do in the code.

**VirtioNet** — the tap's RX thread, `rx_pending`, and both queues' processing,
composed with `VmControl` (one vcpu) and `VirtioMmio`: every action names the
steps of the two it takes. Those of `VmControl` it takes by construction. That
it implements `VirtioMmio` is a property (`ImplementsVirtioMmio`), since there
the driver may only run while no queue is being worked on, which here is what
the vcpu's being out of the guest has to give. A frame is a number; what
`process` does with its bytes is left out.

**IrqLine** — the in-kernel interrupt controller's edge-triggered line
(external): a rising edge latches, the guest takes the latch once.

**I8042** — any sequence of port accesses, key events and interrupts. Bytes keep
their kind (plain key, prefix, extended code, acknowledge, configuration,
reply), not their value. **DoomKeyboard** composes it with the guest's driver:
`keyboard_init` step by step, the handler that drains the controller into the
byte queue, `DG_GetKey`, and `sleep_ms` instruction by instruction with the local
APIC's timer, since it is where the game spends its time. The load of a byte and
the advance of `queue_tail` are separate steps, since the compiler is free to store the index first.

**Console**, **Uart16550**, **Pl011**, **Consoles** — `Console` has what the two
UARTs share: the received bytes, the line, the guest's handler and the tty
thread's state. `Uart16550` has the interrupt causes and their gate (IER,
MCR.OUT2, THRE pending, received bytes); `Pl011` its one-byte receive register,
RIS and IMSC. `Consoles` composes either with the tty thread and its Ctrl-A
escapes; the thread may also see the end of the input, or a read error that
kills it. The PL011's line is taken to be edge-triggered, the harder case; the
device tree decides.

**CoalescedRing** — KVM appends while a vcpu or a frontend drains under the
device's lock; writes are numbered, so a lost, repeated or reordered one shows.

**GuestMemory**, **Machine** — `GuestMemory` has the regions, KVM's slots,
`add_mem_region` and the pieces of `log_dirty_pages`, in units of 512 bytes,
which is exact for every address in the code. `Machine` is `main` from start to
exit on both architectures: creating the VM, the boot data and where each piece
goes, the devices in their order, splitting the framebuffer's slot ioctl by
ioctl, the RFB server, the run, the drop of the VM and the terminal. Any step
that asks the host for something may be refused. Beside `main` run the tty
thread, as far as the terminal's mode goes, the vcpu on the coalesced ring, and
a frontend that drains it for as long as the process lives. What the vcpu thread
itself does while `main` is in `VM::run` is `VmControl`'s. `MCMachine` gives the
machines. The PVH entry point is taken to be the first segment's start.

**VgaDisplay** — framebuffer, dirty log, DAC writes through the ring, the
attribute controller's flip-flop, `page_written` and `render` with its copy
outside the lock, for several clients. Pixels and palette entries are small
numbers; pages deliberately do not line up with rows.

**RfbHandshake**, **RfbSession** — `handshake` and the first half of `serve`, byte
by byte on the wire, with a client that follows the handshake of the version it
answers with; then a client's reader and update threads, the channel between them,
a bounded socket and `shutdown`. A format whose shifts overflow may kill the
update thread, as it does in a build with overflow checks. Here a display is what `trait Display`
promises; `VgaDisplay` is about how the VGA keeps the promise.

Actions whose names begin with a driver's, a guest's or KVM's part are marked
external in `PROJECT.json`. A definition commented "Mutant:" is a plausible bug
that the specification never uses: put in place of the definition below it, it
breaks the property that `PROJECT.json` pairs it with, which shows that the
property depends on that code.

## 3. The runs

| Run | Module, cfg | Bounds | Distinct states | Shows |
|---|---|---|---|---|
| `vm` | MCVmControl, VmControl | 2 vcpus, 1 kicker, 1 stopper, panics | 199,560 | no stop or kick is lost, no stale id or dangling pointer from a thread that ended in order, errors are reported, a stop ends the VM, a kick is served |
| `vm_stale_id` | MCVmControl, VmControlStaleId | 1 vcpu | (violated) | after a panic a joined thread's id is still registered |
| `blk` | MCVirtioBlk, VirtioBlk | 2 entries, indices modulo 4, 4-bit `u64`, 2-bit `u32`, 10 requests, 1 failing file operation | 796,000 | chains conserved, refinement of ChainQueue, answers and lengths true, every request comes back |
| `mmio` | VirtioMmio | 2 queues of 1 entry, indices modulo 4, 2 probes | 4.0 million | queues programmed as meant, no used chain without an interrupt |
| `mmio_reset` | VirtioMmio, VirtioMmioReset | 2 queues of 2 entries, 2 probes | (violated) | a reset leaves `last_avail_idx` behind |
| `net` | VirtioNet | 1 RX buffer, indices modulo 2, 3 frames, 2 pending at most | 175,000 | frames conserved, never stuck, delivered; implements VirtioMmio |
| `i8042` | I8042 | 4 bytes waiting | 931,000 | no stranded byte, no lost interrupt, prefixes paired |
| `doom_keyboard` | DoomKeyboard | 5 keys, queue of 4, indices modulo 8 | 342,000 | the driver never goes deaf, codes decode as sent, sleeps end |
| `machine` | MCMachine, Machine | 120 machines, ring of 4 entries, 7 writes | 75,000 | memory whole, what of the boot data may be overwritten, when the memory map is true, terminal restored, ring writes applied once, in order, and seen, also after the VM |
| `vga` | VgaDisplay | 2 clients, 2 by 2 pixels, pages of 3, 3 events, 3 frames | 1.0 million | no client keeps a stale pixel |
| `consoles` | Consoles | either UART, 4 bytes typed | 77,000 | no lost interrupt, typed bytes arrive and are read |
| `rfb` | RfbSession | 2 rows, 2 formats, 4 messages, 2 frames, window 1, 6 client versions | 312,000 | handshakes go through, no stale row, requests answered, keys get through, sessions end |

Why the bounds are enough for what the runs are about: two vcpus are the least
with a first and another registered thread, which is what tells `stop` from
`kick`. Ring indices wrap several times around the ring and at least once around
the index space in every virtqueue run, since the drivers recycle buffers for
ever; with one-entry rings every slot is reused at once, the tightest case for
overwriting. A queue of 4 with 5 keys of up to 2 bytes overflows; 7 writes wrap
a ring of 4 (which holds 3); pages of 3 pixels and rows of 2 make a page
cover parts of two rows and the last page end past the framebuffer. The disk
has two sectors in a file of one byte more, and requests that end at its end, one
byte past it, and past the end of `u64`; with a `u32` of 2 bits a read of three
bytes overflows the used length and one of four is truncated to nothing. The
driver of `net` puts chains in the RX queue only (`UsedQueues`), since with the
TX queue busy too TLC does not finish in minutes; the theorems are for any of
the two. `MCMachine`'s memory sizes are a page
around 1 MiB, where the memory map's third entry vanishes, inside and around
the framebuffer, at 3 GiB, just above it, off a page boundary, and 4 GiB;
kernels with .bss and with segments out of order, and kernels below the first
MiB: under the start info, over it, and across the framebuffer, with a quarter of
a MiB of memory and more; empty, page-sized and large
modules; command lines that fill their page exactly; device trees and
initramfs of aarch64 that just fit their gaps and outgrow them; an empty image. `Window = 1`
makes the update thread block as early as it can.

### Fairness

* `vm`: each thread that can run does, and a pending signal is delivered. The
  host scheduler and the kernel give that. Nothing is assumed of the guest, the
  devices' kicks or the user: `StopTerminates` and `KickServed` hold for a guest
  that never exits by itself.
* `blk`: the notified device drains, the driver publishes what it staged and
  collects what came back. Nothing of the disk.
* `net`: as `vm`, and a driver that has published an RX buffer gets to notify,
  however often its vcpu exits in between (strong fairness, since each exit
  disables it for a while).
* `consoles`: a latched interrupt is taken, and the handler reads the byte that
  IIR or MIS announces (strong, since other accesses may come in between).
* `doom_keyboard`: the guest's CPU takes its interrupts, a sleep goes on when it
  may, and the timer counts down.
* `rfb`: the two threads run and time passes. A client goes through with its
  handshake unless it closes; nothing is assumed of it after that.

The other runs check safety only. Deadlock is checked in every run but `blk`,
where a malformed request ends the VM with the driver's requests in flight; where
the system ends otherwise (the process exits, a session is over) the
specification says so with a stuttering step.

Only VmControl's type invariant is listed in a run; those of the other modules
are proved, alone or as a part of the inductive invariants.

### Disagreements with the repository's own words

* `vm_stale_id`. `main.rs:87` says that `pthread_kill` never sees a stale thread
  id. A device panic unwinds out of `VCPU::run` without unregistering, the thread
  is joined, and its id stays in `vcpu_threads` until the process ends. The
  weaker `NoStaleThreadId`, which leaves such threads out, is checked and proved.
* `mmio_reset`. `pop_avail` "takes the next chain the driver made available".
  Writing 0 to STATUS resets no queue, so after a second probe with fresh rings
  the device starts at the old index and takes heads the driver still owns.
* The used length "counts every byte written to the guest, status included"
  (`blk.rs:112`). A read whose file fails midway has filled the buffers before,
  and is returned with a used length of 1. No run of its own: `UsedLenTrue` says
  so of every failed request, and that no byte is promised that was not written
  and all are counted after a success whose length fits a `u32`.

Limits of the code that are no contradiction of its words, and where the
properties draw the line:

* with several vcpus a panic in one stops nobody else (`main` creates one), and
  `KickServed` and `NoLostKick` promise nothing once a thread panicked, since
  `kick` then signals the id that was left behind;
* with Doom's byte queue full, an interrupt between the two halves of
  `keyboard_read` may overwrite the byte being read, which `DecodesPrefix`
  counts, like a dropped byte, as an overflow;
* a read of 4 GiB less a byte overflows the used length: a build with overflow
  checks panics with the request in its hand (`RequestsComeBack` leaves the
  VM's end out), another returns a length of 0; longer ones are truncated;
* a keyboard reset that finds an extended key's prefix in the output buffer drops
  the code behind it; the reset's acknowledge takes its place (`PrefixPaired`
  says so), and a driver that takes any byte after 0xE0 for the code would be
  misled;
* the terminal stays raw when `main` fails after the UART's thread was started,
  when that thread only reaches raw mode after `main` restored the terminal, or
  when stdin is no terminal (`TerminalRestored` is about a guest that ran, and
  leaves the last two out);
* on aarch64 an initramfs or device tree of more than 2 MiB (a device tree of
  more than 4 MiB, without an initramfs) is partly overwritten by the file loaded
  after it, and the guest starts all the same; `BootWhole` says that exactly
  these are;
* on x86_64 the start info is written last, at 64 KiB and up: a kernel linked
  below its end, or an initramfs behind such a kernel, may be overwritten there
  (`BootWhole` says that nothing else is). A kernel linked at 1 MiB or above, as
  Linux and the Doom guest are, is safe;
* `ram_size.min(MMIO_START) - HIMEM_START` underflows with less than a MiB of
  memory, which only a kernel linked below that gets as far as: a build with
  overflow checks panics, another tells the guest of RAM to the end of the
  address space (`BootWhole`: the map is true exactly if there is a MiB);
* when a module ends where low memory does, there is no room for a heap
  (`HeapFree` promises one exactly while low memory goes further);
* the PVH command line is written without its NUL; it ends where the page does or
  with the first byte of the memory map, a 0 (checked in `PiecesInRam`);
* .bss past the end of RAM, and a `--binary` memory that reaches into the
  devices' pages, are not refused (`BootWhole` asks for free pages of Linux
  machines only);
* the i8042 and the UART keep the raw `vm.fd` after the VM is dropped, and a key
  or byte that comes then fails; the display has its own descriptor, region and
  mapping, in the model as in the code (`DupLog`, `RunEnds`), and the ring it
  goes on draining is checked by `WritesConserved`;
* a read error on stdin panics the tty thread and the VM goes on without a
  terminal;
* the PL011 loses bytes typed faster than the guest reads; `TypedArrives` says
  which ones it may not lose;
* RFB clients of versions 3.4 to 3.6 are answered as 3.8, where RFC 6143 (7.1.1)
  has them treated as 3.3: both sides wait until the client closes
  (`SessionStarts` is about the versions the RFC gives a handshake for);
* a pixel format with a shift of 32 or more passes `supported()` and, in a build
  with overflow checks, ends the update thread (left out of `RequestAnswered`;
  `SessionEnds` still holds).

## 4. The proofs

Every theorem holds for every value of the constants that the named assumption
of its module allows. The assumptions say no more than the types of the
constants and what they are in the code or in a driver that keeps to virtio:
there is a vcpu (`NAssumption`); a virtqueue's size is at least 1, divides the
index space and is smaller than it, as the powers of two up to 256 that a driver
may choose do (`RingAssumption`, `NetAssumption`); the disk's length fits `u64`,
and a `u32` holds a 1 at least (`DiskAssumption`); the coalesced ring has two slots at least, so that it can
hold an entry (`RingSizeAssumption`); the arguments are of the kinds `main`
accepts, no longer than the 128 KiB the kernel lets one argument be, with a
kernel of at least one segment, no two of which overlap, linked anywhere
(`MachinesAssumption`); 2^64 is above the MMIO hole (`U64Assumption`); Doom's queue is not empty, divides the index
space and is smaller than it (`DoomAssumption`); screens, pages, the socket's
window and the ring have room for something (`VgaAssumption`, `RfbAssumption`).
Bounds that only keep TLC's runs finite (`MaxQueue`, `MaxKeys`, `MaxTyped`,
`MaxEvents`, `MaxFrames`, `MaxFrame`, `MaxMsgs`) may be any number, with Doom's
`MaxQueue` large enough for all the keys. TLC evaluates each of the assumptions
on the runs.

| Module | Theorem | Property | For every |
|---|---|---|---|
| VmControlProofs | `TypeCorrect` | `TypeOK` | number of vcpus, set of kickers and stoppers; panics included |
| | `StopNeverLost` | `NoLostStop` | |
| | `NoStaleKill` | `NoStaleThreadId` | |
| | `HandlerWritesMapped` | `NoDanglingRunPtr` | |
| | `KickNeverLost` | `NoLostKick` | |
| | `ErrorsReportedCorrect` | `ErrorsReported` | |
| VirtioBlkProofs | `ImplementsChainQueueCorrect` | `ImplementsChainQueue` | ring size, index width |
| | `ChainsConservedCorrect` | `ChainsConserved` | |
| | `AnswersTrueCorrect` | `AnswersTrue` | also disk, sector size, width of `u64`, set of requests, number of faults |
| | `UsedLenTrueCorrect` | `UsedLenTrue` | also width of `u32` |
| VirtioMmioProofs | `TypeCorrect` | (type invariant) | ring size, index width, number of setups |
| | `NoLostInterruptCorrect` | `NoLostInterrupt` | |
| | `QueuesProgrammedCorrect` | `QueuesProgrammed` | |
| | `TakesOnlyAvailableOnce` | (`TakesOnlyAvailable`) | ring size and index width, one setup |
| VirtioNetProofs | `ImplementsVirtioMmioCorrect` | `ImplementsVirtioMmio` | ring size, index width, queues in use, number of setups, pending limit, number of frames |
| | `FramesConservedOnce` | `FramesConserved` | the same, one setup |
| | `NoStuckFrameOnce` | `NoStuckFrame` | the same, one setup |
| DoomKeyboardProofs | `ControllerTypeCorrect` | (type invariant of I8042) | queue bound, any guest |
| | `ControllerNoLostInterrupt` | `NoLostInterrupt` | |
| | `ControllerPrefixPaired` | `PrefixPaired` | |
| | `NeverDeafCorrect` | `NeverDeaf` | size of the driver's queue, index width, number of keys |
| | `DecodesPrefixCorrect` | `DecodesPrefix` | |
| | `SleepLastsForTimer` | (the second half of `SleepEnds`) | |
| FrontendProofs | `NoStalePixelCorrect` | `NoStalePixel` | set of clients, width, height, page size, length of the ring, number of events (pixels and palette entries are one of two) |
| | `NoStaleRowCorrect` | `NoStaleRow` | height, set of formats, window, number of frames and messages |
| | `ConsoleNoLostInterrupt` | `NoLostInterrupt` | number of bytes typed, both UARTs |
| | `TypedArrivesCorrect` | `TypedArrives` | |
| MachineProofs | `WritesConservedCorrect` | `WritesConserved` | command line, ring size, number of writes |
| | `AccessSeesWritesCorrect` | `AccessSeesWrites` | |
| | `TerminalRestoredCorrect` | `TerminalRestored` | |
| | `MemoryWholeCorrect` | `MemoryWhole` | command line and memory size |
| | `BootWholeCorrect` | `BootWhole` | kernel, wherever linked, command line, initramfs, device tree and memory size, both architectures, both kinds of build |

**One setup.** Three theorems assume `MaxProbes <= 1`, a driver that sets the
device up once. They are false without it: a second setup finds the old
`last_avail_idx` (finding `mmio_reset`), and the device then takes buffers the
driver did not offer. The run `net` has one setup too; `mmio` has two, and its
properties are proved for any number.

Each inductive invariant below was first checked by TLC as an invariant of its
run, with the number of distinct states given.

**VmControl** (199,560).

1. `AppendFacts` and `WithoutFacts`: what registering and unregistering do to a
   sequence without repetitions.
2. `BaseInv == TypeOK /\ RegInv /\ ThreadInv` is inductive. `RegInv` says that
   `vcpu_threads` holds each thread in its loop once and none that has yet to
   register; `ThreadInv` that `KVM_RUN_PTR` is set for as long as a thread is
   registered, that a thread past its loop has a result (without which the type
   of `res` is not preserved by a join), and that `VM::run` spawns each once.
3. `NoLostStop` is inductive relative to `BaseInv`: a signal sent to all
   registered threads reaches every thread in the loop (`RegInv`), and the
   handler turns it into `immediate_exit` there (`ThreadInv`: the pointer is
   set). A thread not yet registered has the check ahead of it.
4. `OrderlyInv` says of the threads that did not panic that only those in the
   loop are registered, and only those that can take a kick have the pointer
   set; of those that did, that they are on their way out; and that only ended
   threads are joined. It gives `NoStaleKill` and `HandlerWritesMapped`.
5. `KickNeverLost` needs both: `kick` signals the head of `vcpu_threads`, which
   by `OrderlyInv` is a thread in its loop unless something panicked, and a panic
   is never taken back (`PanickedStays`).
6. `ReportInv` says what `res` stands for at each point of `VM::run`: while it
   joins, an error of a thread joined so far or a failed spawn.

**Vring.** `VringProofs` has the arithmetic of free-running indices (two indices
at most `Num` apart address different slots, also around the wrap), what
`Between` holds after either end moves, and `FlightInv`: the chains returned,
taken, offered and staged, in this order, are those that are not free, none
twice. Each operation on a queue keeps it (the `Flight` lemmas).

**VirtioBlk** (796,336). `VqInv` is `FlightInv` of the queue and the device's
hand; besides, a device that was told of a chain finds it, and the used element
it wrote stays until the index covers it. With it every step of the queue is a
step of `ChainQueue` or a stutter. `DiskInv` adds the answers, stated of *all*
chains in flight and not of the next one only: what the device has answered so
far is true of the requests before it (`AnswersInv`); each byte of the file is
one that the collected requests and those still on their way back, taken in
order, allow (`FileInv`); and what a read holds was allowed when it was read
(`ReadsInv`). Since a queue returns chains in order, the driver replays them in
the order in which the disk saw them.

**VirtioMmio** (4,018,044). `LineInv`: the VRING bit and the line go together,
and when the handler is off, a used chain has put them up. `SetupInv`: how far a
setup has got, and that what is written so far of the addresses is right.
`OnceInv` (1,628,848 with two-entry rings, one setup) is `FlightInv` of each
allocated queue and unused rings before.

**VirtioNet** (1,746,668 with two-entry rings). `ControlInv`, that a queue is
worked on only while the vcpu is out of the guest, makes every step one of the
transport and one of the vcpu. `NetInv` adds the transport's own invariants,
whose lemmas are reused through an instance, and that a device with an RX chain
in its hand has a frame for it.

**I8042** (931,408). `TypeOK`, `NoLostInterrupt` and `PrefixPaired` are inductive
together. `PrefixPaired` is about the output buffer and the queue as one sequence
(`WaitingPaired`): a push appends whole pairs, a read takes the first byte, the
byte that then moves to the output buffer stays where it was, and a reset leaves
at most one byte in front of its acknowledge.

**DoomKeyboard** (341,899). Every step of the driver is one of the controller's
or leaves it alone (`DeviceStep`), so the controller's invariant holds under it.

1. `DeafInv`: from the configuration on, the keyboard and its interrupt are on;
   once the game runs, a byte has its edge latched or the handler at work. The
   drain after `ioapic_route` is what establishes it.
2. `StreamInv` follows the bytes: `Coming` is what the driver's queue holds
   (`Held`), then the controller's output buffer, then its queue. While no byte
   was lost, `Coming` is decodable with the flag that the decoder will have
   (`FlowOK`), where `Decodable(f, s)` says that exactly the codes behind their
   prefix are extended ones. A key or a reply behind it keeps that
   (`DecodableConcat`), taking the first byte makes the flag what the byte says
   (`DecodableTail`), and a byte that moves from the controller to the queue
   changes nothing (`ComingMoves`) unless it falls on the slot being read. The
   flush may begin in the middle of a code; when it ends nothing is coming.
3. `TimerInv`: a timer that counts or is pending is that of the sleep in
   progress, and has not fired for it.

**Consoles** (76,764). `ConsoleInv` is `NoLostInterrupt` with the types of the
registers, and that the UART of the other architecture stays untouched.
`TypedInv` adds that the tty thread's `is_escape` is where an automaton that
reads the bytes typed would be (`Escapes`), so that what the thread does with a
byte is what `Meant` adds for it (`MeantAppends`); on the PL011, received bytes
are what was meant less some, in order (`WithinAppend`).

**VgaDisplay** (1,005,206). `VgaInv` is the types, `PixelsInv` and `CopyInv`.
`PixelsInv`: each pixel of each client is shown as it is, or *due* (a repaint is,
or its page is in the dirty log or marked written in a frame the client has not
seen), or about to be drawn by the client's own copy with the palette of now.
`CopyInv`: a copy loop that still draws with an older palette is made up for by
a later repaint of every page. Fetching the log for one client keeps a page due
for all of them, since `page_written` is shared (`LockedStep`); the lemmas on
pages and rows (`RowsFacts`, `MinMaxPage`) say that what `render` copies covers
each changed page where pages and rows do not line up.

**RfbSession** (311,731). `RfbInv`: a row will be rendered again, or the last
update on its way with the row (being written or in the socket) shows it as
drawn in the session's format, or there is none and the screen does (`RowsInv`);
and the last pixel format on its way, in the socket or the channel, is the
client's (`FormatInv`).

**Machine** (74,845). `RingInv`: the writes applied, in the drainer's hand and in
the slots from `first` to `last` are numbered without a gap, and a drainer never
goes past what KVM has written. All of `main` takes only steps of `CoalescedRing`
there. `SetupInv` says what memory, slots and the Vga hold at each point of
`main`, with the three parts of the split framebuffer spelt out for each ioctl
that has been made. `RestoredInv` follows the terminal's mode. `LoadInv` says
that from the load to the run exactly the pieces of the machine were loaded, each
within the low memory, and which registers were set; `BootWhole` then is a fact
about the layout. `ImageEnd` and `AlignedUp` place each piece after the last, and
`PvhZones` says where each kind ends up, so that only the start info can fall on
an earlier piece (`PvhKept`); on aarch64 `ArmPlaced` compares the fixed offsets
with the files' lengths. `ThirdRange` is the subtraction that may wrap:
`MapIsTrue` and `MapIsFalse` follow for the two sides of a MiB. A kernel above
the first MiB that was loaded has memory beyond it (`HighLayout`), which puts
every piece in RAM (`PiecesAreInRam`) and the heap behind them (`HeapIsFree`).

**Induction.** The library's induction theorems take an operator, which none of
the backends can instantiate. Where a proof needs induction it goes through sets
instead: `Least` (a non-empty set of naturals has a least element, from
`WFMin` of WellFoundedInduction) gives `Induction` (a set of naturals that holds
0 and every successor is `Nat`), `Greatest` and `LargestOf`; a recursive function
is unfolded after its existence was shown this way (`MeantExists`,
`MeantUnfolds`).

Only model-checked is all liveness: `StopTerminates`, `KickServed`,
`RequestsComeBack`, `FrameDelivered`, `TypedIsRead`, the first half of
`SleepEnds`, `RequestAnswered`, `KeysGetThrough`, `SessionStarts` and
`SessionEnds`. Fairness and ENABLED are out of the prover's reach. So are the two
findings, which are counterexamples (and `TakesOnlyAvailable`, refuted for two
setups, is proved for one).

## 5. What is not modelled

* The walk along a descriptor chain, its buffers' bounds and the limits on them;
  the bytes of a frame, and what of it a buffer too short for it holds
  (`net.rs:126`); feature negotiation and configuration space: data the control flow shown here
  does not depend on.
* Parsing: the command line (clap), ELF files and the PVH note (the object
  crate), what is in the aarch64 image header, which is only printed.
* KVM's own state (CPUID, interrupt chips, timers) beyond success or failure of
  the calls that set it up.
* VGA registers that do not affect the picture; UART registers that are only
  stored and read back; the encoding of RFB pixels beyond its overflow.
* Doom's clock (pvclock and the timer's calibration), its allocator and its blit;
  its C library, boot and interrupt stubs; build scripts.

## 6. Plan

1. Doom's pvclock read against a host that updates it.
2. The rest of the virtio-mmio registers, and the walk along a chain with its
   limits as a pure operator against a reference definition.
