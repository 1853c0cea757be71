------------------------------ MODULE Machine -------------------------------
(***************************************************************************)
(* main() of src/src/main.rs from start to exit, for both architectures:   *)
(* memory and boot data (arch/*/init.rs), devices (arch/*/io.rs, mmio.rs), *)
(* the guest's run and the way out, while the terminal's thread and the    *)
(* RFB frontend run beside it.  The ring of coalesced writes works from    *)
(* the moment the vcpu runs; frontends may drain it after the VM is gone.  *)
(*                                                                         *)
(* VM::run's own threads are VmControl's.  What the host may refuse (an    *)
(* ioctl, a file, an address in use) is a choice.  Text is a length.       *)
(***************************************************************************)
EXTENDS GuestMemory, CoalescedRing

CONSTANTS
    Machines,       \* the command lines and files tried
    U64             \* 2^64, in the units below

\* Addresses of the code, in units of 512 bytes
EBDA_START == 1278
HIMEM_START == 2048
MMIO_START == 6291456
HIGH_RAM_START == 8388608
hvm_base == 128
VGA_FRAMEBUFFER == 1280
VGA_FRAMEBUFFER_SIZE == 125
FRAMEBUFFER_PAGES == 16
LOAD_ADDR == 2097152
INITRAMFS_OFFS == 4096
KERN_OFFS == 4096 + INITRAMFS_OFFS

\* The pages that are devices': virtio-blk and virtio-net; GIC, UART and blk
MmioPages(arch) ==
    IF arch = "x86_64" THEN {6815744, 6815872} ELSE {262144, 262272, 294912, 327680}

NoFile == -1

\* The fixed text, and what is appended: an argument of at most 128 KiB
MaxCmdline == 257

ASSUME U64Assumption == U64 \in Nat /\ U64 > MMIO_START

ASSUME MachinesAssumption ==
    \A m \in Machines :
        /\ m.arch \in {"x86_64", "aarch64"}
        /\ m.boot \in {"linux", "binary", "none"}
        /\ m.memory \in Nat \ {0} /\ m.load_addr \in Nat
        /\ m.cmdline \in 1..MaxCmdline
        /\ m.initramfs \in Nat \cup {NoFile} /\ m.dtb \in Nat \cup {NoFile}
        \* A kernel's segments are linked beside each other.
        /\ m.segments \in Seq([start : Nat, filesz : Nat, memsz : Nat]) \ {<< >>}
        /\ \A k \in DOMAIN m.segments : m.segments[k].memsz >= m.segments[k].filesz
        /\ \A k, l \in DOMAIN m.segments : k # l =>
              ~Overlap(m.segments[k].start, m.segments[k].memsz,
                       m.segments[l].start, m.segments[l].memsz)
        /\ m.vnc \in BOOLEAN /\ m.stdin_tty \in BOOLEAN

VARIABLES
    m,              \* this machine
    pc,             \* where main() is
    pieces,         \* what was loaded into region 1, in order
    regs,           \* where the vcpu starts, what it is told, and its mode
    vm,             \* "none", "alive" (VM::fd is open) or "dropped"
    parts, free_slot,   \* the locals of log_dirty_pages()
    vga,            \* the Vga: its framebuffer, region, dirty log and ring
    rfb,            \* the RFB server listens
    tty,            \* the terminal's thread
    terminal,       \* "cooked" or "raw"
    fault           \* why setup failed: the host, what the user gave, or the code

setupVars == <<m, pc, pieces, regs, vm, parts, free_slot, vga, rfb, tty, terminal, fault>>
splitVars == <<parts, free_slot>>
ttyVars == <<tty, terminal>>
mainVars == <<memVars, setupVars>>
machineVars == <<mainVars, vars>>

NoVga == [on |-> FALSE, framebuffer |-> FALSE, region |-> 0, log_slot |-> NoSlot,
          log_pages |-> 0, log_fd |-> "none", ring |-> FALSE]

\* The vcpu's mode: protected mode or not, paging, operand size, and whether
\* its segments begin at 0.
ResetMode == [pe |-> FALSE, paging |-> FALSE, bits |-> 16, flat |-> FALSE]

MachineInit ==
    /\ Init
    /\ MemInit
    /\ m \in Machines
    /\ pc = "start"
    /\ pieces = << >>
    /\ regs = [ip |-> 0, info |-> 0, cpu |-> ResetMode]
    /\ vm = "none"
    /\ parts = << >> /\ free_slot = NoSlot
    /\ vga = NoVga
    /\ rfb = FALSE
    /\ tty = "none"
    /\ terminal = "cooked"
    /\ fault = "none"

-----------------------------------------------------------------------------
\* main() gives up: what it owns is dropped and the process ends.
Fail(why) ==
    /\ pc' = "failed"
    /\ fault' = why
    /\ vm' = IF vm = "alive" THEN "dropped" ELSE vm
    /\ UNCHANGED <<memVars, m, pieces, regs, splitVars, vga, rfb, ttyVars>>

\* The host refuses something, at any step of the setup that asks it.
HostFails ==
    /\ \/ pc \in {"start", "arch", "low", "high", "load"}
       \/ pc \in {"disks", "delete", "parts", "dup", "ring"}
       \/ pc = "rfb" /\ m.vnc
    /\ Fail("host")

\* /dev/kvm, the VM and its vcpu
Create ==
    /\ pc = "start"
    /\ pc' = "arch"
    /\ vm' = "alive"
    /\ UNCHANGED <<memVars, m, pieces, regs, splitVars, vga, rfb, ttyVars, fault>>

\* set_ip(load_addr) ends the vcpu's setup.
FirstRegs(cpu) == [ip |-> m.load_addr, info |-> 0, cpu |-> cpu]

\* The interrupt chip and the timer, CPUID, and a code segment at 0
ArchInitX86 ==
    /\ pc = "arch" /\ m.arch = "x86_64"
    /\ regs' = FirstRegs([regs.cpu EXCEPT !.flat = TRUE])
    /\ pc' = IF m.boot = "none" THEN "mmio" ELSE "low"
    /\ UNCHANGED <<memVars, m, pieces, vm, splitVars, vga, rfb, ttyVars, fault>>

\* arm_vcpu_init() and the GIC; the vcpu starts at EL1 with the MMU off.
ArchInitArm ==
    /\ pc = "arch" /\ m.arch = "aarch64"
    /\ regs' = FirstRegs([pe |-> TRUE, paging |-> FALSE, bits |-> 64, flat |-> TRUE])
    /\ pc' = IF m.boot = "none" THEN "mmio" ELSE "low"
    /\ UNCHANGED <<memVars, m, pieces, vm, splitVars, vga, rfb, ttyVars, fault>>

-----------------------------------------------------------------------------
(* Memory and what is loaded into it.                                      *)

MinOf(a, b) == IF a < b THEN a ELSE b

\* "RAM above MMIO_START moves to 4G": only a PVH boot splits it.
Pvh == m.arch = "x86_64" /\ m.boot = "linux"
LowSize == IF Pvh THEN MinOf(m.memory, MMIO_START) ELSE m.memory
LowBase == IF m.arch = "aarch64" /\ m.boot = "linux" THEN LOAD_ADDR ELSE 0
HasHigh == Pvh /\ m.memory > MMIO_START

\* get_linux_header() comes first on aarch64; an empty image has none.
HeaderRead == m.arch = "aarch64" /\ m.boot = "linux" => m.segments[1].filesz > 0

AddLow ==
    /\ pc = "low"
    /\ \/ /\ HeaderRead
          /\ add_mem_region(LowSize, LowBase)
          /\ pc' = IF HasHigh THEN "high" ELSE "load"
          /\ UNCHANGED <<m, pieces, regs, vm, splitVars, vga, rfb, ttyVars, fault>>
       \/ /\ ~HeaderRead \/ ~KvmTakes(slots, NewRegionSlot(LowSize, LowBase))
          /\ Fail("user")

AddHigh ==
    /\ pc = "high"
    /\ \/ /\ add_mem_region(m.memory - MMIO_START, HIGH_RAM_START)
          /\ pc' = "load"
          /\ UNCHANGED <<m, pieces, regs, vm, splitVars, vga, rfb, ttyVars, fault>>
       \/ /\ ~KvmTakes(slots, NewRegionSlot(m.memory - MMIO_START, HIGH_RAM_START))
          /\ Fail("user")

Piece(what, start, len) == [what |-> what, start |-> start, len |-> len]

\* Mutant: the segments end with what is in the file.
LastAddrFilesz(segments) ==
    LET ends == {0} \cup {segments[k].start + segments[k].filesz : k \in DOMAIN segments}
    IN  CHOOSE e \in ends : \A f \in ends : f <= e

\* load_elf(): its result, with .bss
LastAddr(segments) ==
    LET ends == {0} \cup {segments[k].start + segments[k].memsz : k \in DOMAIN segments}
    IN  CHOOSE e \in ends : \A f \in ends : f <= e

KernelPieces ==
    [k \in DOMAIN m.segments |-> Piece("kernel", m.segments[k].start, m.segments[k].filesz)]

\* The module's name goes before the module, a page each at least.
NameStart == AlignUp(LastAddr(m.segments))
InitrdStart == AlignUp(NameStart + 1)

InitrdPieces ==
    IF m.initramfs = NoFile THEN << >>
    ELSE <<Piece("name", NameStart, 1), Piece("initramfs", InitrdStart, m.initramfs)>>

\* Above the start info: command line, memory map and module list, each on
\* pages of its own.  The structures are shorter than a unit.
CmdlineStart == AlignUp(hvm_base + 1)
MemmapStart == AlignUp(CmdlineStart + m.cmdline)
ModlistStart == AlignUp(MemmapStart + 1)

InfoPieces ==
    <<Piece("cmdline", CmdlineStart, m.cmdline),
      Piece("memmap", MemmapStart, 1),
      Piece("modlist", ModlistStart, IF m.initramfs = NoFile THEN 0 ELSE 1),
      Piece("info", hvm_base, 1)>>

\* u64 subtraction, in a build without overflow checks
Minus(a, b) == IF a < b THEN a - b + U64 ELSE a - b

\* A build with the checks panics on the size of the third range.
MapUnderflows == Pvh /\ LowSize < HIMEM_START

\* What the memory map says.
Memmap ==
    <<[addr |-> 0, size |-> EBDA_START, ram |-> TRUE],
      [addr |-> EBDA_START, size |-> HIMEM_START - EBDA_START, ram |-> FALSE],
      [addr |-> HIMEM_START, size |-> Minus(LowSize, HIMEM_START), ram |-> TRUE]>>
    \o IF HasHigh
       THEN <<[addr |-> HIGH_RAM_START, size |-> m.memory - MMIO_START, ram |-> TRUE]>>
       ELSE << >>

\* Offsets in the region; the device tree, then the initramfs, then the kernel
ArmPieces ==
    <<Piece("dtb", 0, m.dtb)>>
    \o (IF m.initramfs = NoFile THEN << >>
        ELSE <<Piece("initramfs", INITRAMFS_OFFS, m.initramfs)>>)
    \o <<Piece("kernel", KERN_OFFS, m.segments[1].filesz)>>

ToLoad ==
    IF m.boot = "binary" THEN <<Piece("kernel", m.load_addr, m.segments[1].filesz)>>
    ELSE IF Pvh THEN KernelPieces \o InitrdPieces \o InfoPieces
    ELSE ArmPieces

\* load_data_to_memory()
Fits(p) == p.start < regions[1].size /\ p.start + p.len <= regions[1].size

\* 32-bit segments from 0 to 4 GiB, CR0 with PE only
protected_mode_setup == [pe |-> TRUE, paging |-> FALSE, bits |-> 32, flat |-> TRUE]

EntryRegs ==
    IF m.boot = "binary" THEN regs
    ELSE IF Pvh
    THEN [ip |-> m.segments[1].start, info |-> hvm_base, cpu |-> protected_mode_setup]
    ELSE [ip |-> LOAD_ADDR + KERN_OFFS, info |-> LOAD_ADDR, cpu |-> regs.cpu]

\* arch_load_linux(), or the binary.  On aarch64 Linux needs a device tree.
Load ==
    /\ pc = "load"
    /\ \/ /\ \A k \in DOMAIN ToLoad : Fits(ToLoad[k])
          /\ m.boot = "linux" /\ ~Pvh => m.dtb # NoFile
          /\ pieces' = ToLoad
          /\ regs' = EntryRegs
          /\ pc' = "mmio"
          /\ UNCHANGED <<memVars, m, vm, splitVars, vga, rfb, ttyVars, fault>>
       \/ /\ \/ \E k \in DOMAIN ToLoad : ~Fits(ToLoad[k])
             \/ m.boot = "linux" /\ ~Pvh /\ m.dtb = NoFile
             \/ MapUnderflows
          /\ Fail("user")

-----------------------------------------------------------------------------
(* Devices.                                                                *)

\* arch_init_mmio_devices(): on aarch64 the UART, with its thread, comes
\* first; the terminal's state was saved before.
InitMmio ==
    /\ pc = "mmio"
    /\ tty' = IF m.arch = "aarch64" THEN "spawned" ELSE tty
    /\ pc' = "disks"
    /\ UNCHANGED <<memVars, m, pieces, regs, vm, splitVars, vga, rfb, terminal, fault>>

\* init_virtio_blk() and, on x86_64, init_virtio_net()
InitDisks ==
    /\ pc = "disks"
    /\ pc' = IF m.arch = "aarch64" THEN "rfb" ELSE "io"
    /\ UNCHANGED <<memVars, m, pieces, regs, vm, splitVars, vga, rfb, ttyVars, fault>>

\* arch_init_io_devices(): the UART's thread is started; with the framebuffer
\* in memory its pages are to be logged.
InitIo ==
    /\ pc = "io"
    /\ tty' = "spawned"
    /\ LET there == gpa_to_host(VGA_FRAMEBUFFER, VGA_FRAMEBUFFER_SIZE) # 0
       IN  /\ vga' = [vga EXCEPT !.framebuffer = there]
           /\ pc' = IF there THEN "delete" ELSE "ring"
    /\ UNCHANGED <<memVars, m, pieces, regs, vm, splitVars, rfb, terminal, fault>>

SplitIdx == SplitRegion(VGA_FRAMEBUFFER, VGA_FRAMEBUFFER_SIZE)

\* log_dirty_pages() finds the region and deletes its slot.
SplitDelete ==
    /\ pc = "delete"
    /\ IF SplitIdx = 0 \/ regions[SplitIdx].slot = NoSlot
       THEN Fail("code")
       ELSE /\ DeleteSlot(regions[SplitIdx].slot)
            /\ free_slot' = regions[SplitIdx].slot
            /\ parts' = Parts(SplitIdx, VGA_FRAMEBUFFER, VGA_FRAMEBUFFER_SIZE)
            /\ pc' = "parts"
            /\ UNCHANGED <<m, pieces, regs, vm, vga, rfb, ttyVars, fault>>

\* Mutant: a part that cannot be added is passed over.
SplitAddIgnoresErrors ==
    /\ pc = "parts"
    /\ parts # << >>
    /\ \/ AddPart(Head(parts), free_slot)
       \/ UNCHANGED memVars
    /\ vga' = IF Head(parts).log THEN [vga EXCEPT !.log_slot = PartSlot(free_slot)] ELSE vga
    /\ free_slot' = NoSlot
    /\ parts' = Tail(parts)
    /\ UNCHANGED <<m, pc, pieces, regs, vm, rfb, ttyVars, fault>>

\* The parts are added one by one; the logged one's slot is the log's.
SplitAdd ==
    /\ pc = "parts"
    /\ parts # << >>
    /\ IF KvmTakes(slots, PartAsSlot(Head(parts), PartSlot(free_slot)))
       THEN /\ AddPart(Head(parts), free_slot)
            /\ vga' = IF Head(parts).log THEN [vga EXCEPT !.log_slot = PartSlot(free_slot)]
                                         ELSE vga
            /\ free_slot' = NoSlot
            /\ parts' = Tail(parts)
            /\ UNCHANGED <<m, pc, pieces, regs, vm, rfb, ttyVars, fault>>
       ELSE Fail("code")

\* The region is marked as split.  Nobody shares it yet, so Arc::get_mut()
\* finds it.
SplitDone ==
    /\ pc = "parts"
    /\ parts = << >>
    /\ regions' = [regions EXCEPT ![SplitIdx].slot = NoSlot]
    /\ pc' = "dup"
    /\ UNCHANGED <<slots, next_slot, m, pieces, regs, vm, splitVars, vga, rfb, ttyVars, fault>>

\* "Its own fd, as frontends may fetch it after the VM is dropped", and the
\* region for the Vga to hold
DupLog ==
    /\ pc = "dup"
    /\ vga' = [vga EXCEPT !.log_fd = "own", !.region = SplitIdx,
                          !.log_pages = (LogEnd(VGA_FRAMEBUFFER, VGA_FRAMEBUFFER_SIZE)
                                            - LogStart(VGA_FRAMEBUFFER)) \div PAGE_SIZE]
    /\ pc' = "ring"
    /\ UNCHANGED <<memVars, m, pieces, regs, vm, splitVars, rfb, ttyVars, fault>>

\* coalesce_pio(), which KVM may not support, and Vga::new()
CoalescePio ==
    /\ pc = "ring"
    /\ \E supported \in BOOLEAN : vga' = [vga EXCEPT !.on = TRUE, !.ring = supported]
    /\ pc' = "rfb"
    /\ UNCHANGED <<memVars, m, pieces, regs, vm, splitVars, rfb, ttyVars, fault>>

StartRfb ==
    /\ pc = "rfb"
    /\ rfb' = m.vnc
    /\ pc' = "run"
    /\ UNCHANGED <<memVars, m, pieces, regs, vm, splitVars, vga, ttyVars, fault>>

-----------------------------------------------------------------------------
(* The end.                                                                *)

\* VM::run() returns: the vcpu's thread is joined and the VM dropped.  The
\* Vga goes with it unless the frontend holds it too.
RunEnds ==
    /\ pc = "run"
    /\ vcpu = "guest"
    /\ vm' = "dropped"
    /\ vga' = IF rfb THEN vga ELSE NoVga
    /\ pc' = "restore"
    /\ UNCHANGED <<memVars, m, pieces, regs, splitVars, rfb, ttyVars, fault>>

\* Mutant: it is left to the terminal's thread.
RestoreNothing ==
    /\ pc = "restore"
    /\ pc' = "return"
    /\ UNCHANGED <<memVars, m, pieces, regs, vm, splitVars, vga, rfb, ttyVars, fault>>

\* "The serial frontend's thread may never get to restore the terminal when
\* the guest stops the VM, so main restores it."
RestoreTty ==
    /\ pc = "restore"
    /\ terminal' = IF m.stdin_tty THEN "cooked" ELSE terminal
    /\ pc' = "return"
    /\ UNCHANGED <<memVars, m, pieces, regs, vm, splitVars, vga, rfb, tty, fault>>

Return ==
    /\ pc = "return"
    /\ pc' = "exited"
    /\ UNCHANGED <<memVars, m, pieces, regs, vm, splitVars, vga, rfb, ttyVars, fault>>

Main ==
    /\ \/ HostFails \/ Create \/ ArchInitX86 \/ ArchInitArm \/ AddLow \/ AddHigh
       \/ Load \/ InitMmio \/ InitDisks \/ InitIo
       \/ SplitDelete \/ SplitAdd \/ SplitDone \/ DupLog \/ CoalescePio \/ StartRfb
       \/ RunEnds \/ RestoreTty \/ Return
    /\ UNCHANGED vars

-----------------------------------------------------------------------------
(* The other threads, until the process ends.                              *)

Process == pc \notin {"exited", "failed"}

\* start_tty(): raw mode, unless stdout is no terminal
TtyStarts ==
    /\ Process
    /\ tty = "spawned"
    /\ \/ tty' = (IF pc = "return" THEN "late" ELSE "raw") /\ terminal' = "raw"
       \/ tty' = "done" /\ UNCHANGED terminal
    /\ UNCHANGED <<memVars, m, pc, pieces, regs, vm, splitVars, vga, rfb, fault, vars>>

\* Quit, the end of the input, a read error, or a byte for a UART whose VM is
\* gone (the unwrap() of send_char()): raw mode is left on the way out.
TtyEnds ==
    /\ Process
    /\ tty \in {"raw", "late"}
    /\ tty' = "done"
    /\ terminal' = "cooked"
    /\ UNCHANGED <<memVars, m, pc, pieces, regs, vm, splitVars, vga, rfb, fault, vars>>

\* The guest and the vcpu's thread on the ring, while the VM runs
RingVcpu ==
    /\ pc = "run" /\ vga.ring
    /\ \/ KvmQueue \/ ExitFull \/ ExitAccess \/ VcpuLock \/ VcpuAccess
       \/ lock = "vcpu" /\ (DrainEntry \/ DrainEnd)
    /\ UNCHANGED mainVars

\* A frontend that renders, also after the VM was dropped
RingFrontend ==
    /\ Process /\ rfb /\ vga.ring
    /\ FrontendLock \/ (lock = "frontend" /\ (DrainEntry \/ DrainEnd))
    /\ UNCHANGED mainVars

\* The process ended.
Ended == ~Process /\ UNCHANGED machineVars

MachineNext == Main \/ TtyStarts \/ TtyEnds \/ RingVcpu \/ RingFrontend \/ Ended

MachineSpec == MachineInit /\ [][MachineNext]_machineVars

-----------------------------------------------------------------------------
(* Properties.                                                             *)

\* Whatever fails on the way, no vcpu runs on memory with a hole in it: the
\* slots tile the regions, and the log is kept of the framebuffer's pages and
\* no others, with a bit for each ("up to three: before, logged, after",
\* log_dirty_pages()).  Nor does the split itself ask KVM for what it must
\* refuse: a slot that is empty, overlaps another or splits a page.
MemoryWhole ==
    /\ fault # "code"
    /\ pc = "run" =>
        /\ SlotsTile
        /\ {s.id : s \in {t \in slots : t.log}} =
              IF vga.framebuffer THEN {vga.log_slot} ELSE {}
        /\ \A s \in slots : s.log =>
              /\ s.base = VGA_FRAMEBUFFER
              /\ s.size = vga.log_pages * PAGE_SIZE
              /\ vga.log_pages = FRAMEBUFFER_PAGES

PiecesOverlap(p, q) == Overlap(p.start, p.len, q.start, q.len)

\* A piece was written over by a later one.
Damaged(a) == \E b \in DOMAIN pieces : a < b /\ PiecesOverlap(pieces[a], pieces[b])

\* On aarch64 a file that outgrew the gap to the next one's fixed place, which
\* nothing checks; there is no next one to an initramfs that is not there, or
\* empty.
Outgrown(p) ==
    \/ p.what = "dtb" /\ p.len > (IF m.initramfs > 0 THEN INITRAMFS_OFFS ELSE KERN_OFFS)
    \/ p.what = "initramfs" /\ p.len > KERN_OFFS - INITRAMFS_OFFS

\* The end of the pages of a PVH guest's start info
InfoEnd == ModlistStart + 1

\* What a guest was told is whole; so is all else, but for what a PVH kernel
\* linked below the end of the start info puts there, and for exactly the
\* files of aarch64 that outgrew their places.
PiecesKept ==
    \A a \in DOMAIN pieces :
        IF Pvh THEN Damaged(a) => /\ pieces[a].what \in {"kernel", "name", "initramfs"}
                                  /\ pieces[a].start < InfoEnd
               ELSE Damaged(a) <=> Outgrown(pieces[a])

Ram == {k \in DOMAIN Memmap : Memmap[k].ram}

\* Every range said to be RAM is there, apart from the others, and not the
\* display's.
MapTrue ==
    \A k \in Ram :
        /\ Memmap[k].size = 0 \/ gpa_to_host(Memmap[k].addr, Memmap[k].size) # 0
        /\ \A l \in DOMAIN Memmap : k # l =>
              ~Overlap(Memmap[k].addr, Memmap[k].size, Memmap[l].addr, Memmap[l].size)
        /\ ~Overlap(Memmap[k].addr, Memmap[k].size, VGA_FRAMEBUFFER, VGA_FRAMEBUFFER_SIZE)

\* .bss has nothing in it, in segments above the start info.
BssFree ==
    \A k \in DOMAIN m.segments, a \in DOMAIN pieces :
        m.segments[k].start >= InfoEnd /\ pieces[a].what # "kernel" =>
            ~Overlap(m.segments[k].start, m.segments[k].memsz, pieces[a].start, pieces[a].len)

\* A kernel linked above the first MiB, as Linux and the Doom guest are
KernelHigh == \A k \in DOMAIN m.segments : m.segments[k].start >= HIMEM_START

\* All that was loaded is in RAM, and the command line, which is written
\* without its NUL, ends before anything else begins or where the memory map's
\* first address, a 0, does.
PiecesInRam ==
    \A a \in DOMAIN pieces :
        /\ \E k \in Ram :
              /\ Memmap[k].addr <= pieces[a].start
              /\ pieces[a].start + pieces[a].len <= Memmap[k].addr + Memmap[k].size
        /\ pieces[a].start = CmdlineStart + m.cmdline => pieces[a].what = "memmap"

\* The heap that the Doom guest makes of what it is told (setup_memory of
\* src/guests/doom/kvm.c): above the image and the module, to the end of the
\* RAM it starts in.
HeapStart == IF m.initramfs = NoFile THEN LastAddr(m.segments) ELSE InitrdStart + m.initramfs

HeapEnd(k) == Memmap[k].addr + Memmap[k].size

HeapIn == {k \in Ram : Memmap[k].addr <= HeapStart /\ HeapStart < HeapEnd(k)}

\* While low memory reaches beyond the image and the module, there is a heap,
\* up to its end.  It is in one range, and nothing the guest was given is in it.
HeapFree ==
    /\ HeapStart < LowSize => \E k \in HeapIn : HeapEnd(k) = LowSize
    /\ \A k \in HeapIn :
        /\ HeapIn = {k}
        /\ \A a \in DOMAIN pieces :
              ~Overlap(HeapStart, HeapEnd(k) - HeapStart, pieces[a].start, pieces[a].len)

\* A vcpu starts in the kernel, pointed at the start info or the device tree;
\* no piece of the boot data was overwritten but those PiecesKept names; RAM
\* leaves the devices' pages free; an x86 vcpu is in a flat mode without
\* paging, the protected one if it boots by PVH.  A PVH guest's memory map is
\* true exactly if there is a MiB of memory, and a kernel linked above that
\* finds what it was given in its RAM, with a heap beside it.
BootWhole ==
    pc = "run" =>
        /\ PiecesKept
        /\ m.boot # "none" => \E a \in DOMAIN pieces :
              pieces[a].what = "kernel" /\ regs.ip = regions[1].base + pieces[a].start
        /\ m.boot = "linux" => \E a \in DOMAIN pieces :
              /\ pieces[a].what \in {"info", "dtb"}
              /\ regs.info = regions[1].base + pieces[a].start
        /\ m.boot = "linux" => \A page \in MmioPages(m.arch), r \in DOMAIN regions :
              ~Overlap(page, PAGE_SIZE, regions[r].base, regions[r].size)
        /\ m.arch = "x86_64" => regs.cpu.flat /\ ~regs.cpu.paging /\ (regs.cpu.pe <=> Pvh)
        /\ Pvh => /\ MapTrue <=> m.memory >= HIMEM_START
                  /\ BssFree
                  /\ KernelHigh => PiecesInRam /\ HeapFree

\* When the guest has run, the user gets the terminal back, whatever its
\* thread was doing, unless that thread only gets to raw mode after main()
\* restored it, or there was no terminal to save.
TerminalRestored ==
    pc = "exited" => terminal = "cooked" \/ tty = "late" \/ ~m.stdin_tty
=============================================================================
