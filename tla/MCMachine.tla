----------------------------- MODULE MCMachine ------------------------------
(***************************************************************************)
(* Machines at the edges of the layout, in units of 512 bytes: memory that *)
(* ends at the first MiB, inside the framebuffer, at and above the MMIO    *)
(* hole, and that is no whole number of pages; kernels above the first     *)
(* MiB, across it, on the start info and below it; files that fill the     *)
(* gaps of aarch64 and outgrow them.                                       *)
(***************************************************************************)
EXTENDS Machine

Segment(start, filesz, memsz) == [start |-> start, filesz |-> filesz, memsz |-> memsz]

Default ==
    [arch |-> "x86_64", boot |-> "linux", memory |-> 2097152, load_addr |-> 8,
     cmdline |-> 1, initramfs |-> NoFile, dtb |-> NoFile,
     segments |-> <<Segment(2048, 3, 12)>>, vnc |-> FALSE, stdin_tty |-> TRUE]

\* 1 MiB less and more a page, then 2 MiB, 3 GiB, above it and 4 GiB
Sizes == {2040, 2048, 2056, 4096, 6291456, 6291458, 6291464, 8388608}

\* A kernel in three segments, not in order, one of them .bss alone; command
\* lines that fill a page and that are as long as an argument can make them
Boots ==
    {Default,
     [Default EXCEPT !.initramfs = 0, !.cmdline = 8],
     [Default EXCEPT !.initramfs = 9, !.cmdline = 7],
     [Default EXCEPT !.initramfs = 2000, !.cmdline = MaxCmdline],
     [Default EXCEPT !.initramfs = 8,
                     !.segments = <<Segment(2100, 4, 4), Segment(2048, 8, 16),
                                   Segment(2120, 0, 8)>>]}

\* Kernels below the first MiB
Lows ==
    {[Default EXCEPT !.memory = n, !.segments = segs, !.initramfs = f] :
        n \in {512, 1280, 2040, 2048, 4096}, f \in {NoFile, 200},
        segs \in {<<Segment(8, 3, 12)>>, <<Segment(100, 40, 50), Segment(500, 8, 8)>>,
                  <<Segment(1000, 8, 400)>>}}

Pvhs == {[b EXCEPT !.memory = n] : b \in Boots, n \in Sizes}

Binaries ==
    {[Default EXCEPT !.boot = "binary", !.memory = n] : n \in {512, 1400, 1404, 1408, 4096}}
      \cup {[Default EXCEPT !.boot = "none"]}

Arms ==
    {[Default EXCEPT !.arch = "aarch64", !.memory = n, !.dtb = d, !.initramfs = f] :
        n \in {8192, 2097152}, d \in {NoFile, 8, 4096, 4097, 8193},
        f \in {NoFile, 0, 4096, 4097}}
      \cup {[Default EXCEPT !.arch = "aarch64", !.dtb = 8, !.segments = <<Segment(0, 0, 8)>>]}

Watched ==
    {[Default EXCEPT !.vnc = TRUE, !.stdin_tty = FALSE],
     [Default EXCEPT !.boot = "binary", !.memory = 512, !.vnc = TRUE],
     [Default EXCEPT !.arch = "aarch64", !.dtb = 8, !.vnc = TRUE]}

MCMachines == Pvhs \cup Lows \cup Binaries \cup Arms \cup Watched
=============================================================================
