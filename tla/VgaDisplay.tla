----------------------------- MODULE VgaDisplay -----------------------------
(***************************************************************************)
(* The VGA adapter's picture (src/src/arch/x86_64/vga.rs) and the frontend *)
(* threads that copy it.                                                   *)
(*                                                                         *)
(* The guest draws into RAM, where KVM's dirty log notes the pages, and    *)
(* changes the palette through the coalesced ring.  Each RFB client's      *)
(* thread renders: under the device's lock it fetches the log, works out   *)
(* the rows and copies the palette, then reads the pixels without the lock *)
(* while the guest draws on.  Fetching the log clears it for everyone.     *)
(*                                                                         *)
(* A machine with little memory has no framebuffer, and no log with it; a  *)
(* host may not coalesce, and then every DAC write exits.                  *)
(*                                                                         *)
(* A pixel is a palette index in 0..1; a palette entry is one component.   *)
(***************************************************************************)
EXTENDS Integers, Sequences, TLC

CONSTANTS
    Clients,
    PAGE_SIZE, WIDTH, HEIGHT,   \* in pixels; a row need not end with a page
    RingMax,                    \* writes the ring holds before KVM exits
    MaxEvents, MaxFrames        \* bounds on what the guest does and on frames

ASSUME VgaAssumption ==
    /\ PAGE_SIZE \in Nat \ {0} /\ WIDTH \in Nat \ {0} /\ HEIGHT \in Nat \ {0}
    /\ RingMax \in Nat \ {0} /\ MaxEvents \in Nat /\ MaxFrames \in Nat

VARIABLES
    framebuffer,    \* Vga::framebuffer and Vga::dirty_log are Some
    dac_writes,     \* Vga::dac_writes is Some
    fb,             \* the framebuffer
    dirty,          \* KVM's log: the pages written since the last fetch
    queued,         \* the DAC writes in the ring, see CoalescedRing
    palette,        \* Vga::palette
    dac_write,      \* the entry the next DAC_DATA write sets
    ac_on,          \* ac_index & AC_PAS
    ac_data_next,   \* the attribute controller's flip-flop
    frame, page_written, repaint,   \* Vga's
    client_seen,    \* the frame each client's thread has
    client_out,     \* each client's pixel buffer
    copy,           \* each client's unlocked copy loop
    events          \* what the guest has done so far

dacVars == <<palette, dac_write>>
acVars == <<ac_on, ac_data_next>>
adapter == <<framebuffer, dac_writes>>
vgaVars == <<adapter, fb, dirty, queued, dacVars, acVars, frame, page_written, repaint,
             client_seen, client_out, copy, events>>

Size == WIDTH * HEIGHT
Pixels == 0..Size - 1
CeilDiv(a, b) == (a + b - 1) \div b
NumPages == CeilDiv(Size, PAGE_SIZE)
Pages == 0..NumPages - 1
PageOf(pixel) == pixel \div PAGE_SIZE
Entries == {0, 1}

DacWrites == [port : {"index", "data"}, byte : Entries]

\* Not in the copy loop
Idle == [pos |-> 0, end |-> 0, palette |-> [e \in Entries |-> 0], on |-> FALSE]

VgaInit ==
    /\ framebuffer \in BOOLEAN
    /\ dac_writes \in BOOLEAN
    /\ fb = [p \in Pixels |-> 0]
    /\ dirty = {}
    /\ queued = << >>
    /\ palette = [e \in Entries |-> 0]
    /\ dac_write = 0
    /\ ac_on = FALSE
    /\ ac_data_next = FALSE
    /\ frame = 0
    /\ page_written = [p \in Pages |-> 0]
    /\ repaint = FALSE
    /\ client_seen = [c \in Clients |-> 0]
    /\ client_out = [c \in Clients |-> [p \in Pixels |-> 0]]
    /\ copy = [c \in Clients |-> Idle]
    /\ events = 0

-----------------------------------------------------------------------------
(* The registers.                                                          *)

Dac == [palette |-> palette, at |-> dac_write, repaint |-> repaint]

\* Vga::write() to DAC_WRITE_INDEX and DAC_DATA
DacWrite(dac, w) ==
    IF w.port = "index"
    THEN [dac EXCEPT !.at = w.byte]
    ELSE [palette |-> [dac.palette EXCEPT ![dac.at] = w.byte],
          at |-> (dac.at + 1) % 2,
          repaint |-> TRUE]

\* apply_queued_writes(), and then the writes in more: one after the other
Applied(more) ==
    LET writes == queued \o more
        after[k \in 0..Len(writes)] ==
            IF k = 0 THEN Dac ELSE DacWrite(after[k - 1], writes[k])
    IN  after[Len(writes)]

ApplyQueued(more) ==
    /\ queued' = << >>
    /\ palette' = Applied(more).palette
    /\ dac_write' = Applied(more).at

Event == events < MaxEvents /\ events' = events + 1

\* The guest draws: no exit.
GuestDraw(p) ==
    /\ framebuffer
    /\ Event
    /\ \E v \in Entries \ {fb[p]} : fb' = [fb EXCEPT ![p] = v]
    /\ dirty' = dirty \cup {PageOf(p)}
    /\ UNCHANGED <<adapter, queued, dacVars, acVars, frame, page_written, repaint,
                   client_seen, client_out, copy>>

GuestDacQueued(w) ==
    /\ dac_writes
    /\ Event
    /\ Len(queued) < RingMax
    /\ queued' = Append(queued, w)
    /\ UNCHANGED <<adapter, fb, dirty, dacVars, acVars, frame, page_written, repaint,
                   client_seen, client_out, copy>>

\* The ring is full, or there is none: handle() applies what is queued and
\* then the write.
GuestDacExit(w) ==
    /\ Event
    /\ dac_writes => Len(queued) = RingMax
    /\ ApplyQueued(<<w>>)
    /\ repaint' = Applied(<<w>>).repaint
    /\ UNCHANGED <<adapter, fb, dirty, acVars, frame, page_written,
                   client_seen, client_out, copy>>

\* A write to AC_INDEX: the index byte with AC_PAS, or data.
GuestAc(on) ==
    /\ Event
    /\ ApplyQueued(<< >>)
    /\ ac_data_next' = ~ac_data_next
    /\ ac_on' = IF ac_data_next THEN ac_on ELSE on
    /\ repaint' = (Applied(<< >>).repaint \/ ac_on' # ac_on)
    /\ UNCHANGED <<adapter, fb, dirty, frame, page_written,
                   client_seen, client_out, copy>>

\* A read of INSTAT_READ resets the flip-flop; the other registers are stored
\* and read back, and accessing one applies what is queued.
GuestInstat ==
    /\ Event
    /\ ApplyQueued(<< >>)
    /\ ac_data_next' = FALSE
    /\ repaint' = Applied(<< >>).repaint
    /\ UNCHANGED <<adapter, fb, dirty, ac_on, frame, page_written,
                   client_seen, client_out, copy>>

-----------------------------------------------------------------------------
(* render().                                                               *)

\* The rows that pages first..last touch.
RowsOf(first, last) ==
    LET stop == (last + 1) * PAGE_SIZE
    IN  <<(first * PAGE_SIZE) \div WIDTH,
          CeilDiv(IF stop < Size THEN stop ELSE Size, WIDTH)>>

\* Mutant: pages written in the frame seen are not counted as changed for a
\* client that another one has overtaken.
ChangedThisFrame(written, since) ==
    {p \in Pages : since = 0 \/ written[p] = frame + 1}

\* Pages written after frame `since`, or all of them for 0.
ChangedPages(written, since) == {p \in Pages : since = 0 \/ written[p] > since}

MinPage(S) == CHOOSE p \in S : \A q \in S : p <= q
MaxPage(S) == CHOOSE p \in S : \A q \in S : q <= p

\* The part of render() under the lock, with written_pages().  A fetch that
\* fails counts every page as written; without a framebuffer none is.
RenderLocked(c, fetched) ==
    LET dac == Applied(<< >>)
        bitmap == IF fetched THEN dirty ELSE Pages
        written == [p \in Pages |->
                       IF dac.repaint \/ p \in bitmap THEN frame + 1 ELSE page_written[p]]
        changed == ChangedPages(written, client_seen[c])
        rows == RowsOf(MinPage(changed), MaxPage(changed))
    IN  /\ copy[c] = Idle
        /\ frame < MaxFrames
        /\ framebuffer \/ fetched
        /\ ApplyQueued(<< >>)
        /\ frame' = frame + 1
        /\ dirty' = IF fetched THEN {} ELSE dirty
        /\ page_written' = written
        /\ repaint' = FALSE
        /\ client_seen' = [client_seen EXCEPT ![c] = frame + 1]
        /\ copy' = [copy EXCEPT ![c] =
                       IF changed = {} THEN Idle
                       ELSE [pos |-> rows[1] * WIDTH, end |-> rows[2] * WIDTH,
                             palette |-> dac.palette, on |-> framebuffer /\ ac_on]]
        /\ UNCHANGED <<adapter, fb, acVars, client_out, events>>

\* One pixel of the loop over the rows; a blanked display is filled with 0.
RenderPixel(c) ==
    LET r == copy[c]
    IN  /\ r.pos < r.end
        /\ client_out' = [client_out EXCEPT ![c][r.pos] =
                              IF r.on THEN r.palette[fb[r.pos]] ELSE 0]
        /\ copy' = [copy EXCEPT ![c] = IF r.pos + 1 = r.end THEN Idle
                                       ELSE [r EXCEPT !.pos = @ + 1]]
        /\ UNCHANGED <<adapter, fb, dirty, queued, dacVars, acVars, frame, page_written,
                       repaint, client_seen, events>>

\* A pixel format or a non-incremental request makes the client start over.
StartOver(c) ==
    /\ copy[c] = Idle
    /\ client_seen' = [client_seen EXCEPT ![c] = 0]
    /\ UNCHANGED <<adapter, fb, dirty, queued, dacVars, acVars, frame, page_written,
                   repaint, client_out, copy, events>>

-----------------------------------------------------------------------------
Guest ==
    \/ \E p \in Pixels : GuestDraw(p)
    \/ \E w \in DacWrites : GuestDacQueued(w) \/ GuestDacExit(w)
    \/ \E on \in BOOLEAN : GuestAc(on)
    \/ GuestInstat

VgaNext ==
    \/ Guest
    \/ \E c \in Clients :
           \/ \E fetched \in BOOLEAN : RenderLocked(c, fetched)
           \/ RenderPixel(c)
           \/ StartOver(c)

VgaSpec == VgaInit /\ [][VgaNext]_vgaVars

\* For TLC: the clients are interchangeable.
ClientSymmetry == Permutations(Clients)

-----------------------------------------------------------------------------
(* Properties.                                                             *)

\* What the guest wants the pixel to look like, once the ring is applied.
Shown(p) == IF framebuffer /\ ac_on THEN palette[fb[p]] ELSE 0

\* The next render() of the client, or the one under way, draws the pixel.
WillBeDrawn(c, p) ==
    \/ client_seen[c] = 0
    \/ queued # << >>
    \/ repaint
    \/ PageOf(p) \in dirty
    \/ page_written[PageOf(p)] > client_seen[c]
    \/ copy[c].pos <= p /\ p < copy[c].end /\ copy[c].palette = palette
       /\ copy[c].on = (framebuffer /\ ac_on)

\* A client never keeps a stale pixel unnoticed, whatever the guest draws
\* during the copy and whichever client fetched the log: "the log is fetched
\* first: a page written after that is read now and sent again next frame"
\* (Display for Mutex<Vga>).  And it copies no row beyond the last, though the
\* last page may reach beyond it.
NoStalePixel ==
    \A c \in Clients :
        /\ copy[c].end <= Size
        /\ \A p \in Pixels : client_out[c][p] = Shown(p) \/ WillBeDrawn(c, p)
=============================================================================
