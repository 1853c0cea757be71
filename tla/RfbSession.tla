---------------------------- MODULE RfbSession -----------------------------
(***************************************************************************)
(* One RFB client's session (src/src/frontend/rfb.rs): after the           *)
(* handshake (RfbHandshake) serve() runs read_messages() itself and        *)
(* send_updates() in a second thread, with an mpsc channel between them    *)
(* and the client's socket under both.                                     *)
(*                                                                         *)
(* A Display is what trait Display promises of it: render() brings a       *)
(* buffer from frame `seen` to the current one and returns the rows from   *)
(* the first to the last that changed.  A row's content is the frame that  *)
(* drew it.  (VgaDisplay is about how the VGA keeps that promise;          *)
(* NoDisplay is a display on which nothing is drawn after frame 1.)        *)
(*                                                                         *)
(* The client (external) sends any messages, reads its updates or does     *)
(* not, and may close at any time.                                         *)
(***************************************************************************)
EXTENDS RfbHandshake

CONSTANTS
    Height,     \* rows 0..Height-1 of the display
    Formats,    \* the supported pixel formats; DEFAULT is one of them
    DEFAULT,    \* PixelFormat::DEFAULT
    Overflowing,    \* the formats with a shift of 32 or more
    MaxMsgs,    \* bound: messages the client sends
    MaxFrame,   \* bound: frames of the display
    Window      \* updates the socket buffers before write_all() blocks

ASSUME RfbAssumption ==
    /\ Height \in Nat \ {0} /\ MaxMsgs \in Nat /\ MaxFrame \in Nat \ {0}
    /\ Window \in Nat \ {0} /\ DEFAULT \in Formats
    /\ Overflowing \subseteq Formats \ {DEFAULT}

VARIABLES
    up,         \* messages in the socket, client to server
    down,       \* updates in the socket, server to client
    closed,     \* the client has closed its end
    shut,       \* serve() has shut the socket down
    reader_pc,  \* serve(): "hello", "read", "shutdown", "join", "done"
    chan,       \* the channel's requests
    update_pc,  \* send_updates(): "unborn", "recv", "check", "write", "done"
    format,     \* send_updates()'s locals: format,
    seen,       \*   seen,
    pending,    \*   pending,
    due,        \*   whether next_render has passed,
    out,        \*   and the update in `out`
    display_frame,      \* the Display's current frame
    drawn,      \* the frame that last drew each row
    screen,     \* what the client shows: each row's content and its format
    client_fmt, \* the format the client asked for last
    waiting,    \* the client has asked since it last got an update
    sent        \* messages the client has sent

readerVars  == <<reader_pc, shut>>
updateVars  == <<update_pc, format, seen, pending, due, out>>
displayVars == <<display_frame, drawn>>
clientVars  == <<screen, client_fmt, waiting, sent, closed>>
rfbVars == <<helloVars, up, down, chan, readerVars, updateVars, displayVars, clientVars>>

-----------------------------------------------------------------------------
Rows == 0..(Height - 1)

Requests ==
    [kind : {"format"}, format : Formats] \cup [kind : {"update"}, incremental : BOOLEAN]

\* "key" stands for every message that makes no request: SetEncodings, pointer
\* and cut text messages are read like a key, and dropped.  "bad" is an
\* unsupported format or an unknown message type.
Messages == Requests \cup [kind : {"key", "bad"}]

NoUpdate == [rows |-> << >>, format |-> DEFAULT]

RfbInit ==
    /\ up = << >> /\ down = << >> /\ chan = << >>
    /\ closed = FALSE /\ shut = FALSE
    /\ HelloInit
    /\ reader_pc = "hello" /\ update_pc = "unborn"
    /\ format = DEFAULT /\ seen = 0 /\ pending = FALSE /\ due = TRUE
    /\ out = NoUpdate
    /\ display_frame = 1 /\ drawn = [r \in Rows |-> 1]
    /\ screen = [r \in Rows |-> [drawn |-> 0, format |-> DEFAULT]]
    /\ client_fmt = DEFAULT /\ waiting = FALSE /\ sent = 0

-----------------------------------------------------------------------------
(* The handshake and the start of the threads.                             *)

\* serve() up to read_messages().  An error drops the stream.
Hello ==
    /\ reader_pc = "hello"
    /\ Server \/ HelloFails(closed)
    /\ reader_pc' = CASE hello_pc' = "started" -> "read"
                      [] hello_pc' = "failed" -> "done"
                      [] OTHER -> "hello"
    /\ update_pc' = IF hello_pc' = "started" THEN "recv" ELSE update_pc
    /\ shut' = (shut \/ hello_pc' = "failed")
    /\ UNCHANGED <<up, down, chan, format, seen, pending, due, out, displayVars, clientVars>>

ClientHello ==
    /\ ~closed /\ ~shut
    /\ ClientHandshake
    /\ UNCHANGED <<up, down, chan, readerVars, updateVars, displayVars, clientVars>>

-----------------------------------------------------------------------------
(* read_messages().                                                        *)

NextMessage(kinds) ==
    /\ reader_pc = "read"
    /\ up # << >> /\ Head(up).kind \in kinds
    /\ up' = Tail(up)

\* Mutant: a rendezvous channel; send() waits for the update thread.
ReadRequestRendezvous ==
    /\ NextMessage({"format", "update"})
    /\ \/ /\ update_pc = "recv" /\ chan = << >>
          /\ chan' = Append(chan, Head(up)) /\ UNCHANGED reader_pc
       \/ /\ update_pc = "done"
          /\ reader_pc' = "shutdown" /\ UNCHANGED chan
    /\ UNCHANGED <<helloVars, down, shut, updateVars, displayVars, clientVars>>

\* send() never blocks; it fails once the update thread dropped the receiver.
ReadRequest ==
    /\ NextMessage({"format", "update"})
    /\ IF update_pc = "done"
       THEN reader_pc' = "shutdown" /\ UNCHANGED chan
       ELSE chan' = Append(chan, Head(up)) /\ UNCHANGED reader_pc
    /\ UNCHANGED <<helloVars, down, shut, updateVars, displayVars, clientVars>>

\* A key goes to the keyboard (I8042), whose interrupt ioctl may fail.
ReadKey(fails) ==
    /\ NextMessage({"key"})
    /\ reader_pc' = IF fails THEN "shutdown" ELSE "read"
    /\ UNCHANGED <<helloVars, down, chan, shut, updateVars, displayVars, clientVars>>

ReadBad ==
    /\ NextMessage({"bad"})
    /\ reader_pc' = "shutdown"
    /\ UNCHANGED <<helloVars, down, chan, shut, updateVars, displayVars, clientVars>>

ReadEof ==
    /\ reader_pc = "read"
    /\ up = << >> /\ closed
    /\ reader_pc' = "shutdown"
    /\ UNCHANGED <<helloVars, up, down, chan, shut, updateVars, displayVars, clientVars>>

-----------------------------------------------------------------------------
(* The end of serve().  Returning from read_messages() dropped the sender. *)

\* Mutant: only joins.
JoinAtOnce ==
    /\ reader_pc = "shutdown"
    /\ reader_pc' = "join"
    /\ UNCHANGED <<helloVars, up, down, chan, shut, updateVars, displayVars, clientVars>>

Shutdown ==
    /\ reader_pc = "shutdown"
    /\ reader_pc' = "join"
    /\ shut' = TRUE
    /\ UNCHANGED <<helloVars, up, down, chan, updateVars, displayVars, clientVars>>

JoinUpdates ==
    /\ reader_pc = "join" /\ update_pc = "done"
    /\ reader_pc' = "done"
    /\ UNCHANGED <<helloVars, up, down, chan, shut, updateVars, displayVars, clientVars>>

-----------------------------------------------------------------------------
(* send_updates().                                                         *)

Recv(kind) ==
    /\ update_pc = "recv"
    /\ chan # << >> /\ Head(chan).kind = kind
    /\ chan' = Tail(chan)

\* Mutant: pixels already sent are taken to be in the new format.
RecvFormatKeepsSeen ==
    /\ Recv("format")
    /\ format' = Head(chan).format
    /\ UNCHANGED <<helloVars, up, down, readerVars, update_pc, seen, pending, due, out,
                   displayVars, clientVars>>

RecvFormat ==
    /\ Recv("format")
    /\ format' = Head(chan).format
    /\ seen' = 0
    /\ UNCHANGED <<helloVars, up, down, readerVars, update_pc, pending, due, out,
                   displayVars, clientVars>>

RecvUpdate ==
    /\ Recv("update")
    /\ pending' = TRUE
    /\ seen' = IF Head(chan).incremental THEN seen ELSE 0
    /\ update_pc' = "check"
    /\ UNCHANGED <<helloVars, up, down, readerVars, format, due, out, displayVars, clientVars>>

\* A timeout before the request or before next_render changes nothing.
RecvTimeout ==
    /\ update_pc = "recv"
    /\ chan = << >> /\ reader_pc = "read"
    /\ pending /\ due
    /\ update_pc' = "check"
    /\ UNCHANGED <<helloVars, up, down, chan, readerVars, format, seen, pending, due, out,
                   displayVars, clientVars>>

RecvDisconnected ==
    /\ update_pc = "recv"
    /\ chan = << >> /\ reader_pc # "read"
    /\ update_pc' = "done"
    /\ UNCHANGED <<helloVars, up, down, chan, readerVars, format, seen, pending, due, out,
                   displayVars, clientVars>>

\* Mutant: a request that comes too soon is dropped.
NotDueForgets ==
    /\ update_pc = "check" /\ ~due
    /\ update_pc' = "recv"
    /\ pending' = FALSE
    /\ UNCHANGED <<helloVars, up, down, chan, readerVars, format, seen, due, out,
                   displayVars, clientVars>>

NotDue ==
    /\ update_pc = "check" /\ ~due
    /\ update_pc' = "recv"
    /\ UNCHANGED <<helloVars, up, down, chan, readerVars, format, seen, pending, due, out,
                   displayVars, clientVars>>

ChangedRows == {r \in Rows : seen = 0 \/ drawn[r] > seen}

\* From the first changed row to the last.
Span == {r \in Rows : \E a, b \in ChangedRows : a <= r /\ r <= b}

RenderNone ==
    /\ update_pc = "check" /\ due
    /\ ChangedRows = {}
    /\ due' = FALSE
    /\ update_pc' = "recv"
    /\ UNCHANGED <<helloVars, up, down, chan, readerVars, format, seen, pending, out,
                   displayVars, clientVars>>

RenderRows ==
    /\ update_pc = "check" /\ due
    /\ ChangedRows # {}
    /\ due' = FALSE
    /\ seen' = display_frame
    /\ out' = [rows |-> [r \in Span |-> drawn[r]], format |-> format]
    /\ update_pc' = "write"
    /\ UNCHANGED <<helloVars, up, down, chan, readerVars, format, pending, displayVars, clientVars>>

\* encode() shifts by 32 or more: a build with overflow checks panics, and
\* the thread is gone; without them the pixels are wrong (RenderRows).
RenderPanics ==
    /\ update_pc = "check" /\ due
    /\ ChangedRows # {} /\ format \in Overflowing
    /\ due' = FALSE
    /\ seen' = display_frame
    /\ update_pc' = "done"
    /\ UNCHANGED <<helloVars, up, down, chan, readerVars, format, pending, out,
                   displayVars, clientVars>>

\* write_all() blocks while the socket is full and the client does not read.
WriteUpdate ==
    /\ update_pc = "write" /\ ~shut
    /\ Len(down) < Window
    /\ down' = Append(down, out)
    /\ out' = NoUpdate
    /\ pending' = FALSE
    /\ update_pc' = "recv"
    /\ UNCHANGED <<helloVars, up, chan, readerVars, format, seen, due, displayVars, clientVars>>

WriteFails ==
    /\ update_pc = "write"
    /\ shut \/ closed
    /\ update_pc' = "done"
    /\ UNCHANGED <<helloVars, up, down, chan, readerVars, format, seen, pending, due, out,
                   displayVars, clientVars>>

\* UPDATE_INTERVAL has passed since the last render.
Tick ==
    /\ ~due
    /\ due' = TRUE
    /\ UNCHANGED <<helloVars, up, down, chan, readerVars, update_pc, format, seen, pending,
                   out, displayVars, clientVars>>

-----------------------------------------------------------------------------
(* The guest draws; the client sends, reads and closes (external).         *)

Draw(r) ==
    /\ display_frame < MaxFrame
    /\ display_frame' = display_frame + 1
    /\ drawn' = [drawn EXCEPT ![r] = display_frame + 1]
    /\ UNCHANGED <<helloVars, up, down, chan, readerVars, updateVars, clientVars>>

ClientSend(m) ==
    /\ client_pc = "started"
    /\ ~closed /\ ~shut /\ sent < MaxMsgs
    /\ up' = Append(up, m)
    /\ sent' = sent + 1
    /\ client_fmt' = IF m.kind = "format" THEN m.format ELSE client_fmt
    /\ waiting' = (waiting \/ m.kind = "update")
    /\ UNCHANGED <<helloVars, down, chan, readerVars, updateVars, displayVars, screen, closed>>

ClientReceive ==
    /\ ~closed /\ down # << >>
    /\ down' = Tail(down)
    /\ screen' = [r \in Rows |->
           IF r \in DOMAIN Head(down).rows
           THEN [drawn |-> Head(down).rows[r], format |-> Head(down).format]
           ELSE screen[r]]
    /\ waiting' = FALSE
    /\ UNCHANGED <<helloVars, up, chan, readerVars, updateVars, displayVars, client_fmt, sent, closed>>

ClientClose ==
    /\ ~closed
    /\ closed' = TRUE
    /\ UNCHANGED <<helloVars, up, down, chan, readerVars, updateVars, displayVars,
                   screen, client_fmt, waiting, sent>>

-----------------------------------------------------------------------------
Reader ==
    \/ Hello
    \/ ReadRequest
    \/ \E fails \in BOOLEAN : ReadKey(fails)
    \/ ReadBad
    \/ ReadEof
    \/ Shutdown
    \/ JoinUpdates

Updater ==
    \/ RecvFormat \/ RecvUpdate \/ RecvTimeout \/ RecvDisconnected
    \/ NotDue \/ RenderNone \/ RenderRows \/ RenderPanics
    \/ WriteUpdate \/ WriteFails

Client ==
    \/ \E m \in Messages : ClientSend(m)
    \/ ClientReceive
    \/ ClientClose

Ended == reader_pc = "done" /\ UNCHANGED rfbVars

RfbNext ==
    \/ Reader \/ Updater \/ Tick \/ Ended
    \/ ClientHello \/ Client
    \/ \E r \in Rows : Draw(r)

RfbSpec == RfbInit /\ [][RfbNext]_rfbVars

\* The server's threads run and time passes.  The client goes through with
\* its handshake unless it closes, and need do nothing after it.
RfbFairSpec ==
    RfbSpec /\ WF_rfbVars(Reader) /\ WF_rfbVars(Updater) /\ WF_rfbVars(Tick) /\ WF_rfbVars(ClientHello)

-----------------------------------------------------------------------------
(* Properties.                                                             *)

\* Nothing is on its way between the client and send_updates()'s locals.
Quiet ==
    /\ reader_pc = "read" /\ update_pc = "recv"
    /\ up = << >> /\ chan = << >> /\ down = << >>

\* A row the client shows stale or in a format it gave up is one the next
\* update covers: resetting `seen` on a new format ("Pixels already sent were
\* in the old format", send_updates) is enough, however the messages, the
\* updates and the guest's drawing interleave.
NoStaleRow ==
    Quiet => \A r \in Rows :
        \/ screen[r] = [drawn |-> drawn[r], format |-> client_fmt]
        \/ r \in ChangedRows

\* A client of a version the RFC knows and the server get through the
\* handshake together, and neither takes a byte for another message's, unless
\* the client closes or picks a type that was not offered: "Versions 3.3, 3.7
\* and 3.8 differ only in how security is agreed on" (handshake).
SessionStarts ==
    (reader_pc = "hello" /\ answer \in Agreed) ~> (Started \/ closed \/ client_pc = "failed")

\* A request is answered, unless nothing changed ("An incremental request
\* waits until something changes"), the client leaves an update unread, the
\* session ends, or the update thread panicked on the format; merged requests
\* are not lost (send_updates).
RequestAnswered ==
    waiting ~> \/ ~waiting
               \/ pending /\ ChangedRows = {}
               \/ down # << >>
               \/ reader_pc # "read" \/ closed
               \/ update_pc = "done" /\ format \in Overflowing

\* Keys get through to the guest even when the client reads no updates and
\* the update thread is blocked in write_all() (read_messages).
KeysGetThrough ==
    (\E i \in DOMAIN up : up[i].kind = "key") ~>
        \/ ~ \E i \in DOMAIN up : up[i].kind = "key"
        \/ reader_pc # "read"

\* Once the client closes or read_messages() gives up, both threads end:
\* shutdown() "unblocks the update thread if it is the one still running"
\* (serve), even from a write the client never reads.
SessionEnds == (closed \/ reader_pc \notin {"hello", "read"}) ~> reader_pc = "done"
=============================================================================
