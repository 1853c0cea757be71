---------------------------- MODULE RfbHandshake ----------------------------
(***************************************************************************)
(* The start of an RFB session (handshake() and the first half of serve()  *)
(* of src/src/frontend/rfb.rs), with a client (external) that follows the  *)
(* handshake of the version it answers with.  Versions differ in who picks *)
(* the security type and in how many bytes say so, and the bytes carry no  *)
(* lengths: a server and a client that disagree wait for each other or     *)
(* take one message for another.                                           *)
(*                                                                         *)
(* A byte on the wire is the name of its message; the version lines, the   *)
(* ServerInit and the ClientInit each stand for one byte.                  *)
(***************************************************************************)
EXTENDS Integers, Sequences

VARIABLES
    hello_pc,   \* serve()'s thread: the next thing it reads or writes
    minor,      \* handshake()'s local
    wire_up,    \* bytes from the client
    wire_down,  \* bytes to the client
    answer,     \* the version the client answers with
    client_pc   \* the client: the next thing it reads or writes

helloVars == <<hello_pc, minor, wire_up, wire_down, answer, client_pc>>

\* Minor versions: 5 stands for 3.4 to 3.6, 9 for those after 3.8; 0 is no
\* RFB version.
Versions == {3, 5, 7, 8, 9, 0}

\* The versions whose handshake RFC 6143 gives; later ones are 3.8's.
Agreed == {3, 7, 8, 9}

HelloInit ==
    /\ hello_pc = "greet"
    /\ minor = 0
    /\ wire_up = << >> /\ wire_down = << >>
    /\ answer \in Versions
    /\ client_pc = "version"

Bytes(message, n) == [i \in 1..n |-> message]

-----------------------------------------------------------------------------
(* serve() and handshake().                                                *)

ServerWrites(bytes, then) ==
    /\ wire_down' = wire_down \o bytes
    /\ hello_pc' = then
    /\ UNCHANGED <<wire_up, answer, client_pc>>

\* read_exact() of one byte
ServerReads ==
    /\ wire_up # << >>
    /\ wire_up' = Tail(wire_up)
    /\ UNCHANGED <<wire_down, answer, client_pc>>

Greet ==
    /\ hello_pc = "greet"
    /\ ServerWrites(<<"version">>, "version")
    /\ UNCHANGED minor

\* 3.3, 3.7, or any other 3.x, which is answered as 3.8
ReadVersion ==
    /\ hello_pc = "version"
    /\ ServerReads
    /\ hello_pc' = IF answer = 0 THEN "failed" ELSE "offer"
    /\ minor' = IF answer \in {3, 7} THEN answer ELSE 8

\* The server picks the type for 3.3 and lists its one type for the others.
Offer ==
    /\ hello_pc = "offer"
    /\ IF minor = 3
       THEN ServerWrites(Bytes("type", 4), "client_init")
       ELSE ServerWrites(Bytes("list", 2), "chosen")
    /\ UNCHANGED minor

\* Mutant: 3.7 gets a SecurityResult too.
ReadChosenResult ==
    /\ hello_pc = "chosen"
    /\ ServerReads
    /\ hello_pc' = IF Head(wire_up) # "none" THEN "failed" ELSE "result"
    /\ UNCHANGED minor

\* A type that was not offered ends the session.
ReadChosen ==
    /\ hello_pc = "chosen"
    /\ ServerReads
    /\ hello_pc' = IF Head(wire_up) # "none" THEN "failed"
                   ELSE IF minor = 8 THEN "result" ELSE "client_init"
    /\ UNCHANGED minor

WriteResult ==
    /\ hello_pc = "result"
    /\ ServerWrites(Bytes("result", 4), "client_init")
    /\ UNCHANGED minor

ReadClientInit ==
    /\ hello_pc = "client_init"
    /\ ServerReads
    /\ hello_pc' = "init"
    /\ UNCHANGED minor

\* ServerInit is written.  minor is out of scope.
WriteInit ==
    /\ hello_pc = "init"
    /\ ServerWrites(<<"init">>, "started")
    /\ minor' = 0

\* The client has closed: a read finds the end, or a write fails.
HelloFails(closed) ==
    /\ closed
    /\ hello_pc \notin {"started", "failed"}
    /\ hello_pc \in {"version", "chosen", "client_init"} => wire_up = << >>
    /\ hello_pc' = "failed"
    /\ UNCHANGED <<minor, wire_up, wire_down, answer, client_pc>>

Server ==
    \/ Greet \/ ReadVersion \/ Offer \/ ReadChosen \/ WriteResult
    \/ ReadClientInit \/ WriteInit

-----------------------------------------------------------------------------
(* The client: 3.4 to 3.6 have the handshake of 3.3 (RFC 6143, 7.1.1).      *)

ClientReads(message, n, then) ==
    /\ Len(wire_down) >= n
    /\ SubSeq(wire_down, 1, n) = Bytes(message, n)
    /\ wire_down' = SubSeq(wire_down, n + 1, Len(wire_down))
    /\ client_pc' = then
    /\ UNCHANGED <<hello_pc, minor, wire_up, answer>>

ClientWrites(byte, then) ==
    /\ wire_up' = Append(wire_up, byte)
    /\ client_pc' = then
    /\ UNCHANGED <<hello_pc, minor, wire_down, answer>>

\* A client that ends the handshake has no use for its version any more.
ClientHandshake ==
    \/ client_pc = "version" /\ ClientReads("version", 1, "answer")
    \/ /\ client_pc = "answer"
       /\ ClientWrites("version", IF answer \in {3, 5} THEN "type" ELSE "list")
    \/ client_pc = "type" /\ ClientReads("type", 4, "client_init")
    \/ client_pc = "list" /\ ClientReads("list", 2, "choose")
    \/ /\ client_pc = "choose"
       /\ ClientWrites("none", IF answer = 7 THEN "client_init" ELSE "result")
    \/ client_pc = "choose" /\ ClientWrites("other", "failed")
    \/ client_pc = "result" /\ ClientReads("result", 4, "client_init")
    \/ client_pc = "client_init" /\ ClientWrites("client_init", "init")
    \/ /\ client_pc = "init" /\ wire_down # << >> /\ Head(wire_down) = "init"
       /\ wire_down' = Tail(wire_down)
       /\ client_pc' = "started"
       /\ answer' = 0
       /\ UNCHANGED <<hello_pc, minor, wire_up>>

-----------------------------------------------------------------------------
\* Both are past the handshake and every byte of it was taken for what it is.
Started ==
    /\ hello_pc = "started" /\ client_pc = "started"
    /\ wire_up = << >> /\ wire_down = << >>
=============================================================================
