---------------------------- MODULE HttpTransport -----------------------------
(***************************************************************************)
(* One HTTP request of ApiClient (api_client.cpp, POSIX): http_post(), which *)
(* reads a whole response, and http_post_stream(), which hands on the text   *)
(* deltas of a streamed one line by line.  The Director and the Managers use *)
(* the first, the Workers only the second.                                  *)
(*                                                                          *)
(* What the server sends is a sequence of pieces, of which a read() takes    *)
(* any number: the header and its end, the two halves of each event, the     *)
(* line of a chunk size, other text, and the event [DONE].  Every piece that *)
(* ends a line is the last of it.                                           *)
(***************************************************************************)
EXTENDS Naturals, Sequences, FiniteSets, SequencesExt

CONSTANTS Responses,    \* [sized, pieces]: what servers answer, with Content-Length or not
          Addresses     \* how many addresses getaddrinfo() may return

Event(i) == <<[part |-> "left", of |-> i], [part |-> "right", of |-> i]>>
Piece(p) == [part |-> p, of |-> 0]

\* What a server sends: one header, events of which each is its two halves with
\* at most chunk sizes between them, and no event after [DONE].
WellFormed(p) ==
    /\ p \in Seq([part : STRING, of : Nat])
    /\ \E h \in DOMAIN p :
          /\ p[h].part = "head_end"
          /\ \A i \in DOMAIN p : i < h => p[i].part = "head"
          /\ \A i \in DOMAIN p : i > h => p[i].part \notin {"head", "head_end"}
    /\ \A i \in DOMAIN p : p[i].part = "right" =>
          \E j \in DOMAIN p : /\ j < i /\ p[j] = [part |-> "left", of |-> p[i].of]
                             /\ \A k \in DOMAIN p : j < k /\ k < i => p[k].part = "frame"
    /\ \A i, j \in DOMAIN p : p[i] = Piece("done") /\ p[j].part = "right" => j < i

ASSUME TransportAssumption ==
    Addresses \in Nat /\ \A r \in Responses : WellFormed(r.pieces)

VARIABLES
    hpc,        \* where the request is
    streaming,  \* it is http_post_stream()
    tls,
    address,    \* addresses of the host tried so far
    response,   \* what the server answers
    taken,      \* how many pieces of it were read
    buffer,     \* `buffer`, or `raw` of read_response()
    headerDone, \* header_done, or hend # npos
    chunks,     \* the deltas given to on_chunk
    cut         \* history: a read returned nothing before the end

exchangeVars == <<response, taken, buffer, headerDone, chunks, cut>>
htVars == <<hpc, streaming, tls, address, exchangeVars>>

HtInit ==
    /\ hpc = "idle" /\ streaming = FALSE /\ tls = FALSE /\ address = 0
    /\ response \in Responses /\ taken = 0 /\ buffer = << >> /\ headerDone = FALSE
    /\ chunks = << >> /\ cut = FALSE

-----------------------------------------------------------------------------
(* Connection and request.                                                  *)

\* Reads and writes get the timeout of the connection; a name that does not
\* resolve ends the attempt like a list without a usable address.
BeginPost ==
    /\ hpc = "idle" /\ hpc' = "connect"
    /\ streaming' \in BOOLEAN /\ tls' \in BOOLEAN /\ response' \in Responses
    /\ UNCHANGED <<address, taken, buffer, headerDone, chunks, cut>>

\* The loop over the addresses; with TLS the handshake is made with the first
\* that connects, and its failure is not followed by another address.
Connect ==
    /\ hpc = "connect"
    /\ \/ /\ address < Addresses
          /\ address' = address + 1
          /\ hpc' \in {"connect", "send"} \union (IF tls THEN {"thrown"} ELSE {})
       \/ address = Addresses /\ hpc' = "thrown" /\ UNCHANGED address
    /\ UNCHANGED <<streaming, tls, exchangeVars>>

\* write_all().  A peer that has reset the connection raises SIGPIPE, which
\* the program leaves at its default: the process is killed.
SendRequest ==
    /\ hpc = "send" /\ hpc' \in {"read", "thrown", "killed"}
    /\ UNCHANGED <<streaming, tls, address, exchangeVars>>

-----------------------------------------------------------------------------
(* Lines of the buffer.                                                     *)

EndsLine(p) == p.part \notin {"head", "left"}
LineEnds == {i \in DOMAIN buffer : EndsLine(buffer[i])}
HasLine == LineEnds # {}
FirstLine == SubSeq(buffer, 1, CHOOSE i \in LineEnds : \A j \in LineEnds : i <= j)
AfterLine == SubSeq(buffer, Len(FirstLine) + 1, Len(buffer))

HeadEnd == CHOOSE i \in DOMAIN response.pieces : response.pieces[i].part = "head_end"
Body == SubSeq(response.pieces, HeadEnd + 1, Len(response.pieces))
HasHeadEnd == \E i \in DOMAIN buffer : buffer[i].part = "head_end"

\* Something of the buffer is still to be looked at before the next read.
ToDo == \/ ~headerDone /\ HasHeadEnd
        \/ streaming /\ headerDone /\ HasLine
        \/ ~streaming /\ headerDone /\ response.sized /\ Len(buffer) >= Len(Body)

\* read_chunk() > 0.
Read ==
    /\ hpc = "read" /\ ~ToDo
    /\ \E n \in 1..(Len(response.pieces) - taken) :
          /\ buffer' = buffer \o SubSeq(response.pieces, taken + 1, taken + n)
          /\ taken' = taken + n
    /\ UNCHANGED <<hpc, streaming, tls, address, response, headerDone, chunks, cut>>

\* read_chunk() <= 0: the end, a timeout and an error are the same, and what
\* was read so far is the answer.
ReadNothing ==
    /\ hpc = "read" /\ ~ToDo
    /\ hpc' = "returned"
    /\ cut' = (taken < Len(response.pieces))
    /\ UNCHANGED <<streaming, tls, address, response, taken, buffer, headerDone, chunks>>

\* Fault: what arrived together with the end of the header goes with it.
DropHeaderAndMore ==
    /\ hpc = "read" /\ ~headerDone /\ HasHeadEnd
    /\ headerDone' = TRUE
    /\ buffer' = << >>
    /\ UNCHANGED <<hpc, streaming, tls, address, response, taken, chunks, cut>>

\* The end of the header.  The status in it is looked at by the caller of
\* read_response(), and by nobody when streaming.
DropHeader ==
    /\ hpc = "read" /\ ~headerDone /\ HasHeadEnd
    /\ headerDone' = TRUE
    /\ buffer' = SubSeq(buffer, HeadEnd + 1, Len(buffer))
    /\ UNCHANGED <<hpc, streaming, tls, address, response, taken, chunks, cut>>

\* A body of Content-Length bytes is complete; without that header it is
\* read to the end of the connection.
BodyComplete ==
    /\ hpc = "read" /\ ~streaming /\ headerDone
    /\ response.sized /\ Len(buffer) >= Len(Body)
    /\ hpc' = "returned"
    /\ UNCHANGED <<streaming, tls, address, exchangeVars>>

\* A line: [DONE] ends the request, an event is handed on, and whatever is
\* not "data: " with a JSON object (a piece of an event too) is passed over.
HandleLine ==
    /\ hpc = "read" /\ streaming /\ headerDone /\ HasLine
    /\ buffer' = AfterLine
    /\ hpc' = IF FirstLine = <<Piece("done")>> THEN "returned" ELSE "read"
    /\ chunks' = IF \E i \in {p.of : p \in ToSet(FirstLine)} : FirstLine = Event(i)
                 THEN Append(chunks, FirstLine[1].of) ELSE chunks
    /\ UNCHANGED <<streaming, tls, address, response, taken, headerDone, cut>>

-----------------------------------------------------------------------------
HtNext ==
    \/ BeginPost \/ Connect \/ SendRequest \/ Read \/ ReadNothing \/ DropHeader
    \/ BodyComplete \/ HandleLine

HtSpec == HtInit /\ [][HtNext]_htVars

-----------------------------------------------------------------------------
(* Properties.                                                              *)

\* Where the deltas of the response are.
Deltas == {i \in DOMAIN response.pieces : response.pieces[i].part = "right"}
DeltasUpTo(n) == {i \in Deltas : i <= n}

\* Those up to piece n have been handed on, in order and each once, and no other.
SaidUpTo(n) ==
    /\ Len(chunks) = Cardinality(DeltasUpTo(n))
    /\ \A i \in DeltasUpTo(n) : chunks[Cardinality(DeltasUpTo(i))] = response.pieces[i].of

\* No event of the response has a line of another kind in its middle.
Unsplit ==
    \A i \in DOMAIN response.pieces : response.pieces[i].part = "left" => i + 1 \in Deltas

\* However the response is cut into reads, a request that returns has handed
\* on all of it in order, or the connection ended early, or a chunk boundary
\* of the transfer fell inside an event; there is no other way to lose text.
LossesExplained ==
    hpc = "returned" /\ ~cut =>
        IF streaming THEN Unsplit => SaidUpTo(Len(response.pieces)) ELSE buffer = Body
=============================================================================
