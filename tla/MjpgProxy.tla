----------------------------- MODULE MjpgProxy -----------------------------
(***************************************************************************)
(* The HTTP input plugin of mjpg-streamer (mjpg-proxy.c, misc.c and        *)
(* input_http.c): it connects to another mjpg-streamer, cuts the pictures  *)
(* out of the multipart stream byte by byte and publishes them, and it     *)
(* connects anew whenever the connection ends or is refused.               *)
(*                                                                         *)
(* A byte is a letter; runs of letters the extractor does not tell apart   *)
(* are one letter "x".  What matters of a byte is whether it belongs to    *)
(* the boundary and which bits it has: is_crlf masks them, so that the     *)
(* letters O and K of "200 OK" pass for a CR and an LF.                    *)
(***************************************************************************)
EXTENDS Integers, Sequences, SequencesExt

CONSTANTS
    Pictures,   \* what the remote camera sees, as sequences of bytes
    BUFFER_SIZE, \* what the buffer of the extractor holds
    MaxSent,    \* bound: pictures streamed per connection
    MaxBreaks,  \* bound: connections that break
    MaxCuts,    \* bound: calls of recv that return a part of what has arrived
    MaxRefused  \* bound: attempts to connect that fail

VARIABLES
    conn,      \* "down", "up", "over" (closed by the remote); "crash" and
               \* "killed": the process is gone, after memcpy or freeaddrinfo
    wire,      \* bytes on their way
    net,       \* netbuffer: bytes received and not yet looked at
    ext,       \* struct extractor_state
    ready,     \* an image was found, its callback is due
    streamed,  \* history: the pictures streamed on this connection
    pub,       \* history: the images published from this connection
    breaks, cuts, refused,
    \* shared with the output plugins
    db,        \* who holds the mutex
    waiting,   \* the threads in pthread_cond_wait
    buf        \* in[].buf: the number of the frame and its size

remote    == <<wire, streamed, breaks, refused>>
proxyVars == <<conn, remote, cuts, net, ext, ready, pub>>
shared    == <<db, waiting, buf>>

-----------------------------------------------------------------------------
(* What send_stream of the remote writes.                                  *)

CRLF     == <<"CR", "LF">>
BOUNDARY == <<"-", "b">>

\* HTTP/1.0 200 OK, the other lines of the header, the first boundary
Header     == <<"O", "K">> \o CRLF \o <<"x">> \o CRLF \o CRLF \o BOUNDARY \o CRLF
\* Content-Type, Content-Length and X-Timestamp, the picture, the boundary
Part(p)    == <<"x">> \o CRLF \o CRLF \o p \o CRLF \o BOUNDARY \o CRLF

-----------------------------------------------------------------------------
(* The extractor.                                                          *)

\* Bytes that have all the bits of CR (13), and all the bits of LF (10).
LikeCR == {"CR", "O", "-"}
LikeLF == {"LF", "O", "K"}

is_crlf(s)     == s[1] \in LikeCR /\ s[2] \in LikeLF
is_crlfcrlf(s) == Len(s) = 4 /\ is_crlf(SubSeq(s, 1, 2)) /\ is_crlf(SubSeq(s, 3, 4))

init_extractor_state == [part |-> "HEADER", last |-> << >>, buffer |-> << >>, matched |-> 0]

\* Mutant: all the bytes are kept.
push_byte_all(s, b) == Append(s, b)

push_byte(s, b) == IF Len(s) < 4 THEN Append(s, b) ELSE Append(Tail(s), b)

search_pattern_matches(e) == e.matched = Len(BOUNDARY)

search_pattern_compare(m, b) == IF BOUNDARY[m + 1] = b THEN m + 1 ELSE 0

\* One turn of the loop of extract_data.  No one looks at BUFFER_SIZE: the next
\* byte is written over the length and what is behind it, and what the process
\* does then is undefined; "OVERRUN" is the end of what is modelled.
Byte(e, b) ==
    CASE e.part = "HEADER" ->
           LET l == push_byte(e.last, b) IN
           [e EXCEPT !.last = l, !.part = IF is_crlfcrlf(l) THEN "CONTENT" ELSE "HEADER"]
      [] e.part = "CONTENT" /\ Len(e.buffer) < BUFFER_SIZE ->
           [e EXCEPT !.buffer = Append(@, b), !.matched = search_pattern_compare(@, b)]
      [] OTHER -> [e EXCEPT !.part = "OVERRUN"]

\* The loop over the bytes s: after so many turns, the state and the bytes
\* read.  Once an image is found, no more is read.
\* (The set of one state makes TLC evaluate the state once, not at each use.)
Scan(e, s) ==
    LET turn[i \in 0 .. Len(s)] ==
            IF i = 0 THEN {[ext |-> e, read |-> 0]}
            ELSE {IF search_pattern_matches(r.ext) THEN r
                  ELSE [ext |-> Byte(r.ext, s[i]), read |-> i] : r \in turn[i - 1]}
    IN  turn[Len(s)]

\* The boundary and the CRLF before it are taken off.
ImageLength(e) == Len(e.buffer) - (Len(BOUNDARY) + 2)
Image(e)       == SubSeq(e.buffer, 1, ImageLength(e))

-----------------------------------------------------------------------------
Init ==
    /\ conn = "down" /\ wire = << >> /\ net = << >> /\ ext = init_extractor_state
    /\ ready = FALSE /\ streamed = << >> /\ pub = << >> /\ breaks = 0 /\ cuts = 0
    /\ refused = 0

\* Mutant: the state of the extractor outlives the connection.
ConnectKeeps ==
    /\ conn = "down" /\ conn' = "up"
    /\ wire' = Header /\ net' = << >> /\ UNCHANGED ext
    /\ streamed' = << >> /\ pub' = << >>
    /\ UNCHANGED <<ready, breaks, cuts, refused, shared>>

\* connect, then the request; the remote answers with its header.
Connect ==
    /\ conn = "down" /\ conn' = "up"
    /\ wire' = Header /\ net' = << >> /\ ext' = init_extractor_state
    /\ streamed' = << >> /\ pub' = << >>
    /\ UNCHANGED <<ready, breaks, cuts, refused, shared>>

Refused == conn = "down" /\ refused < MaxRefused /\ refused' = refused + 1

\* No socket, or no remote that accepts: the thread sleeps and tries again.
ConnectFails ==
    /\ Refused
    /\ UNCHANGED <<conn, wire, streamed, breaks, cuts, net, ext, ready, pub, shared>>

\* getaddrinfo fails, and the list it did not make is walked and freed all the
\* same: info is unset, or the list that was freed the last time.  Either the
\* process is gone, or info happens to be NULL and the thread tries again (a
\* freed list may even lead to the remote once more: Connect).
LookupFails ==
    /\ Refused /\ conn' \in {"down", "killed"}
    /\ UNCHANGED <<wire, streamed, breaks, cuts, net, ext, ready, pub, shared>>

RemoteStreams ==
    /\ conn = "up" /\ Len(streamed) < MaxSent
    /\ \E p \in Pictures : wire' = wire \o Part(p) /\ streamed' = Append(streamed, p)
    /\ UNCHANGED <<conn, breaks, refused, cuts, net, ext, ready, pub, shared>>

\* The connection breaks: some of what is on its way still arrives.
Breaks ==
    /\ conn = "up" /\ breaks < MaxBreaks
    /\ conn' = "over" /\ breaks' = breaks + 1
    /\ \E k \in 0 .. Len(wire) : wire' = SubSeq(wire, 1, k)
    /\ UNCHANGED <<streamed, refused, cuts, net, ext, ready, pub, shared>>

\* extract_data up to the end of the bytes s, or to the next image in them.
extract_data(e, s) ==
    \E r \in Scan(e, s) :
        /\ ext' = r.ext /\ net' = SubSeq(s, r.read + 1, Len(s))
        /\ ready' = search_pattern_matches(r.ext)

\* Mutant: recv waits for a full netbuffer.
RecvAll ==
    /\ conn \in {"up", "over"} /\ net = << >> /\ ~ready
    /\ conn = "up" => Len(wire) >= 40
    /\ \E k \in 1 .. Len(wire) :
          /\ cuts' = IF k < Len(wire) THEN cuts + 1 ELSE cuts
          /\ cuts' <= MaxCuts
          /\ extract_data(ext, SubSeq(wire, 1, k)) /\ wire' = SubSeq(wire, k + 1, Len(wire))
    /\ UNCHANGED <<conn, streamed, breaks, refused, pub, shared>>

\* recv returns what has arrived, whole or in part.
Recv ==
    /\ conn \in {"up", "over"} /\ net = << >> /\ ~ready
    /\ \E k \in 1 .. Len(wire) :
          /\ cuts' = IF k < Len(wire) THEN cuts + 1 ELSE cuts
          /\ cuts' <= MaxCuts
          /\ extract_data(ext, SubSeq(wire, 1, k)) /\ wire' = SubSeq(wire, k + 1, Len(wire))
    /\ UNCHANGED <<conn, streamed, breaks, refused, pub, shared>>

\* on_image_received: the image is copied and broadcast under the mutex; then
\* the extractor begins anew with the rest of netbuffer.  memcpy takes a
\* negative length for a huge one.
Publish ==
    /\ ready /\ db = "free" /\ conn # "crash"
    /\ extract_data(init_extractor_state, net)
    /\ IF ImageLength(ext) < 0
       THEN conn' = "crash" /\ UNCHANGED <<pub, buf, waiting>>
       ELSE /\ pub' = Append(pub, Image(ext))
            /\ buf' = [n |-> buf.n + 1, size |-> ImageLength(ext)]
            /\ waiting' = {} /\ UNCHANGED conn
    /\ UNCHANGED <<remote, cuts, db>>

\* Mutant: only a connection that yielded nothing is tried again.
CloseForGood ==
    /\ conn = "over" /\ wire = << >> /\ net = << >> /\ ~ready /\ pub = << >>
    /\ conn' = "down"
    /\ UNCHANGED <<remote, cuts, net, ext, ready, pub, shared>>

\* recv finds the end of the stream: close, sleep, connect again.
Close ==
    /\ conn = "over" /\ wire = << >> /\ net = << >> /\ ~ready
    /\ conn' = "down"
    /\ UNCHANGED <<remote, cuts, net, ext, ready, pub, shared>>

worker_thread == Connect \/ ConnectFails \/ LookupFails \/ Recv \/ Publish \/ Close

Next == worker_thread \/ RemoteStreams \/ Breaks

-----------------------------------------------------------------------------
(* Properties.                                                             *)

TypeOK ==
    /\ conn \in {"down", "up", "over", "crash", "killed"} /\ ready \in BOOLEAN
    /\ breaks \in 0 .. MaxBreaks /\ refused \in 0 .. MaxRefused
    /\ ext.part \in {"HEADER", "CONTENT", "OVERRUN"} /\ ext.matched \in 0 .. Len(BOUNDARY) /\ Len(ext.last) <= 4
    /\ buf.n \in Nat /\ buf.size \in Nat

\* What comes first is what the extractor takes for a picture: the header
\* after "200 OK", of which the mask of is_crlf makes the end of the header.
\* The same accident keeps the first boundary from yielding a negative length.
FirstImage == <<"x">> \o CRLF

\* The picture, the CRLF and the boundary fit into the buffer.
Fits(p) == Len(p) + Len(CRLF) + Len(BOUNDARY) <= BUFFER_SIZE

\* However the stream is cut into pieces and wherever a connection breaks, the
\* images published from a connection are, after FirstImage, the pictures
\* streamed on it, whole and in order; the length that is copied is never
\* negative, and nothing is written behind the buffer unless a picture was
\* streamed that does not fit.
ExtractsPictures ==
    /\ IsPrefix(pub, <<FirstImage>> \o streamed)
    /\ conn # "crash"
    /\ ext.part = "OVERRUN" => \E k \in 1 .. Len(streamed) : ~Fits(streamed[k])
=============================================================================
