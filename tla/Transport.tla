------------------------------ MODULE Transport ------------------------------
(***************************************************************************)
(* What of a handler's answer reaches the client and the log:              *)
(* middleware/logging.go around middleware/gzip.go with compress/gzip.go   *)
(* around the handler.                                                     *)
(*                                                                         *)
(* A body is a sequence of chunks; a gzip stream is what stands between    *)
(* GzipHeader and GzipTrailer.  External: net/http, which sends the header *)
(* with the first WriteHeader or Write and takes no body for 204.          *)
(***************************************************************************)
EXTENDS Integers, Sequences, SequencesExt

GzipHeader == "gzip header"
GzipTrailer == "gzip trailer"
InvalidGzipBody == "invalid gzip body"

\* The handler's calls.
WriteHeader(status) == [call |-> "WriteHeader", status |-> status]
Write(chunk) == [call |-> "Write", chunk |-> chunk]

\* encoding is the header map's, sent the one that went out with the status.
Unwritten ==
  [status |-> 0, encoding |-> "identity", sent |-> "identity", body |-> <<>>,
   logged |-> 0, size |-> 0, headerWriten |-> FALSE, started |-> FALSE]

\* http.ResponseWriter.  A second status is ignored.
NetHeader(w, status) ==
  IF w.status # 0 THEN w ELSE [w EXCEPT !.status = status, !.sent = w.encoding]

NetWrite(w, chunk) ==
  LET v == NetHeader(w, 200)
  IN  IF v.status = 204 THEN v ELSE [v EXCEPT !.body = Append(@, chunk), !.size = @ + 1]

\* loggingResponseWriter: the size is what the writer below took.
LoggedHeader(w, status) == [NetHeader(w, status) EXCEPT !.logged = status]

\* gzip.Writer begins its stream with the first write, or when it is closed.
ZipWrite(w, chunk) ==
  IF w.started THEN NetWrite(w, chunk)
  ELSE NetWrite(NetWrite([w EXCEPT !.started = TRUE], GzipHeader), chunk)

\* Mutant: the encoding is set when the status has gone.
WriterHeaderLate(w, status) ==
  IF w.headerWriten THEN w
  ELSE [LoggedHeader(w, status) EXCEPT !.headerWriten = TRUE, !.encoding = "gzip"]

WriterHeader(w, status) ==
  IF w.headerWriten THEN w
  ELSE LoggedHeader([w EXCEPT !.headerWriten = TRUE, !.encoding = "gzip"], status)

WriterWrite(w, chunk) ==
  ZipWrite(IF w.headerWriten THEN w ELSE WriterHeader(w, 200), chunk)

\* Mutant: only a stream that has begun is ended.
CloseFlushed(w) == w

Close(w) == ZipWrite(w, GzipTrailer)

Called(zipped, w, c) ==
  IF c.call = "WriteHeader"
    THEN IF zipped THEN WriterHeader(w, c.status) ELSE LoggedHeader(w, c.status)
    ELSE IF zipped THEN WriterWrite(w, c.chunk) ELSE NetWrite(w, c.chunk)

\* Gzip: what is called instead of the handler when the body is no gzip stream.
InvalidBody == <<WriteHeader(400), Write(InvalidGzipBody)>>

\* The handler is run on the writer, call by call.
Answered(zipped, calls) ==
  FoldLeft(LAMBDA w, c : Called(zipped, w, c), Unwritten, calls)

\* request: whether it accepts gzip, whether it says it is gzip, whether it is.
Served(request, calls) ==
  LET script == IF request.encoded /\ ~request.valid THEN InvalidBody ELSE calls
      w == Answered(request.accepts, script)
      v == IF request.accepts THEN Close(w) ELSE w
      u == NetHeader(v, 200)
  IN  [u EXCEPT !.logged = IF @ = 0 THEN 200 ELSE @]
=============================================================================
