------------------------------ MODULE HttpStream ------------------------------
(***************************************************************************)
(* One streamed HTTP response: sim_http_fetch::Stream                      *)
(* (src/SimHttpStream.h), the transports that fill it (a libcurl thread,   *)
(* the NSURLSession delegate of ios/CrossPointHttp.mm, the buffered        *)
(* fixture and curl-subprocess paths) and the firmware's one consumer, the *)
(* esp_http_client open/read/close shim (src/esp_http_client.h).           *)
(*                                                                         *)
(* Every critical section of Stream's mutex is one action.  The condition  *)
(* variable is explicit: a thread whose predicate is false joins "parked"  *)
(* and runs again only after a notify_all, so a forgotten notify shows.    *)
(* There are no spurious wakeups, the worst case for progress.             *)
(* The bytes of the body are numbered 1, 2, ... in the order pushed.       *)
(***************************************************************************)
EXTENDS Integers, Sequences

CONSTANTS
  Cap,        \* kStreamCapBytes, in bytes of the model
  MaxChunk,   \* the most bytes a transport hands over at once
  MaxBody,    \* bound: the longest body a server sends
  MaxRead,    \* the largest buffer the firmware reads into
  Transports  \* the transports this build has

ASSUME HttpStreamAssumption ==
  /\ Cap \in Nat \ {0}
  /\ MaxChunk \in Nat \ {0}
  /\ MaxBody \in Nat
  /\ MaxRead \in Nat \ {0}
  /\ Transports \subseteq {"libcurl", "host", "subprocess", "fixture"}

VARIABLES
  headersReady, status, contentLength,  \* the response head
  done, transportError,                 \* finish(): ended, and with which code
  aborted,
  buf, off,       \* bytes held and how many of them were read already
  received,       \* bytes ever appended
  parked,         \* threads waiting on the condition variable
  transport,      \* which transport serves the request
  pp,             \* where the producer thread is
  chunk,          \* bytes the producer is about to push
  rc,             \* the transport's own result
  cp,             \* where the consumer thread is
  want,           \* the length of the read under way
  got,            \* history: every byte handed to the firmware
  result          \* what the last read returned

streamVars == <<headersReady, status, contentLength, done, transportError,
                aborted, buf, off, received>>
producerVars == <<transport, pp, chunk, rc>>
consumerVars == <<cp, want, got, result>>
vars == <<streamVars, parked, producerVars, consumerVars>>

Statuses == {0, 200}
Lengths == {-1} \cup (0..MaxBody)
Failed == 7            \* a curl exit code; every other failure behaves alike

Unread == Len(buf) - off
Answered == status > 0 \/ received > 0 \/ (done /\ transportError = 0)
Complete ==
  /\ done /\ ~aborted /\ transportError = 0
  /\ Unread = 0
  /\ contentLength < 0 \/ received = contentLength
-----------------------------------------------------------------------------
Init ==
  /\ headersReady = FALSE /\ status = 0 /\ contentLength = -1
  /\ done = FALSE /\ transportError = 0 /\ aborted = FALSE
  /\ buf = <<>> /\ off = 0 /\ received = 0
  /\ parked = {}
  /\ transport = "none" /\ pp = "off" /\ chunk = 0 /\ rc = 0
  /\ cp = "idle" /\ want = 0 /\ got = <<>> /\ result = "nothing"

(* The predicates of the three cv_.wait calls. *)
HeadersWait == headersReady \/ aborted
ReadWait == aborted \/ off < Len(buf) \/ done
PushWait == aborted \/ Unread < Cap

Park(t, ready) ==
  /\ ~ready
  /\ t \notin parked
  /\ parked' = parked \cup {t}
  /\ UNCHANGED <<streamVars, producerVars, consumerVars>>

NotifyAll == parked' = {}
-----------------------------------------------------------------------------
(* Stream's operations, as the change each makes under the mutex. *)

SetHeaders(st, len) ==
  /\ headersReady' = TRUE
  /\ IF headersReady
     THEN UNCHANGED <<status, contentLength, parked>>
     ELSE status' = st /\ contentLength' = len /\ NotifyAll
  /\ UNCHANGED <<done, transportError, aborted, buf, off, received>>

NewBytes(n) == [i \in 1..n |-> received + i]

\* What push() leaves once it decided which bytes to keep.
Hold(n, kept, newOff) ==
  /\ buf' = kept \o NewBytes(n) /\ off' = newOff /\ received' = received + n
  /\ NotifyAll
  /\ UNCHANGED <<headersReady, status, contentLength, done, transportError,
                 aborted>>

\* Mutant of push(): the buffer is never shifted down.
AppendNeverShifting(n) ==
  IF off = Len(buf) THEN Hold(n, <<>>, 0) ELSE Hold(n, buf, off)

\* push() with room: a string wholly read is cleared, one whose read prefix
\* outgrew the cap is shifted down, then the chunk goes on the end.
AppendChunk(n) ==
  IF off = Len(buf) THEN Hold(n, <<>>, 0)
  ELSE IF off > Cap THEN Hold(n, SubSeq(buf, off + 1, Len(buf)), 0)
  ELSE Hold(n, buf, off)

\* Mutant: the end is recorded and nobody is woken.
FinishSilently(e) ==
  /\ headersReady' = TRUE /\ done' = TRUE
  /\ transportError' = (IF done THEN transportError ELSE e)
  /\ UNCHANGED <<status, contentLength, aborted, buf, off, received, parked>>

FinishStream(e) ==
  /\ headersReady' = TRUE
  /\ done' = TRUE
  /\ IF done
     THEN UNCHANGED <<transportError, parked>>
     ELSE transportError' = e /\ NotifyAll
  /\ UNCHANGED <<status, contentLength, aborted, buf, off, received>>

\* fillBuffered: the head, the whole body past the cap, and the end.  The
\* caller has not been given the stream yet, so nothing runs in between.
FillBuffered(st, n, ok, code) ==
  /\ headersReady' = TRUE
  /\ status' = st
  /\ contentLength' = (IF st > 0 THEN n ELSE -1)
  /\ buf' = NewBytes(n)
  /\ received' = n
  /\ done' = TRUE
  /\ transportError' = (IF ok THEN 0 ELSE IF code # 0 THEN code ELSE Failed)
  /\ UNCHANGED <<aborted, off, parked>>

\* Mutant: the flag is set and nobody is woken.
AbortSilently ==
  /\ aborted' = TRUE
  /\ UNCHANGED <<headersReady, status, contentLength, done, transportError,
                 buf, off, received, parked>>

\* The cancel handed to setCancel is the data task's own; curl looks at the
\* flag from its progress callback.
AbortStream ==
  /\ aborted' = TRUE
  /\ IF aborted THEN UNCHANGED parked ELSE NotifyAll
  /\ UNCHANGED <<headersReady, status, contentLength, done, transportError,
                 buf, off, received>>
-----------------------------------------------------------------------------
(* The transport: curl_easy_perform on its thread, or the delegate queue.  *)

\* curl_easy_init failing, or a url that does not parse: ended before it began.
CannotStart ==
  /\ pp = "starting"
  /\ FinishStream(Failed)
  /\ pp' = "over" /\ rc' = Failed
  /\ UNCHANGED <<transport, chunk, consumerVars>>

Start ==
  /\ pp = "starting"
  /\ pp' = "transfer"
  /\ UNCHANGED <<streamVars, parked, transport, chunk, rc, consumerVars>>

\* curlAnnounce, once, at the first byte or (a bodiless answer) after perform;
\* didReceiveResponse, which a multipart answer repeats.  Only a curl transfer
\* that failed announces without a status.
Announce(st, len) ==
  /\ transport = "libcurl" => ~headersReady
  /\ \/ pp = "transfer" /\ (transport = "libcurl" => st > 0)
     \/ pp = "ending" /\ transport = "libcurl" /\ (rc = 0 => st > 0)
  /\ SetHeaders(st, len)
  /\ UNCHANGED <<producerVars, consumerVars>>

\* Bytes arrive from the network: curlStreamWrite, didReceiveData.
Receive(n) ==
  /\ pp = "transfer" /\ headersReady
  /\ received + n <= MaxBody
  /\ pp' = "pushing" /\ chunk' = n
  /\ UNCHANGED <<streamVars, parked, transport, rc, consumerVars>>

PushParks ==
  /\ pp = "pushing"
  /\ Park("producer", PushWait)

Push ==
  /\ pp = "pushing" /\ "producer" \notin parked
  /\ ~aborted /\ PushWait
  /\ AppendChunk(chunk)
  /\ pp' = "transfer" /\ chunk' = 0
  /\ UNCHANGED <<transport, rc, consumerVars>>

\* push() false: curl's write callback returns short, the delegate cancels.
PushRefused ==
  /\ pp = "pushing" /\ "producer" \notin parked
  /\ aborted
  /\ pp' = "ending" /\ chunk' = 0 /\ rc' = Failed
  /\ UNCHANGED <<streamVars, parked, transport, consumerVars>>

\* The server finished, or the link died, stalled past the idle timeout, or
\* the abort was noticed.
End(e) ==
  /\ pp = "transfer"
  /\ pp' = "ending" /\ rc' = e
  /\ UNCHANGED <<streamVars, parked, transport, chunk, consumerVars>>

Finish ==
  /\ pp = "ending"
  /\ transport = "libcurl" => headersReady
  /\ FinishStream(rc)
  /\ pp' = "over"
  /\ UNCHANGED <<transport, chunk, rc, consumerVars>>
-----------------------------------------------------------------------------
(* The firmware's thread, through esp_http_client. *)

OpenThreaded(t) ==
  /\ cp = "idle" /\ t \in Transports \cap {"libcurl", "host"}
  /\ transport' = t /\ pp' = "starting"
  /\ cp' = "waitHeaders"
  /\ UNCHANGED <<streamVars, parked, chunk, rc, want, got, result>>

\* A fixture or file:// answer is 200 or 404, the body whole; a curl
\* subprocess reports what it got, cut short or not, and its exit code.
OpenBuffered(t, st, n, code) ==
  /\ cp = "idle" /\ t \in Transports \cap {"fixture", "subprocess"}
  /\ t = "fixture" => st > 0 /\ code = 0
  /\ FillBuffered(st, n, t = "fixture" \/ code = 0 \/ st > 0 \/ n > 0, code)
  /\ transport' = t /\ pp' = "over" /\ rc' = code
  /\ cp' = "waitHeaders"
  /\ UNCHANGED <<chunk, want, got, result>>

OpenParks ==
  /\ cp = "waitHeaders"
  /\ Park("consumer", HeadersWait)

\* waitHeaders returns: ESP_OK when the server answered, else ESP_FAIL.
OpenReturns ==
  /\ cp = "waitHeaders" /\ "consumer" \notin parked
  /\ HeadersWait
  /\ IF Answered
     THEN cp' = "open" /\ UNCHANGED <<streamVars, parked>>
     ELSE cp' = "failed" /\ AbortStream
  /\ UNCHANGED <<producerVars, want, got, result>>

Read(len) ==
  /\ cp = "open"
  /\ cp' = "reading" /\ want' = len
  /\ UNCHANGED <<streamVars, parked, producerVars, got, result>>

ReadParks ==
  /\ cp = "reading"
  /\ Park("consumer", ReadWait)

Lesser(a, b) == IF a < b THEN a ELSE b

ReadBytes ==
  LET n == Lesser(want, Unread) IN
  /\ cp = "reading" /\ "consumer" \notin parked
  /\ off < Len(buf)
  /\ got' = got \o SubSeq(buf, off + 1, off + n)
  /\ off' = off + n
  /\ NotifyAll
  /\ cp' = "open" /\ want' = 0 /\ result' = "data"
  /\ UNCHANGED <<headersReady, status, contentLength, done, transportError,
                 aborted, buf, received, producerVars>>

\* Mutants: the end looked at before the bytes left; the error ignored.
ReadEndFirst ==
  /\ cp = "reading" /\ "consumer" \notin parked
  /\ aborted \/ done
  /\ result' = (IF ~aborted /\ transportError = 0 THEN "end" ELSE "error")
  /\ cp' = "open" /\ want' = 0
  /\ UNCHANGED <<streamVars, parked, producerVars, got>>
ReadErrorIgnored ==
  /\ cp = "reading" /\ "consumer" \notin parked
  /\ off = Len(buf) /\ (aborted \/ done)
  /\ result' = (IF ~aborted THEN "end" ELSE "error")
  /\ cp' = "open" /\ want' = 0
  /\ UNCHANGED <<streamVars, parked, producerVars, got>>

ReadNothing ==
  /\ cp = "reading" /\ "consumer" \notin parked
  /\ off = Len(buf) /\ (aborted \/ done)
  /\ result' = (IF ~aborted /\ transportError = 0 THEN "end" ELSE "error")
  /\ cp' = "open" /\ want' = 0
  /\ UNCHANGED <<streamVars, parked, producerVars, got>>

\* esp_http_client_close / cleanup: endStream aborts whatever still moves.
Close ==
  /\ cp = "open"
  /\ AbortStream
  /\ cp' = "closed"
  /\ UNCHANGED <<producerVars, want, got, result>>
-----------------------------------------------------------------------------
Producer ==
  \/ CannotStart \/ Start \/ PushParks \/ Push \/ PushRefused \/ Finish
  \/ \E st \in Statuses, len \in Lengths : Announce(st, len)
  \/ \E n \in 1..MaxChunk : Receive(n)
  \/ \E e \in {0, Failed} : End(e)

\* What the firmware chooses to call, and what it is inside a call of.
Calls ==
  \/ \E t \in Transports : OpenThreaded(t)
  \/ \E t \in Transports, st \in Statuses, n \in 0..MaxBody, e \in {0, Failed} :
       OpenBuffered(t, st, n, e)
  \/ \E len \in 1..MaxRead : Read(len)
  \/ Close
InCall == OpenParks \/ OpenReturns \/ ReadParks \/ ReadBytes \/ ReadNothing

Next == Producer \/ Calls \/ InCall

Spec == Init /\ [][Next]_vars

\* The idle timeouts (CURLOPT_LOW_SPEED_TIME, timeoutInterval) end a stalled
\* transfer, so the transport always takes another step; a thread inside a
\* call is scheduled.  Nothing obliges the firmware to call again.
FairSpec == Spec /\ WF_vars(Producer) /\ WF_vars(InCall)
-----------------------------------------------------------------------------
FlagsOK ==
  /\ headersReady \in BOOLEAN /\ done \in BOOLEAN /\ aborted \in BOOLEAN
  /\ status \in Statuses /\ contentLength \in Lengths
  /\ transportError \in {0, Failed} /\ rc \in {0, Failed}
BytesOK ==
  /\ buf \in Seq(Nat) /\ off \in 0..Len(buf) /\ received \in Nat
  /\ got \in Seq(Nat)
  /\ chunk \in 0..MaxChunk /\ want \in 0..MaxRead
ThreadsOK ==
  /\ parked \subseteq {"producer", "consumer"}
  /\ transport \in {"none"} \cup Transports
  /\ pp \in {"off", "starting", "transfer", "pushing", "ending", "over"}
  /\ cp \in {"idle", "waitHeaders", "failed", "open", "reading", "closed"}
  /\ result \in {"nothing", "data", "end", "error"}

\* Every variable keeps its type; the read offset stays inside the buffer.
TypeOK == FlagsOK /\ BytesOK /\ ThreadsOK
-----------------------------------------------------------------------------
(* What must hold. *)

\* The elements of s are consecutive and end with "last".
Numbered(s, last) == \A i \in 1..Len(s) : s[i] = last - Len(s) + i

\* Through chunking, compaction and partial reads the firmware gets byte 1, 2,
\* 3 ... of the body, none lost or repeated, and what is held is exactly the
\* rest of what arrived (Stream::push's compaction against Stream::read).
BytesInOrder ==
  /\ Numbered(got, Len(got))
  /\ Numbered(buf, received)
  /\ Len(got) + Unread = received

\* No lost wakeup: a thread asleep in one of Stream's waits has nothing to do.
\* Every change that could end a wait notifies.  So the two never wait for
\* each other: a reader out of bytes leaves the producer room.
NoLostWakeup ==
  /\ "producer" \in parked => pp = "pushing" /\ ~PushWait
  /\ "consumer" \in parked =>
       \/ cp = "waitHeaders" /\ ~HeadersWait
       \/ cp = "reading" /\ ~ReadWait

\* The memory a slow card costs on a threaded transport: under a cap unread,
\* at most a cap of read prefix not yet shifted out, and one chunk.
BufferBounded ==
  transport \in {"libcurl", "host"} => Len(buf) < 2 * Cap + MaxChunk

\* A clean end told to the firmware, or complete(), means the transport itself
\* ended clean with every byte handed over: a cut transfer never passes.
EndIsHonest ==
  /\ result = "end" => done /\ rc = 0 /\ Len(got) = received
  /\ Complete => rc = 0 /\ Len(got) = received

\* The head the firmware reads piecemeal after waitHeaders (status(), then
\* contentLength()) cannot change under it.
HeadIsStable == [][headersReady => UNCHANGED <<status, contentLength>>]_vars

\* The stream is the pipe its reader was promised (BytePipe).
Pipe == INSTANCE BytePipe WITH
  sent <- received,
  delivered <- got,
  ended <- IF ~done THEN "no" ELSE IF transportError = 0 THEN "clean" ELSE "failed",
  closed <- aborted,
  told <- result
PipeSpec == Pipe!Spec

\* Whatever the network does, a call into the stream returns.
CallsReturn == /\ cp = "reading" ~> cp # "reading"
               /\ cp = "waitHeaders" ~> cp # "waitHeaders"

\* Giving up ends the transfer, also one blocked on a full buffer: no producer
\* thread or delegate queue is left behind.
AbortEndsTransfer == aborted ~> pp = "over"
-----------------------------------------------------------------------------
(* What the comments say, and the code does not do. *)

\* SimHttpStream.h:126-127: complete() is "Every byte arrived, none is left
\* unread, the transport ended cleanly".  A curl subprocess cut off in the
\* middle of a body that had a status is filled in as a clean end.
CompleteMeansClean == Complete => rc = 0
===============================================================================
