--------------------------- MODULE HttpStreamProofs ---------------------------
(***************************************************************************)
(* Theorems about HttpStream, for every cap, chunk size, body and read     *)
(* size.  The inductive invariant IInv adds to the properties what relates *)
(* the two threads' places to the stream: an untouched stream before open, *)
(* an ended one exactly when the transport is over.                        *)
(***************************************************************************)
EXTENDS HttpStream, SequenceTheorems, TLAPS

Phases ==
  /\ cp = "idle" => /\ pp = "off" /\ parked = {} /\ ~headersReady /\ ~aborted
                    /\ buf = <<>> /\ off = 0 /\ received = 0 /\ got = <<>>
  /\ cp # "idle" => pp # "off"
  /\ done <=> pp = "over"
  /\ done => headersReady
  /\ off <= Len(got)
  /\ cp = "reading" => want # 0
  /\ result = "end" => done /\ transportError = 0 /\ off = Len(buf)

IInv == TypeOK /\ BytesInOrder /\ NoLostWakeup /\ BufferBounded /\ Phases
-----------------------------------------------------------------------------
(* Sequences of consecutive bytes. *)

\* Pushing n fresh bytes behind consecutive ones leaves consecutive ones: what
\* Stream::push appends to the bytes it kept.
LEMMA HoldBytes ==
  ASSUME NEW kept \in Seq(Nat), NEW n \in Nat, NEW r \in Nat,
         Len(kept) <= r,
         Numbered(kept, r)
  PROVE  LET b == kept \o [i \in 1..n |-> r + i] IN
         /\ b \in Seq(Nat)
         /\ Len(b) = Len(kept) + n
         /\ Numbered(b, r + n)
<1> DEFINE new == [i \in 1..n |-> r + i]
<1>1. new \in Seq(Nat) /\ Len(new) = n /\ \A i \in 1..n : new[i] = r + i
  BY IsASeq
<1>2. /\ kept \o new \in Seq(Nat)
      /\ Len(kept \o new) = Len(kept) + n
      /\ \A i \in 1..(Len(kept) + n) :
           (kept \o new)[i] = IF i <= Len(kept) THEN kept[i] ELSE new[i - Len(kept)]
  <2> HIDE DEF new
  <2>1. QED BY <1>1, ConcatProperties
<1>3. Len(kept) \in Nat
  BY LenProperties
<1>4. ASSUME NEW i \in 1..(Len(kept) + n)
      PROVE  (kept \o new)[i] = (r + n) - (Len(kept) + n) + i
  <2> HIDE DEF new
  <2>1. CASE i <= Len(kept)
    <3>1. i \in 1..Len(kept)
      BY <2>1, <1>3
    <3>2. (kept \o new)[i] = r - Len(kept) + i
      BY <3>1, <2>1, <1>2 DEF Numbered
    <3>3. QED BY <3>2, <1>3
  <2>2. CASE i > Len(kept)
    <3>1. i - Len(kept) \in 1..n
      BY <2>2, <1>3
    <3>2. (kept \o new)[i] = r + (i - Len(kept))
      BY <3>1, <2>2, <1>1, <1>2, <1>3
    <3>3. QED BY <3>2, <1>3
  <2>3. i <= Len(kept) \/ i > Len(kept)
    BY <1>3
  <2>4. QED BY <2>1, <2>2, <2>3
<1>5. QED BY <1>2, <1>4 DEF Numbered

\* Dropping the first k of consecutive bytes leaves consecutive ones: the shift
\* in Stream::push.
LEMMA ShiftBytes ==
  ASSUME NEW b \in Seq(Nat), NEW r \in Nat, NEW k \in 0..Len(b),
         Numbered(b, r)
  PROVE  LET s == SubSeq(b, k + 1, Len(b)) IN
         /\ s \in Seq(Nat)
         /\ Len(s) = Len(b) - k
         /\ Numbered(s, r)
<1>1. Len(b) \in Nat
  BY LenProperties
<1>2. \A i \in (k + 1)..Len(b) : b[i] \in Nat
  BY <1>1, ElementOfSeq
<1> DEFINE s == SubSeq(b, k + 1, Len(b))
<1>3. /\ s \in Seq(Nat)
      /\ Len(s) = Len(b) - k
      /\ \A i \in 1..(Len(b) - k) : s[i] = b[k + i]
  <2>1. k + 1 \in Int /\ Len(b) \in Int
    BY <1>1
  <2>2. /\ s \in Seq(Nat)
        /\ Len(s) = IF k + 1 <= Len(b) THEN Len(b) - (k + 1) + 1 ELSE 0
        /\ \A i \in 1..(Len(b) - (k + 1) + 1) : s[i] = b[k + 1 + i - 1]
    BY <1>2, <2>1, SubSeqProperties
  <2> HIDE DEF s
  <2>3. QED BY <1>1, <2>2
<1>4. ASSUME NEW i \in 1..(Len(b) - k)
      PROVE  s[i] = r - (Len(b) - k) + i
  <2> HIDE DEF s
  <2>1. k + i \in 1..Len(b)
    BY <1>1
  <2>2. s[i] = r - Len(b) + (k + i)
    BY <1>3, <2>1 DEF Numbered
  <2>3. QED BY <1>1, <2>2
<1>5. QED BY <1>3, <1>4 DEF Numbered

\* The next n bytes from o on, as Stream::read copies them out.
LEMMA Slice ==
  ASSUME NEW b \in Seq(Nat), NEW o \in 0..Len(b), NEW n \in 0..(Len(b) - o)
  PROVE  /\ SubSeq(b, o + 1, o + n) \in Seq(Nat)
         /\ Len(SubSeq(b, o + 1, o + n)) = n
         /\ \A i \in 1..n : SubSeq(b, o + 1, o + n)[i] = b[o + i]
<1>1. Len(b) \in Nat
  BY LenProperties
<1>2. \A i \in (o + 1)..(o + n) : b[i] \in Nat
  BY <1>1, ElementOfSeq
<1>3. QED BY <1>1, <1>2, SubSeqProperties

\* Handing over the next n held bytes extends what the reader has by exactly
\* the next n numbers: Stream::read.
LEMMA ReadNext ==
  ASSUME NEW b \in Seq(Nat), NEW r \in Nat, NEW o \in 0..Len(b),
         NEW g \in Seq(Nat), NEW n \in 0..(Len(b) - o),
         Numbered(b, r), Numbered(g, Len(g)),
         Len(g) + (Len(b) - o) = r
  PROVE  /\ g \o SubSeq(b, o + 1, o + n) \in Seq(Nat)
         /\ Len(g \o SubSeq(b, o + 1, o + n)) = Len(g) + n
         /\ Numbered(g \o SubSeq(b, o + 1, o + n), Len(g) + n)
<1> DEFINE s == SubSeq(b, o + 1, o + n)
<1>1. Len(b) \in Nat /\ Len(g) \in Nat
  BY LenProperties
<1>3. /\ s \in Seq(Nat)
      /\ Len(s) = n
      /\ \A i \in 1..n : s[i] = b[o + i]
  BY Slice
<1> HIDE DEF s
<1>4. ASSUME NEW i \in 1..n
      PROVE  s[i] = Len(g) + i
  <2>1. o + i \in 1..Len(b)
    BY <1>1
  <2>2. s[i] = r - Len(b) + (o + i)
    BY <1>3, <2>1 DEF Numbered
  <2>3. r - Len(b) + (o + i) = Len(g) + i
    OBVIOUS
  <2>4. QED BY <2>2, <2>3
<1>7. /\ g \o s \in Seq(Nat)
      /\ Len(g \o s) = Len(g) + n
      /\ \A i \in 1..(Len(g) + n) :
           (g \o s)[i] = IF i <= Len(g) THEN g[i] ELSE s[i - Len(g)]
  BY <1>3, ConcatProperties
<1>8. ASSUME NEW i \in 1..(Len(g) + n)
      PROVE  (g \o s)[i] = i
  <2>1. CASE i <= Len(g)
    <3>1. i \in 1..Len(g)
      BY <2>1, <1>1
    <3>2. g[i] = Len(g) - Len(g) + i
      BY <3>1 DEF Numbered
    <3>3. QED BY <3>2, <2>1, <1>1, <1>7
  <2>2. CASE ~(i <= Len(g))
    <3>1. i - Len(g) \in 1..n
      BY <2>2, <1>1
    <3>2. s[i - Len(g)] = Len(g) + (i - Len(g))
      BY <3>1, <1>4
    <3>3. QED BY <2>2, <3>2, <1>1, <1>7
  <2>3. QED BY <2>1, <2>2
<1>9. Numbered(g \o s, Len(g) + n)
  <2> SUFFICES ASSUME NEW i \in 1..(Len(g) + n)
               PROVE  (g \o s)[i] = (Len(g) + n) - (Len(g) + n) + i
    BY <1>7, Zenon DEF Numbered
  <2>1. (Len(g) + n) - (Len(g) + n) + i = i
    BY <1>1
  <2>2. QED BY <2>1, <1>8, Zenon
<1>10. QED BY <1>7, <1>9 DEF s
-----------------------------------------------------------------------------
(* push() *)

\* Whatever push() decides to keep, the buffer it leaves is the unread bytes in
\* order with the chunk behind them, and longer than that only by a read prefix
\* of at most a cap.
LEMMA AppendBytes ==
  ASSUME BytesOK, Numbered(buf, received), Len(buf) <= received,
         NEW n \in Nat, AppendChunk(n)
  PROVE  /\ buf' \in Seq(Nat) /\ off' \in 0..Len(buf')
         /\ received' = received + n
         /\ Numbered(buf', received')
         /\ Len(buf') - off' = Len(buf) - off + n
         /\ off' <= off
         /\ off' = 0 \/ off <= Cap
<1> USE DEF BytesOK
<1>1. ASSUME NEW k \in Seq(Nat), NEW o \in 0..Len(k), Len(k) <= received,
             Numbered(k, received), Hold(n, k, o)
      PROVE  /\ buf' \in Seq(Nat) /\ off' \in 0..Len(buf') /\ off' = o
             /\ received' = received + n
             /\ Numbered(buf', received')
             /\ Len(buf') = Len(k) + n
  <2>1. /\ k \o NewBytes(n) \in Seq(Nat)
        /\ Len(k \o NewBytes(n)) = Len(k) + n
        /\ Numbered(k \o NewBytes(n), received + n)
    BY <1>1, HoldBytes DEF NewBytes
  <2>2. buf' = k \o NewBytes(n) /\ off' = o /\ received' = received + n
    BY <1>1 DEF Hold
  <2>3. QED BY <2>1, <2>2
<1>2. CASE off = Len(buf)
  <2>1. <<>> \in Seq(Nat) /\ Len(<<>>) = 0
    BY EmptySeq
  <2>2. Numbered(<<>>, received) /\ Len(<<>>) <= received /\ 0 \in 0..Len(<<>>)
    BY <2>1 DEF Numbered
  <2>3. Hold(n, <<>>, 0)
    BY <1>2 DEF AppendChunk
  <2>4. /\ buf' \in Seq(Nat) /\ off' \in 0..Len(buf') /\ off' = 0
        /\ received' = received + n
        /\ Numbered(buf', received')
        /\ Len(buf') = Len(<<>>) + n
    BY <1>1, <2>1, <2>2, <2>3
  <2>5. QED BY <1>2, <2>1, <2>4
<1>3. CASE off # Len(buf) /\ off > Cap
  <2> DEFINE k == SubSeq(buf, off + 1, Len(buf))
  <2>1. k \in Seq(Nat) /\ Len(k) = Len(buf) - off /\ Numbered(k, received)
    BY ShiftBytes
  <2>2. Hold(n, k, 0)
    BY <1>3 DEF AppendChunk
  <2> HIDE DEF k
  <2>3. Len(k) <= received /\ 0 \in 0..Len(k)
    BY <2>1
  <2>4. /\ buf' \in Seq(Nat) /\ off' \in 0..Len(buf') /\ off' = 0
        /\ received' = received + n
        /\ Numbered(buf', received')
        /\ Len(buf') = Len(k) + n
    BY <1>1, <2>1, <2>2, <2>3
  <2>5. QED BY <2>1, <2>4
<1>4. CASE off # Len(buf) /\ ~(off > Cap)
  <2>1. Hold(n, buf, off)
    BY <1>4 DEF AppendChunk
  <2>2. /\ buf' \in Seq(Nat) /\ off' \in 0..Len(buf') /\ off' = off
        /\ received' = received + n
        /\ Numbered(buf', received')
        /\ Len(buf') = Len(buf) + n
    BY <1>1, <2>1
  <2>3. off <= Cap
    BY <1>4, HttpStreamAssumption
  <2>4. QED BY <2>2, <2>3
<1>5. QED BY <1>2, <1>3, <1>4
-----------------------------------------------------------------------------
(* The inductive invariant. *)

LEMMA InitInv == Init => IInv
<1>1. <<>> \in Seq(Nat) /\ Len(<<>>) = 0
  BY EmptySeq
<1> SUFFICES ASSUME Init PROVE IInv
  OBVIOUS
<1>2. TypeOK
  <2>1. FlagsOK /\ ThreadsOK
    BY DEF Init, FlagsOK, ThreadsOK, Statuses, Lengths, Failed
  <2>2. BytesOK
    BY <1>1, HttpStreamAssumption DEF Init, BytesOK
  <2>3. QED BY <2>1, <2>2 DEF TypeOK
<1>3. BytesInOrder
  BY <1>1 DEF Init, BytesInOrder, Numbered, Unread
<1>4. NoLostWakeup /\ BufferBounded /\ Phases
  BY <1>1 DEF Init, NoLostWakeup, BufferBounded, Phases
<1>5. QED BY <1>2, <1>3, <1>4 DEF IInv

\* The transport's steps between its calls into the stream, and a thread going
\* to sleep, leave the stream alone.
LEMMA QuietSteps ==
  ASSUME IInv,
         \/ Start \/ PushParks \/ PushRefused
         \/ \E n \in 1..MaxChunk : Receive(n)
         \/ \E e \in {0, Failed} : End(e)
         \/ \E t \in Transports : OpenThreaded(t)
         \/ OpenParks \/ ReadParks \/ ReadNothing
         \/ \E len \in 1..MaxRead : Read(len)
  PROVE  IInv'
<1> USE HttpStreamAssumption
    DEF IInv, streamVars, producerVars, consumerVars
<1>1. UNCHANGED streamVars /\ UNCHANGED got
  BY DEF Start, PushParks, PushRefused, Receive, End, OpenThreaded, OpenParks,
         ReadParks, ReadNothing, Read, Park
<1>2. TypeOK'
  <2>1. FlagsOK'
    BY <1>1 DEF TypeOK, FlagsOK, Failed, Start, PushParks, PushRefused, Receive, End, OpenThreaded,
         OpenParks, ReadParks, ReadNothing, Read, Park
  <2>2. BytesOK'
    BY <1>1 DEF TypeOK, BytesOK, Start, PushParks, PushRefused, Receive, End, OpenThreaded,
         OpenParks, ReadParks, ReadNothing, Read, Park
  <2>3. ThreadsOK'
    BY DEF TypeOK, ThreadsOK, Start, PushParks, PushRefused, Receive, End, OpenThreaded,
         OpenParks, ReadParks, ReadNothing, Read, Park
  <2>4. QED BY <2>1, <2>2, <2>3 DEF TypeOK
<1>3. BytesInOrder'
  BY <1>1 DEF BytesInOrder, Unread
<1>4. NoLostWakeup'
  BY <1>1 DEF NoLostWakeup, Phases, PushWait, HeadersWait, ReadWait, Unread,
         Start, PushParks, PushRefused, Receive, End, OpenThreaded, OpenParks,
         ReadParks, ReadNothing, Read, Park
<1>5. BufferBounded'
  BY <1>1 DEF BufferBounded, Phases, Start, PushParks, PushRefused,
         Receive, End, OpenThreaded, OpenParks, ReadParks, ReadNothing, Read, Park
<1>6. Phases'
  BY <1>1 DEF Phases, TypeOK, ThreadsOK, Start, PushParks, PushRefused,
         Receive, End, OpenThreaded, OpenParks, ReadParks, ReadNothing, Read, Park
<1>7. QED BY <1>2, <1>3, <1>4, <1>5, <1>6

\* Headers, the end and the abort change flags only, and wake whoever sleeps.
LEMMA FlagSteps ==
  ASSUME IInv,
         \/ CannotStart \/ Finish \/ OpenReturns \/ Close
         \/ \E st \in Statuses, len \in Lengths : Announce(st, len)
  PROVE  IInv'
<1> USE HttpStreamAssumption
    DEF IInv, streamVars, producerVars, consumerVars
<1>1. UNCHANGED <<buf, off, received, got>>
  BY DEF CannotStart, Finish, FinishStream, OpenReturns, AbortStream, Close,
         Announce, SetHeaders
<1>2. TypeOK'
  <2>1. FlagsOK'
    <3> USE DEF TypeOK, FlagsOK
    <3>1. CASE CannotStart \/ Finish
      BY <3>1 DEF CannotStart, Finish, FinishStream, Failed
    <3>2. CASE OpenReturns \/ Close
      BY <3>2 DEF OpenReturns, Close, AbortStream
    <3>3. ASSUME NEW st \in Statuses, NEW len \in Lengths, Announce(st, len)
          PROVE  FlagsOK'
      BY <3>3 DEF Announce, SetHeaders
    <3>4. QED BY <3>1, <3>2, <3>3
  <2>2. BytesOK'
    BY <1>1 DEF TypeOK, BytesOK, CannotStart, Finish, FinishStream, OpenReturns, AbortStream,
         Close, Announce, SetHeaders, NotifyAll
  <2>3. ThreadsOK'
    BY DEF TypeOK, ThreadsOK, CannotStart, Finish, FinishStream, OpenReturns, AbortStream,
         Close, Announce, SetHeaders, NotifyAll
  <2>4. QED BY <2>1, <2>2, <2>3 DEF TypeOK
<1>3. BytesInOrder'
  BY <1>1 DEF BytesInOrder, Unread
<1>4. NoLostWakeup'
  BY <1>1 DEF NoLostWakeup, Phases, PushWait, HeadersWait, ReadWait, Unread,
         CannotStart, Finish, FinishStream, OpenReturns, AbortStream,
         Close, Announce, SetHeaders, NotifyAll
<1>5. BufferBounded'
  BY <1>1 DEF BufferBounded, CannotStart, Finish, OpenReturns, Close, Announce
<1>6. Phases'
  BY <1>1 DEF Phases, TypeOK, ThreadsOK, CannotStart, Finish, FinishStream, OpenReturns,
         AbortStream, Close, Announce, SetHeaders, NotifyAll
<1>7. QED BY <1>2, <1>3, <1>4, <1>5, <1>6

\* A push keeps the bytes consecutive and the buffer bounded, and wakes the
\* reader it may have had waiting.
LEMMA PushStep ==
  ASSUME IInv, Push
  PROVE  IInv'
<1> USE HttpStreamAssumption DEF IInv
<1>1. /\ pp = "pushing" /\ pp' = "transfer" /\ chunk' = 0
      /\ ~aborted /\ Unread < Cap
      /\ AppendChunk(chunk)
      /\ UNCHANGED <<transport, rc, consumerVars>>
  BY DEF Push, PushWait
<1>2. /\ parked' = {}
      /\ UNCHANGED <<headersReady, status, contentLength, done, transportError,
                     aborted>>
  BY <1>1 DEF AppendChunk, Hold, NotifyAll
<1>3. Len(got) + (Len(buf) - off) = received /\ off <= Len(got)
  BY DEF BytesInOrder, Unread, Phases
<1>4. Len(buf) <= received
  BY <1>3 DEF TypeOK, BytesOK
<1>5. chunk \in Nat /\ chunk <= MaxChunk
  BY DEF TypeOK, BytesOK
<1>6. /\ buf' \in Seq(Nat) /\ off' \in 0..Len(buf')
      /\ received' = received + chunk
      /\ Numbered(buf', received')
      /\ Len(buf') - off' = Len(buf) - off + chunk
      /\ off' <= off
      /\ off' = 0 \/ off <= Cap
  BY <1>1, <1>4, <1>5, AppendBytes DEF TypeOK, BytesInOrder
<1>7. FlagsOK' /\ ThreadsOK'
  BY <1>1, <1>2 DEF TypeOK, FlagsOK, ThreadsOK, consumerVars
<1>8. BytesOK'
  BY <1>1, <1>5, <1>6 DEF TypeOK, BytesOK, consumerVars
<1>9. BytesInOrder'
  <2>1. Len(got) + (Len(buf') - off') = received'
    <3>1. /\ off \in Int /\ received \in Int /\ chunk \in Int /\ off' \in Int
          /\ Len(got) \in Int /\ Len(buf) \in Int /\ Len(buf') \in Int
      BY <1>6, <1>8, LenProperties DEF TypeOK, BytesOK
    <3>2. received' = received + chunk /\ Len(buf') - off' = Len(buf) - off + chunk
      BY <1>6
    <3>3. Len(got) + (Len(buf) - off) = received
      BY <1>3
    <3> HIDE DEF IInv
    <3>4. QED BY <3>1, <3>2, <3>3
  <2>2. QED BY <1>1, <1>6, <2>1 DEF BytesInOrder, Unread, consumerVars
<1>10. NoLostWakeup'
  BY <1>2 DEF NoLostWakeup
<1>11. BufferBounded'
  <2>1. off' <= Cap
    BY <1>6, <1>8 DEF TypeOK, BytesOK
  <2>2. Len(buf') - off' < Cap + MaxChunk
    BY <1>1, <1>5, <1>6, <1>8 DEF TypeOK, BytesOK, Unread
  <2>3. Len(buf') < 2 * Cap + MaxChunk
    BY <2>1, <2>2, <1>8 DEF BytesOK
  <2>4. QED BY <2>3 DEF BufferBounded
<1>12. Phases'
  <2>1. off' <= Len(got)
    BY <1>3, <1>6, <1>8 DEF TypeOK, BytesOK
  <2>2. QED BY <1>1, <1>2, <2>1 DEF Phases, consumerVars
<1>13. QED BY <1>7, <1>8, <1>9, <1>10, <1>11, <1>12 DEF TypeOK

\* A read hands over the next bytes and wakes a producer it made room for.
LEMMA ReadStep ==
  ASSUME IInv, ReadBytes
  PROVE  IInv'
<1> USE HttpStreamAssumption DEF IInv
<1> DEFINE n == Lesser(want, Unread)
<1>1. /\ cp = "reading" /\ cp' = "open" /\ want' = 0 /\ result' = "data"
      /\ got' = got \o SubSeq(buf, off + 1, off + n)
      /\ off' = off + n
      /\ parked' = {}
      /\ UNCHANGED <<headersReady, status, contentLength, done, transportError,
                     aborted, buf, received, producerVars>>
  BY DEF ReadBytes, NotifyAll
<1>2. n \in 0..(Len(buf) - off)
  BY DEF TypeOK, BytesOK, Lesser, Unread
<1> HIDE DEF n
<1>3. /\ got' \in Seq(Nat)
      /\ Len(got') = Len(got) + n
      /\ Numbered(got', Len(got'))
  <2>1. Len(got) + (Len(buf) - off) = received
    BY DEF BytesInOrder, Unread
  <2>2. /\ buf \in Seq(Nat) /\ received \in Nat /\ off \in 0..Len(buf)
        /\ got \in Seq(Nat)
        /\ Numbered(buf, received) /\ Numbered(got, Len(got))
    BY DEF TypeOK, BytesOK, BytesInOrder
  <2> HIDE DEF IInv
  <2> DEFINE h == got \o SubSeq(buf, off + 1, off + n)
  <2>3. h \in Seq(Nat) /\ Len(h) = Len(got) + n /\ Numbered(h, Len(got) + n)
    BY <1>2, <2>1, <2>2, ReadNext
  <2>4. got' = h
    BY <1>1
  <2>5. QED BY <2>3, <2>4
<1>4. FlagsOK' /\ ThreadsOK'
  BY <1>1 DEF TypeOK, FlagsOK, ThreadsOK, producerVars
<1>5. BytesOK'
  BY <1>1, <1>2, <1>3 DEF TypeOK, BytesOK, producerVars
<1>6. BytesInOrder'
  <2>1. Len(got) + (Len(buf) - off) = received /\ Numbered(buf, received)
    BY DEF BytesInOrder, Unread
  <2>2. Len(got') + (Len(buf) - off') = received
    <3>1. /\ off \in Int /\ received \in Int /\ n \in Int
          /\ Len(got) \in Int /\ Len(buf) \in Int
      BY <1>2, LenProperties DEF TypeOK, BytesOK
    <3>2. off' = off + n /\ Len(got') = Len(got) + n
      BY <1>1, <1>3
    <3> HIDE DEF IInv
    <3>3. QED BY <2>1, <3>1, <3>2
  <2>3. QED BY <1>1, <1>3, <2>1, <2>2 DEF BytesInOrder, Unread
<1>7. NoLostWakeup'
  BY <1>1 DEF NoLostWakeup
<1>8. BufferBounded'
  BY <1>1 DEF BufferBounded, producerVars
<1>9. Phases'
  <2>1. off' <= Len(got')
    BY <1>1, <1>2, <1>3 DEF Phases, TypeOK, BytesOK
  <2>2. QED BY <1>1, <2>1 DEF Phases, producerVars
<1>10. QED BY <1>4, <1>5, <1>6, <1>7, <1>8, <1>9 DEF TypeOK

\* A buffered answer fills an untouched stream in one piece.
LEMMA BufferedStep ==
  ASSUME IInv, NEW t \in Transports, NEW st \in Statuses, NEW n \in 0..MaxBody,
         NEW code \in {0, Failed}, OpenBuffered(t, st, n, code)
  PROVE  IInv'
<1> USE HttpStreamAssumption DEF IInv
<1>1. /\ cp = "idle" /\ parked = {} /\ off = 0 /\ received = 0 /\ got = <<>>
      /\ ~done
  BY DEF OpenBuffered, Phases
<1>2. /\ headersReady' = TRUE /\ done' = TRUE /\ status' = st
      /\ contentLength' \in {n, -1}
      /\ transportError' \in {0, Failed}
      /\ buf' = NewBytes(n) /\ received' = n
      /\ transport' = t /\ t \in {"fixture", "subprocess"}
      /\ pp' = "over" /\ rc' = code /\ cp' = "waitHeaders"
      /\ UNCHANGED <<aborted, off, parked, chunk, want, got, result>>
  BY DEF OpenBuffered, FillBuffered, Failed
<1>3. buf' \in Seq(Nat) /\ Len(buf') = n /\ \A i \in 1..n : buf'[i] = 0 + i
  BY <1>1, <1>2, IsASeq DEF NewBytes
<1>4. Len(<<>>) = 0 /\ <<>> \in Seq(Nat)
  BY EmptySeq
<1>5. FlagsOK'
  BY <1>2 DEF TypeOK, FlagsOK, Lengths
<1>6. BytesOK'
  BY <1>1, <1>2, <1>3 DEF TypeOK, BytesOK
<1>7. ThreadsOK'
  BY <1>2 DEF TypeOK, ThreadsOK
<1>8. Numbered(buf', received') /\ Numbered(<<>>, 0)
  BY <1>2, <1>3, <1>4 DEF Numbered
<1>9. BytesInOrder'
  BY <1>1, <1>2, <1>3, <1>4, <1>8 DEF BytesInOrder, Unread
<1>10. NoLostWakeup'
  BY <1>1, <1>2 DEF NoLostWakeup
<1>11. BufferBounded'
  BY <1>2 DEF BufferBounded
<1>12. result # "end"
  BY <1>1 DEF Phases
<1>13. Phases'
  BY <1>1, <1>2, <1>4, <1>12 DEF Phases
<1>14. QED BY <1>5, <1>6, <1>7, <1>9, <1>10, <1>11, <1>13 DEF TypeOK

LEMMA StepInv == IInv /\ [Next]_vars => IInv'
<1> SUFFICES ASSUME IInv, [Next]_vars PROVE IInv'
  OBVIOUS
<1>1. CASE UNCHANGED vars
  BY <1>1 DEF vars, streamVars, producerVars, consumerVars, IInv, TypeOK,
      FlagsOK, BytesOK, ThreadsOK, BytesInOrder, Unread, NoLostWakeup, PushWait,
      HeadersWait, ReadWait, BufferBounded, Phases
<1>2. CASE Producer
  BY <1>2, QuietSteps, FlagSteps, PushStep DEF Producer
<1>3. CASE Calls
  BY <1>3, QuietSteps, FlagSteps, BufferedStep DEF Calls
<1>4. CASE InCall
  BY <1>4, QuietSteps, FlagSteps, ReadStep DEF InCall
<1>5. QED BY <1>1, <1>2, <1>3, <1>4 DEF Next

\* The invariant the theorems below rest on holds in every reachable state.
THEOREM Invariant == Spec => []IInv
  BY InitInv, StepInv, PTL DEF Spec
-----------------------------------------------------------------------------
(* The theorems. *)

\* Every variable keeps its type and the read offset stays in the buffer, for
\* every cap, body and read length (Stream's buf_ and off_).
THEOREM TypeCorrect == Spec => []TypeOK
<1>1. IInv => TypeOK
  BY DEF IInv
<1>2. QED BY <1>1, Invariant, PTL

\* However the transfer is cut into chunks and reads, the firmware gets every
\* byte once and in order (push against read).
THEOREM InOrder == Spec => []BytesInOrder
<1>1. IInv => BytesInOrder
  BY DEF IInv
<1>2. QED BY <1>1, Invariant, PTL

\* No thread sleeps on the condition variable with something to do, so the two
\* never wait for each other.
THEOREM Wakeups == Spec => []NoLostWakeup
<1>1. IInv => NoLostWakeup
  BY DEF IInv
<1>2. QED BY <1>1, Invariant, PTL

\* The memory a slow reader costs on a threaded transport is bounded by twice
\* the cap and one chunk.
THEOREM Memory == Spec => []BufferBounded
<1>1. IInv => BufferBounded
  BY DEF IInv
<1>2. QED BY <1>1, Invariant, PTL

\* The head is written once: a later didReceiveResponse, or the end of a
\* transfer, leaves the status and length the firmware read.
THEOREM StableHead == Spec => HeadIsStable
<1>1. IInv /\ [Next]_vars =>
        [headersReady => UNCHANGED <<status, contentLength>>]_vars
  <2> SUFFICES ASSUME IInv, Next, headersReady
               PROVE  UNCHANGED <<status, contentLength>>
    OBVIOUS
  <2> USE DEF streamVars
  <2>1. CASE Producer
    BY <2>1 DEF Producer, CannotStart, Start, PushParks, Push, PushRefused,
       Finish, Announce, Receive, End, FinishStream, Park, AppendChunk, Hold,
       SetHeaders
  <2>2. CASE Calls
    <3>1. cp = "idle" => ~headersReady
      BY DEF IInv, Phases
    <3>2. QED BY <2>2, <3>1 DEF Calls, OpenThreaded, OpenBuffered, Read, Close,
         AbortStream
  <2>3. CASE InCall
    BY <2>3 DEF InCall, OpenParks, OpenReturns, ReadParks, ReadBytes,
       ReadNothing, Park, AbortStream
  <2>4. QED BY <2>1, <2>2, <2>3 DEF Next
<1>2. QED BY <1>1, Invariant, PTL DEF Spec, HeadIsStable
-----------------------------------------------------------------------------
(* A clean end is the transport's own. *)

\* The code recorded at the end is the transport's.  The curl subprocess is the
\* one transport whose code fillBuffered drops.
Recorded == transport # "subprocess" /\ done => transportError = rc

LEMMA RecordedStep == IInv /\ Recorded /\ [Next]_vars => Recorded'
<1> SUFFICES ASSUME IInv, Recorded, [Next]_vars PROVE Recorded'
  OBVIOUS
<1> USE DEF Recorded, streamVars, producerVars, consumerVars
<1>1. done <=> pp = "over"
  BY DEF IInv, Phases
<1>2. CASE UNCHANGED vars
  BY <1>2 DEF vars
<1>3. CASE Producer
  BY <1>1, <1>3 DEF Producer, CannotStart, Start, PushParks, Push, PushRefused,
     Finish, Announce, Receive, End, FinishStream, Park, AppendChunk, Hold,
     SetHeaders
<1>4. CASE Calls
  <2>1. ASSUME NEW t \in Transports, NEW st \in Statuses, NEW n \in 0..MaxBody,
               NEW e \in {0, Failed}, OpenBuffered(t, st, n, e)
        PROVE  Recorded'
    <3>1. (t = "fixture" /\ e = 0) \/ transport' = "subprocess"
      BY <2>1 DEF OpenBuffered
    <3>2. QED BY <2>1, <3>1 DEF OpenBuffered, FillBuffered
  <2>2. CASE ~\E t \in Transports, st \in Statuses, n \in 0..MaxBody,
                e \in {0, Failed} : OpenBuffered(t, st, n, e)
    BY <1>1, <1>4, <2>2 DEF Calls, OpenThreaded, Read, Close, AbortStream, IInv,
       Phases
  <2>3. QED BY <2>1, <2>2
<1>5. CASE InCall
  BY <1>5 DEF InCall, OpenParks, OpenReturns, ReadParks, ReadBytes,
     ReadNothing, Park, AbortStream
<1>6. QED BY <1>2, <1>3, <1>4, <1>5 DEF Next

LEMMA RecordedIsHonest ==
  IInv /\ Recorded /\ transport # "subprocess" => EndIsHonest
<1> SUFFICES ASSUME IInv, Recorded, transport # "subprocess" PROVE EndIsHonest
  OBVIOUS
<1>1. Len(got) + (Len(buf) - off) = received
  BY DEF IInv, BytesInOrder, Unread
<1>2. Len(got) \in Nat /\ Len(buf) \in Nat /\ off \in Nat
  BY LenProperties DEF IInv, TypeOK, BytesOK
<1>3. Len(buf) - off = 0 => Len(got) = received
  BY <1>1, <1>2
<1>4. off = Len(buf) => Len(buf) - off = 0
  BY <1>2
<1>5. QED BY <1>3, <1>4
     DEF IInv, Phases, Recorded, EndIsHonest, Complete, Unread

\* On every transport but the curl subprocess, a clean end from read() and a
\* true complete() mean the transport ended clean with every byte handed over.
THEOREM HonestEnd ==
  ASSUME "subprocess" \notin Transports
  PROVE  Spec => []EndIsHonest
<1>1. Init => Recorded
  BY DEF Init, Recorded
<1>2. IInv => transport # "subprocess"
  BY DEF IInv, TypeOK, ThreadsOK
<1>3. QED BY <1>1, <1>2, Invariant, RecordedStep, RecordedIsHonest, PTL DEF Spec

\* Nor does the subprocess's presence in a build spoil a stream that is not its:
\* a true complete() of a cut transfer (SimHttpStream.h:126-127 against :169) is
\* always of a transfer that a subprocess fetched.
THEOREM OnlySubprocessLies ==
  Spec => [](transport # "subprocess" => EndIsHonest /\ CompleteMeansClean)
<1>1. Init => Recorded
  BY DEF Init, Recorded
<1>2. EndIsHonest => CompleteMeansClean
  BY DEF EndIsHonest, CompleteMeansClean
<1>3. QED BY <1>1, <1>2, Invariant, RecordedStep, RecordedIsHonest, PTL DEF Spec
-----------------------------------------------------------------------------
(* The stream is the pipe its reader was promised. *)

\* A read is a delivery of the next n bytes of the pipe.
LEMMA ReadDelivers ==
  ASSUME IInv, ReadBytes
  PROVE  Pipe!Deliver
<1> DEFINE n == Lesser(want, Unread)
           t == [i \in 1..n |-> Len(got) + i]
           s == SubSeq(buf, off + 1, off + n)
<1>1. /\ got' = got \o s /\ result' = "data" /\ off < Len(buf)
      /\ cp = "reading"
      /\ UNCHANGED <<done, transportError, aborted, received>>
  BY DEF ReadBytes
<1>2. /\ buf \in Seq(Nat) /\ got \in Seq(Nat) /\ off \in 0..Len(buf)
      /\ received \in Nat
      /\ Numbered(buf, received)
      /\ Len(got) + (Len(buf) - off) = received
  BY DEF IInv, TypeOK, BytesOK, BytesInOrder, Unread
<1>3. want \in Nat \ {0}
  BY <1>1 DEF IInv, TypeOK, BytesOK, Phases
<1>4. n \in 1..(Len(buf) - off)
  BY <1>1, <1>2, <1>3 DEF Lesser, Unread
<1> HIDE DEF n
<1>5. /\ s \in Seq(Nat) /\ Len(s) = n
      /\ \A i \in 1..n : s[i] = buf[off + i]
  <2>1. n \in 0..(Len(buf) - off)
    BY <1>2, <1>4
  <2> HIDE DEF IInv
  <2>2. QED BY <1>2, <2>1, Slice
<1>6. t \in Seq(Nat) /\ Len(t) = n /\ \A i \in 1..n : t[i] = Len(got) + i
  BY <1>2, <1>4, IsASeq
<1> HIDE DEF s, t
<1>7. ASSUME NEW i \in 1..n
      PROVE  s[i] = Len(got) + i
  <2>1. off + i \in 1..Len(buf)
    BY <1>2, <1>4
  <2>2. s[i] = received - Len(buf) + (off + i)
    BY <1>5, <2>1, <1>2 DEF Numbered
  <2>3. received - Len(buf) + (off + i) = Len(got) + i
    BY <1>2
  <2>4. QED BY <2>2, <2>3
<1>8. s = t
  BY <1>5, <1>6, <1>7, SeqEqual
<1>9. n \in 1..(received - Len(got))
  BY <1>2, <1>4
<1>10. got' = got \o Pipe!NextBytes(n)
  BY <1>1, <1>8 DEF t, Pipe!NextBytes
<1>11. QED BY <1>1, <1>9, <1>10 DEF Pipe!Deliver

\* Every step of the two threads is one of the pipe's or none of its business:
\* chunking, waking and compaction are invisible to the reader.
THEOREM StreamIsPipe == Spec => PipeSpec
<1>1. Init => Pipe!Init
  BY DEF Init, Pipe!Init
<1>2. IInv /\ [Next]_vars => [Pipe!Next]_(Pipe!pvars)
  <2> SUFFICES ASSUME IInv, [Next]_vars
               PROVE  Pipe!Next \/ UNCHANGED Pipe!pvars
    OBVIOUS
  <2> USE DEF streamVars, producerVars, consumerVars, Pipe!pvars
  <2>1. received \in Nat /\ chunk \in Nat /\ transportError \in {0, Failed}
    BY HttpStreamAssumption DEF IInv, TypeOK, FlagsOK, BytesOK
  <2>2. done <=> pp = "over"
    BY DEF IInv, Phases
  <2>3. CASE UNCHANGED vars
    BY <2>3 DEF vars
  <2>4. CASE Start \/ PushParks \/ PushRefused \/ OpenParks \/ ReadParks
    BY <2>4 DEF Start, PushParks, PushRefused, OpenParks, ReadParks, Park
  <2>5. CASE CannotStart \/ Finish
    <3>1. UNCHANGED <<received, got, aborted, result>> /\ done' = TRUE /\ ~done
      BY <2>2, <2>5 DEF CannotStart, Finish, FinishStream
    <3>2. Pipe!Arrive
      BY <2>1, <3>1 DEF Pipe!Arrive
    <3>3. QED BY <3>2 DEF Pipe!Next
  <2>6. CASE Push
    <3>1. /\ ~done /\ ~aborted /\ received' = received + chunk
          /\ UNCHANGED <<done, transportError, aborted, got, result>>
      BY <2>2, <2>6 DEF Push, AppendChunk, Hold
    <3>2. Pipe!Arrive
      BY <2>1, <3>1 DEF Pipe!Arrive
    <3>3. QED BY <3>2 DEF Pipe!Next
  <2>7. CASE \/ \E st \in Statuses, len \in Lengths : Announce(st, len)
             \/ \E n \in 1..MaxChunk : Receive(n)
             \/ \E e \in {0, Failed} : End(e)
    BY <2>7 DEF Announce, SetHeaders, Receive, End
  <2>8. CASE \/ \E t \in Transports : OpenThreaded(t)
             \/ \E len \in 1..MaxRead : Read(len)
    BY <2>8 DEF OpenThreaded, Read
  <2>9. ASSUME NEW t \in Transports, NEW st \in Statuses, NEW n \in 0..MaxBody,
               NEW e \in {0, Failed}, OpenBuffered(t, st, n, e)
        PROVE  Pipe!Next
    <3>1. /\ ~done /\ done' = TRUE /\ received = 0 /\ received' = n
          /\ ~aborted /\ UNCHANGED <<aborted, got, result>>
      BY <2>2, <2>9 DEF OpenBuffered, FillBuffered, IInv, Phases
    <3>2. Pipe!Arrive
      BY <2>1, <3>1, HttpStreamAssumption DEF Pipe!Arrive
    <3>3. QED BY <3>2 DEF Pipe!Next
  <2>10. CASE OpenReturns \/ Close
    <3>1. UNCHANGED <<received, got, done, transportError, result>>
      BY <2>10 DEF OpenReturns, Close, AbortStream
    <3>2. aborted' = TRUE \/ UNCHANGED aborted
      BY <2>10 DEF OpenReturns, Close, AbortStream
    <3>3. QED BY <3>1, <3>2 DEF Pipe!Next, Pipe!Close
  <2>11. CASE ReadBytes
    BY <2>11, ReadDelivers DEF Pipe!Next
  <2>12. CASE ReadNothing
    <3>1. Len(got) = received
      <4>1. Len(got) + (Len(buf) - off) = received
        BY DEF IInv, BytesInOrder, Unread
      <4>2. Len(buf) - off = 0 /\ Len(got) \in Nat
        BY <2>12, LenProperties DEF ReadNothing, IInv, TypeOK, BytesOK
      <4>3. QED BY <4>1, <4>2
    <3>2. Pipe!TellEnd \/ Pipe!TellError
      BY <2>1, <2>12, <3>1 DEF ReadNothing, Pipe!TellEnd, Pipe!TellError
    <3>3. QED BY <3>2 DEF Pipe!Next
  <2>13. QED BY <2>3, <2>4, <2>5, <2>6, <2>7, <2>8, <2>9, <2>10, <2>11, <2>12
            DEF Next, Producer, Calls, InCall
<1>3. QED BY <1>1, <1>2, Invariant, PTL DEF Spec, PipeSpec, Pipe!Spec
-----------------------------------------------------------------------------
(* Whoever waits is waited for: what CallsReturn and AbortEndsTransfer rest on. *)

\* A sleeper always has somebody awake who can still wake it: the reader a
\* transfer that has not ended and does not sleep, the producer a reader that
\* has not given up and does not sleep (SimHttpStream.h's three cv_.wait).
SleepersHaveAWaker ==
  /\ "consumer" \in parked =>
       "producer" \notin parked /\ pp \in {"starting", "transfer", "pushing", "ending"}
  /\ "producer" \in parked =>
       "consumer" \notin parked /\ ~aborted /\ cp \in {"waitHeaders", "open", "reading"}

\* Once the reader is done with the stream it is marked, so a push is refused;
\* and nobody pushes before the head.
GaveUp ==
  /\ cp \in {"failed", "closed"} => aborted
  /\ pp = "pushing" => headersReady

LEMMA GaveUpStep == IInv /\ GaveUp /\ [Next]_vars => GaveUp'
<1> SUFFICES ASSUME IInv, GaveUp, [Next]_vars PROVE GaveUp'
  OBVIOUS
<1> USE DEF GaveUp, streamVars, producerVars, consumerVars
<1>1. CASE UNCHANGED vars
  BY <1>1 DEF vars
<1>2. CASE Producer
  BY <1>2 DEF Producer, CannotStart, Start, PushParks, Push, PushRefused,
     Finish, Announce, Receive, End, FinishStream, Park, AppendChunk, Hold,
     SetHeaders
<1>3. CASE Calls
  BY <1>3 DEF Calls, OpenThreaded, OpenBuffered, FillBuffered, Read, Close, AbortStream
<1>4. CASE InCall
  BY <1>4 DEF InCall, OpenParks, OpenReturns, ReadParks, ReadBytes,
     ReadNothing, Park, AbortStream
<1>5. QED BY <1>1, <1>2, <1>3, <1>4 DEF Next

\* The two threads of a stream are never both asleep, nor one asleep beside one
\* that is gone: no call into the stream can be stranded.
THEOREM NobodyIsStranded == Spec => []SleepersHaveAWaker
<1>1. Init => GaveUp
  BY DEF Init, GaveUp
<1>2. IInv /\ GaveUp => SleepersHaveAWaker
  <2> SUFFICES ASSUME IInv, GaveUp PROVE SleepersHaveAWaker
    OBVIOUS
  <2>1. /\ cp \in {"idle", "waitHeaders", "failed", "open", "reading", "closed"}
        /\ pp \in {"off", "starting", "transfer", "pushing", "ending", "over"}
        /\ done <=> pp = "over"
        /\ done => headersReady
        /\ cp = "idle" => parked = {}
        /\ cp # "idle" => pp # "off"
    BY DEF IInv, TypeOK, ThreadsOK, Phases
  <2>2. ASSUME "consumer" \in parked
        PROVE  "producer" \notin parked /\ pp \in {"starting", "transfer", "pushing", "ending"}
    <3>1. cp # "idle" /\ pp # "over"
      BY <2>1, <2>2 DEF IInv, NoLostWakeup, HeadersWait, ReadWait
    <3>2. ASSUME "producer" \in parked PROVE FALSE
      <4>1. Unread >= Cap
        BY <3>2, HttpStreamAssumption DEF IInv, NoLostWakeup, PushWait, TypeOK, BytesOK, Unread
      <4>2. off = Len(buf) \/ (cp = "waitHeaders" /\ ~headersReady)
        BY <2>2 DEF IInv, NoLostWakeup, ReadWait, HeadersWait, TypeOK, BytesOK
      <4>3. CASE off = Len(buf)
        BY <4>1, <4>3, HttpStreamAssumption DEF Unread, IInv, TypeOK, BytesOK
      <4>4. CASE cp = "waitHeaders" /\ ~headersReady
        BY <3>2, <4>4 DEF IInv, NoLostWakeup, GaveUp
      <4> QED BY <4>2, <4>3, <4>4
    <3> QED BY <2>1, <3>1, <3>2
  <2>3. ASSUME "producer" \in parked
        PROVE  ~aborted /\ cp \in {"waitHeaders", "open", "reading"}
    BY <2>1, <2>3 DEF IInv, NoLostWakeup, PushWait, GaveUp
  <2> QED BY <2>2, <2>3 DEF SleepersHaveAWaker
<1>3. QED BY <1>1, <1>2, Invariant, GaveUpStep, PTL DEF Spec
===============================================================================
