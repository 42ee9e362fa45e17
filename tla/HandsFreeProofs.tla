--------------------------- MODULE HandsFreeProofs ---------------------------
(***************************************************************************)
(* That speech keeps to the reader, for any book, any bound on blank pages *)
(* and any number of taps, settings, interruptions and reboots.            *)
(*                                                                         *)
(* The invariant adds to SpeechFollows what keeps a dead utterance from    *)
(* being taken for the living one: of everything the engine has yet to say *)
(* or to report, at most one thing has the current serial.                 *)
(***************************************************************************)
EXTENDS HandsFree, SequenceTheorems, TLAPS

AnyLucks == [sticks : BOOLEAN, refused : BOOLEAN,
             offset : {"fits", "beyond", "broken"}]
AnyPages == {Nothing, Cleared} \cup Pages

Heard(a) == a.held => a.category = "Playback"
OffWhenDisabled(a) == ~a.on => a.state = "Off"
Silent(a) == a.voice = <<>>

\* One utterance, of the current serial and of the page, and no event of that
\* serial is under way.
Speaks(a) ==
  /\ Len(a.voice) = 1 /\ a.voice[1].current
  /\ Live(a) /\ a.paused = (a.state = "Paused")
  /\ a.voice[1].known => a.voice[1].page = a.page /\ a.text = a.page
  /\ \A i \in 1..Len(a.events) : ~a.events[i].current

Good(a) ==
  /\ a \in AloudStates /\ Heard(a) /\ OffWhenDisabled(a)
  /\ Silent(a) \/ Speaks(a)

\* Between two decisions: the voice is stopped, whatever the state.
Quiet(a) == a \in AloudStates /\ Heard(a) /\ Silent(a)
-----------------------------------------------------------------------------
\* A function on 1..n is a sequence of length n.
LEMMA FunIsSeq ==
  ASSUME NEW S, NEW n \in Nat, NEW f \in [1..n -> S]
  PROVE  f \in Seq(S) /\ Len(f) = n
OBVIOUS

\* Of a sequence of one nothing is left behind its head.
LEMMA OnlyOne ==
  ASSUME NEW S, NEW s \in Seq(S), Len(s) = 1
  PROVE  Tail(s) = <<>> /\ Head(s) \in S
<1>1. Tail(s) \in Seq(S) /\ Len(Tail(s)) = 0
  OBVIOUS
<1>2. Tail(s) = <<>>
  BY <1>1, EmptySeq
<1>3. Head(s) \in S
  OBVIOUS
<1> QED BY <1>2, <1>3

\* What is outdated is as long as before, and nothing of it is current.
LEMMA OutdatedVoice ==
  ASSUME NEW s \in Seq(Utterances)
  PROVE  Outdated(s) \in Seq(Utterances) /\ Len(Outdated(s)) = Len(s)
<1>1. \A e \in Utterances : [e EXCEPT !.current = FALSE] \in Utterances
  BY DEF Utterances
<1>2. Len(s) \in Nat /\ \A i \in 1..Len(s) : s[i] \in Utterances
  OBVIOUS
<1>3. Outdated(s) \in [1..Len(s) -> Utterances]
  BY <1>1, <1>2, Zenon DEF Outdated
<1> QED BY <1>2, <1>3, FunIsSeq

LEMMA OutdatedEvents ==
  ASSUME NEW s \in Seq(EngineEvents)
  PROVE  /\ Outdated(s) \in Seq(EngineEvents)
         /\ \A i \in 1..Len(Outdated(s)) : ~Outdated(s)[i].current
<1>1. \A e \in EngineEvents : /\ [e EXCEPT !.current = FALSE] \in EngineEvents
                               /\ ~[e EXCEPT !.current = FALSE].current
  BY DEF EngineEvents
<1>2. Len(s) \in Nat /\ \A i \in 1..Len(s) : s[i] \in EngineEvents
  OBVIOUS
<1>3. Outdated(s) \in [1..Len(s) -> EngineEvents]
  BY <1>1, <1>2, Zenon DEF Outdated
<1>4. Outdated(s) \in Seq(EngineEvents) /\ Len(Outdated(s)) = Len(s)
  BY <1>2, <1>3, FunIsSeq
<1>5. \A i \in 1..Len(s) : Outdated(s)[i] = [s[i] EXCEPT !.current = FALSE]
  BY Zenon DEF Outdated
<1>6. \A i \in 1..Len(s) : ~Outdated(s)[i].current
  BY <1>1, <1>2, <1>5, Zenon
<1> QED BY <1>4, <1>6

\* Stopping makes it quiet, and leaves the rest as it was.
LEMMA StopQuiets ==
  ASSUME NEW a \in AloudStates, Heard(a), NEW luck \in AnyLucks
  PROVE  /\ Quiet(StopVoice(a, luck))
         /\ StopVoice(a, luck).state = a.state /\ StopVoice(a, luck).on = a.on
<1> DEFINE told == [i \in 1..Len(a.voice) |->
                [kind |-> "canceled", current |-> a.voice[i].current]]
<1>1. told \in Seq(EngineEvents)
  <2>0. a.voice \in Seq(Utterances)
    BY DEF AloudStates
  <2>1. Len(a.voice) \in Nat /\ \A i \in 1..Len(a.voice) : a.voice[i] \in Utterances
    BY <2>0
  <2>3. \A i \in 1..Len(a.voice) : a.voice[i].current \in BOOLEAN
    BY <2>1 DEF Utterances
  <2>2. told \in [1..Len(a.voice) -> EngineEvents]
    BY <2>3 DEF EngineEvents
  <2> QED BY <2>1, <2>2, FunIsSeq
<1>2. a.events \o told \in Seq(EngineEvents)
  BY <1>1 DEF AloudStates
<1>3. <<>> \in Seq(Utterances)
  OBVIOUS
<1>4. StopVoice(a, luck) = [a EXCEPT !.voice = <<>>, !.paused = @ /\ luck.sticks,
                                     !.events = a.events \o told]
  BY DEF StopVoice, AloudStates
<1> HIDE DEF told
<1>5. (a.paused /\ luck.sticks) \in BOOLEAN
  OBVIOUS
<1> QED
  BY <1>2, <1>3, <1>4, <1>5 DEF AloudStates, Quiet, Heard, Silent

\* Where it may be live at all it is stopped.
LEMMA StopIfLiveQuiets ==
  ASSUME NEW a \in AloudStates, Heard(a), Silent(a) \/ Live(a),
         NEW luck \in AnyLucks
  PROVE  /\ Quiet(StopIfLive(a, luck))
         /\ StopIfLive(a, luck).state = a.state /\ StopIfLive(a, luck).on = a.on
<1>1. CASE Live(a)
  BY <1>1, StopQuiets DEF StopIfLive
<1>2. CASE ~Live(a)
  BY <1>2 DEF StopIfLive, Quiet
<1> QED BY <1>1, <1>2

LEMMA QuietIsGood ==
  ASSUME NEW a, Quiet(a), OffWhenDisabled(a) PROVE Good(a)
BY DEF Quiet, Good

\* A good state is silent or live.
LEMMA GoodIsSilentOrLive ==
  ASSUME NEW a, Good(a) PROVE a \in AloudStates /\ Heard(a) /\ (Silent(a) \/ Live(a))
BY DEF Good, Speaks

\* Asking for the next page says nothing.
LEMMA TurnKeepsGood ==
  ASSUME NEW a, Quiet(a), OffWhenDisabled(a) PROVE Good(QueueTurn(a))
<1> DEFINE count == IF a.heardOut \/ a.blanks > MaxSkips THEN a.blanks ELSE a.blanks + 1
<1>1. count \in 0..(MaxSkips + 1)
  BY SkipsAssumption DEF Quiet, AloudStates
<1>2. QueueTurn(a) = [a EXCEPT !.tap = TRUE, !.awaiting = TRUE, !.blanks = count]
  BY DEF QueueTurn, Quiet, AloudStates
<1> HIDE DEF count
<1>3. Quiet(QueueTurn(a)) /\ OffWhenDisabled(QueueTurn(a))
  BY <1>1, <1>2 DEF Quiet, AloudStates, Heard, Silent, OffWhenDisabled
<1> QED BY <1>3, QuietIsGood

\* A new utterance is the only one of its serial, and plays.
LEMMA StartIsGood ==
  ASSUME NEW a, Quiet(a), a.on, a.state = "Speaking", NEW luck \in AnyLucks
  PROVE  Good(Start(a, luck))
<1>0. a \in AloudStates /\ Heard(a) /\ a.voice = <<>>
  BY DEF Quiet, Silent
<1>1. CASE Start(a, luck) = a
  BY <1>1, QuietIsGood DEF OffWhenDisabled
<1> DEFINE sessioned == [EnsureSession(a, luck) EXCEPT !.paused = FALSE]
           ready == NewSerial(sessioned)
           said == [page |-> a.page, known |-> a.text = a.page, current |-> TRUE]
<1>2. /\ sessioned \in AloudStates /\ sessioned.voice = <<>> /\ sessioned.on
      /\ sessioned.state = "Speaking" /\ sessioned.paused = FALSE
      /\ sessioned.held => sessioned.category = "Playback"
      /\ sessioned.page = a.page /\ sessioned.text = a.text
  BY <1>0 DEF EnsureSession, AloudStates, AnyLucks, Heard
<1> HIDE DEF sessioned
<1>3. /\ Outdated(<<>>) = <<>>
      /\ Outdated(sessioned.events) \in Seq(EngineEvents)
      /\ \A i \in 1..Len(Outdated(sessioned.events)) : ~Outdated(sessioned.events)[i].current
  <2>1. sessioned.events \in Seq(EngineEvents)
    BY <1>2 DEF AloudStates
  <2>2. <<>> \in Seq(Utterances) /\ Len(<<>>) = 0
    OBVIOUS
  <2>3. Outdated(<<>>) \in Seq(Utterances) /\ Len(Outdated(<<>>)) = Len(<<>>)
    BY <2>2, OutdatedVoice
  <2>4. Outdated(<<>>) = <<>>
    BY <2>2, <2>3
  <2> QED BY <2>1, <2>4, OutdatedEvents
<1>4. /\ ready \in AloudStates /\ ready.voice = <<>> /\ ready.on
      /\ ready.state = "Speaking" /\ ready.paused = FALSE
      /\ ready.held => ready.category = "Playback"
      /\ ready.page = a.page /\ ready.text = a.text
      /\ \A i \in 1..Len(ready.events) : ~ready.events[i].current
  BY <1>2, <1>3 DEF NewSerial, AloudStates
<1> HIDE DEF ready
<1>5. CASE Start(a, luck) = ready
  BY <1>4, <1>5 DEF Good, Heard, OffWhenDisabled, Silent
<1>6. CASE a.page # Cleared /\ Start(a, luck) = [ready EXCEPT !.voice = Append(@, said), !.heardOut = FALSE]
  <2>1. said \in Utterances /\ said.current /\ said.page = a.page
        /\ (said.known <=> a.text = a.page)
    BY <1>0, <1>6 DEF Utterances, AloudStates
  <2> HIDE DEF said
  <2>2. Append(ready.voice, said) = <<said>> /\ <<said>> \in Seq(Utterances)
        /\ Len(<<said>>) = 1 /\ <<said>>[1] = said
    BY <1>4, <2>1
  <2>3. Start(a, luck) = [ready EXCEPT !.voice = <<said>>, !.heardOut = FALSE]
    BY <1>6, <1>4, <2>2 DEF AloudStates
  <2> DEFINE t == Start(a, luck)
  <2>4. /\ t \in AloudStates /\ t.voice = <<said>> /\ t.on
        /\ t.state = "Speaking" /\ t.paused = FALSE
        /\ t.held => t.category = "Playback"
        /\ t.page = a.page /\ t.text = a.text /\ t.events = ready.events
    BY <1>4, <2>2, <2>3 DEF AloudStates
  <2> HIDE DEF t
  <2>5. Speaks(t)
    BY <1>4, <2>1, <2>2, <2>4 DEF Speaks, Live
  <2>6. Good(t)
    BY <2>4, <2>5 DEF Good, Heard, OffWhenDisabled
  <2> QED BY <2>6 DEF t
<1> QED BY <1>1, <1>5, <1>6 DEF Start, ready, sessioned, said
-----------------------------------------------------------------------------
(* The decisions. *)

\* Turning read aloud off silences it; turning it on says nothing.
LEMMA EnabledKeepsGood ==
  ASSUME NEW a, Good(a), NEW on \in BOOLEAN, NEW luck \in AnyLucks
  PROVE  Good(SetEnabled(a, on, luck))
<1>1. CASE on \/ ~a.on
  <2>1. SetEnabled(a, on, luck) = [a EXCEPT !.on = on]
    BY <1>1 DEF SetEnabled
  <2> QED BY <1>1, <2>1 DEF Good, AloudStates, Heard, OffWhenDisabled, Silent, Speaks, Live
<1>2. CASE ~(on \/ ~a.on)
  <2> DEFINE q == StopIfLive(a, luck)
  <2>1. Quiet(q)
    BY GoodIsSilentOrLive, StopIfLiveQuiets
  <2>2. SetEnabled(a, on, luck) = [q EXCEPT !.on = FALSE, !.state = "Off"]
    BY <1>2 DEF SetEnabled
  <2> HIDE DEF q
  <2>3. Quiet(SetEnabled(a, on, luck)) /\ OffWhenDisabled(SetEnabled(a, on, luck))
    BY <2>1, <2>2 DEF Quiet, AloudStates, CoreStates, Heard, Silent, OffWhenDisabled
  <2> QED BY <2>3, QuietIsGood
<1> QED BY <1>1, <1>2

\* A page without words: a turn, or the end.
LEMMA BlankIsGood ==
  ASSUME NEW a, Quiet(a), a.on PROVE Good(BlankArrived(a))
<1> DEFINE blank == [a EXCEPT !.text = Cleared, !.heardOut = FALSE]
           turn == [blank EXCEPT !.skips = blank.skips + 1, !.state = "AwaitingNextPage"]
<1>1. Quiet(blank) /\ blank.on /\ blank.skips = a.skips
  BY DEF Quiet, AloudStates, Heard, Silent
<1>2. CASE a.skips < MaxSkips
  <2>1. BlankArrived(a) = QueueTurn(turn)
    BY <1>2 DEF BlankArrived
  <2> HIDE DEF blank
  <2>2. a.skips + 1 \in 0..MaxSkips
    BY <1>2, SkipsAssumption DEF Quiet, AloudStates
  <2>3. Quiet(turn) /\ turn.on
    BY <1>1, <2>2 DEF Quiet, AloudStates, CoreStates, Heard, Silent
  <2> HIDE DEF turn
  <2> QED BY <2>1, <2>3, TurnKeepsGood DEF OffWhenDisabled
<1>3. CASE ~(a.skips < MaxSkips)
  <2>1. BlankArrived(a) = [blank EXCEPT !.state = "Off"]
    BY <1>3 DEF BlankArrived
  <2> HIDE DEF blank
  <2>2. Quiet(BlankArrived(a)) /\ OffWhenDisabled(BlankArrived(a))
    BY <1>1, <2>1 DEF Quiet, AloudStates, CoreStates, Heard, Silent, OffWhenDisabled
  <2> QED BY <2>2, QuietIsGood
<1> QED BY <1>2, <1>3

\* Whatever page arrives, the utterance that goes on is of that page.
LEMMA PageKeepsGood ==
  ASSUME NEW a, Good(a), NEW page \in AnyPages, NEW luck \in AnyLucks
  PROVE  Good(PageArrived(a, page, luck))
<1> DEFINE b == [a EXCEPT !.page = TextOf(page), !.awaiting = FALSE]
           q == StopIfLive(b, luck)
<1>0. 0 \in 0..MaxSkips /\ 0 \in 0..(MaxSkips + 1)
  BY SkipsAssumption
<1>1. PageArrived(a, page, luck) = CoreTakes(b, page, luck)
  BY DEF PageArrived
<1>2. TextOf(page) \in {Cleared} \cup Pages /\ (HasWords(page) => TextOf(page) = page)
  BY DEF TextOf, HasWords
<1>3. /\ b \in AloudStates /\ Heard(b) /\ OffWhenDisabled(b)
      /\ b.voice = a.voice /\ b.state = a.state /\ b.on = a.on /\ b.text = a.text
      /\ b.paused = a.paused /\ b.events = a.events /\ b.page = TextOf(page)
  BY <1>2 DEF Good, AloudStates, Heard, OffWhenDisabled
<1>4. Silent(b) \/ Live(b)
  BY <1>3, GoodIsSilentOrLive DEF Silent, Live
<1> HIDE DEF b
<1>5. CASE ~b.on
  <2>1. Silent(b)
    BY <1>3, <1>4, <1>5 DEF OffWhenDisabled, Live
  <2> QED BY <1>1, <1>3, <1>5, <2>1 DEF CoreTakes, Good
<1>6. CASE b.on /\ Live(b) /\ HasWords(page) /\ page = b.text
  <2>1. CoreTakes(b, page, luck) = b
    BY <1>6 DEF CoreTakes
  <2>2. Silent(a) => Silent(b)
    BY <1>3 DEF Silent
  <2>3. Speaks(a) => Speaks(b)
    BY <1>2, <1>3, <1>6 DEF Speaks, Live
  <2> QED BY <1>1, <1>3, <2>1, <2>2, <2>3 DEF Good
<1>7. CASE b.on /\ ~(Live(b) /\ HasWords(page) /\ page = b.text)
  <2>1. Quiet(q) /\ q.on
    BY <1>3, <1>4, <1>7, StopIfLiveQuiets
  <2> HIDE DEF q
  <2>2. CoreTakes(b, page, luck) =
          IF page = Cleared THEN ReaderExited(q)
          ELSE IF HasWords(page) THEN WordsArrived(q, page, luck)
          ELSE BlankArrived(q)
    BY <1>7 DEF CoreTakes, q
  <2>3. Good(ReaderExited(q))
    <3>1. Quiet(ReaderExited(q)) /\ OffWhenDisabled(ReaderExited(q))
      BY <1>0, <2>1
         DEF ReaderExited, Quiet, AloudStates, CoreStates, Heard, Silent, OffWhenDisabled
    <3> QED BY <3>1, QuietIsGood
  <2>4. ASSUME HasWords(page) PROVE Good(WordsArrived(q, page, luck))
    <3> DEFINE w == [q EXCEPT !.text = page, !.skips = 0, !.state = "Speaking",
                              !.heardOut = FALSE, !.blanks = 0]
    <3>0. page \in Pages
      BY <2>4 DEF HasWords
    <3>1. Quiet(w) /\ w.on /\ w.state = "Speaking"
      BY <1>0, <2>1, <3>0
         DEF Quiet, AloudStates, CoreStates, Heard, Silent
    <3> HIDE DEF w
    <3>2. Good(Start(w, luck))
      BY <3>1, StartIsGood
    <3> QED BY <3>2 DEF WordsArrived, w
  <2>5. Good(BlankArrived(q))
    BY <2>1, BlankIsGood
  <2> QED BY <1>1, <2>2, <2>3, <2>4, <2>5
<1> QED BY <1>5, <1>6, <1>7

\* An event of the current serial finds the voice silent.
LEMMA CurrentEventMeansSilence ==
  ASSUME NEW a, Good(a), a.events # <<>>, a.events[1].current PROVE Silent(a)
<1>1. Len(a.events) \in Nat /\ Len(a.events) > 0
  <2>1. a.events \in Seq(EngineEvents)
    BY DEF Good, AloudStates
  <2> QED BY <2>1
<1>2. 1 \in 1..Len(a.events)
  BY <1>1
<1> QED BY <1>2 DEF Good, Speaks

\* An event is taken off the queue, and dropped or heard.
LEMMA EventKeepsGood ==
  ASSUME NEW a, Good(a), a.events # <<>> PROVE Good(NextHandled(a))
<1> DEFINE h == Handled(a, a.events[1])
<1>1. Good(h) /\ h.events = a.events
  <2>1. CASE ~a.events[1].current
    BY <2>1 DEF Handled
  <2>2. CASE a.events[1].current
    <3>1. Quiet(a) /\ OffWhenDisabled(a)
      BY <2>2, CurrentEventMeansSilence DEF Good, Quiet
    <3>2. Good(UtteranceFinished(a)) /\ UtteranceFinished(a).events = a.events
      <4>1. CASE a.state # "Speaking"
        BY <4>1 DEF UtteranceFinished
      <4>2. CASE a.state = "Speaking"
        <5> DEFINE w == [a EXCEPT !.state = "AwaitingNextPage"]
        <5>1. Quiet(w) /\ OffWhenDisabled(w) /\ w.events = a.events
          BY <3>1, <4>2 DEF Quiet, AloudStates, CoreStates, Heard, Silent, OffWhenDisabled
        <5>2. UtteranceFinished(a) = QueueTurn(w)
          BY <4>2 DEF UtteranceFinished
        <5> HIDE DEF w
        <5>3. QueueTurn(w).events = w.events
          BY <5>1 DEF QueueTurn, Quiet, AloudStates
        <5> QED BY <5>1, <5>2, <5>3, TurnKeepsGood
      <4> QED BY <4>1, <4>2
    <3>3. Good(UtteranceCanceled(a)) /\ UtteranceCanceled(a).events = a.events
      <4>1. /\ Quiet(UtteranceCanceled(a)) /\ OffWhenDisabled(UtteranceCanceled(a))
            /\ UtteranceCanceled(a).events = a.events
        BY <3>1 DEF UtteranceCanceled, Quiet, AloudStates, CoreStates, Heard,
                    Silent, OffWhenDisabled
      <4> QED BY <4>1, QuietIsGood
    <3> QED BY <2>2, <3>2, <3>3 DEF Handled
  <2> QED BY <2>1, <2>2
<1>2. NextHandled(a) = [h EXCEPT !.events = Tail(a.events)]
  <2>1. Head(a.events) = a.events[1]
    BY DEF Good, AloudStates
  <2> QED BY <2>1 DEF NextHandled
<1> HIDE DEF h
<1>3. /\ Tail(a.events) \in Seq(EngineEvents)
      /\ (\A i \in 1..Len(a.events) : ~a.events[i].current)
           => \A i \in 1..Len(Tail(a.events)) : ~Tail(a.events)[i].current
  <2>1. a.events \in Seq(EngineEvents)
    BY DEF Good, AloudStates
  <2> QED BY <2>1
<1> QED BY <1>1, <1>2, <1>3 DEF Good, AloudStates, Heard, OffWhenDisabled, Silent, Speaks, Live

\* The awaited page is no longer waited for.
LEMMA TimeoutKeepsGood ==
  ASSUME NEW a, Good(a) PROVE Good(PageTimeout([a EXCEPT !.awaiting = FALSE]))
BY DEF Good, AloudStates, CoreStates, Heard, OffWhenDisabled, Silent, Speaks, Live, PageTimeout

\* A start from silence.
LEMMA BeginKeepsGood ==
  ASSUME NEW a, Quiet(a), a.on, NEW luck \in AnyLucks PROVE Good(BeginAt(a, luck))
<1> DEFINE w == [a EXCEPT !.state = "Speaking"]
<1>1. Quiet(w) /\ w.on /\ w.state = "Speaking"
  BY DEF Quiet, AloudStates, CoreStates, Heard, Silent
<1> HIDE DEF w
<1>2. Good(Start(w, luck))
  BY <1>1, StartIsGood
<1> QED BY <1>2 DEF BeginAt, w

\* The magic tap pauses, goes on or starts.
LEMMA ToggleKeepsGood ==
  ASSUME NEW a, Good(a), NEW luck \in AnyLucks PROVE Good(ToggleSpeech(a, luck))
<1>1. CASE a.on /\ a.state = "Speaking"
  <2>1. ToggleSpeech(a, luck) = Paused(a)
    BY <1>1 DEF ToggleSpeech
  <2>2. (a.paused \/ a.voice # <<>>) \in BOOLEAN
    BY DEF Good, AloudStates
  <2>3. Good(Paused(a))
    BY <1>1, <2>2
       DEF Paused, Good, AloudStates, CoreStates, Heard, OffWhenDisabled, Silent, Speaks, Live
  <2> QED BY <2>1, <2>3
<1>2. CASE a.on /\ a.state = "Paused"
  <2>1. ToggleSpeech(a, luck) = Resumed(a)
    BY <1>2 DEF ToggleSpeech
  <2>2. Good(Resumed(a))
    BY <1>2 DEF Resumed, Good, AloudStates, CoreStates, Heard, OffWhenDisabled,
                Silent, Speaks, Live
  <2> QED BY <2>1, <2>2
<1>3. CASE a.on /\ a.state = "Off" /\ a.text # Cleared
  <2>1. ToggleSpeech(a, luck) = BeginAt(a, luck)
    BY <1>3 DEF ToggleSpeech
  <2>2. Quiet(a)
    BY <1>3, GoodIsSilentOrLive DEF Quiet, Live
  <2> QED BY <1>3, <2>1, <2>2, BeginKeepsGood
<1>4. CASE ToggleSpeech(a, luck) = a
  BY <1>4
<1> QED BY <1>1, <1>2, <1>3, <1>4 DEF ToggleSpeech

\* A word tapped: stop, or start there.
LEMMA TapKeepsGood ==
  ASSUME NEW a, Good(a), NEW lit \in BOOLEAN, NEW luck \in AnyLucks
  PROVE  Good(TapWord(a, lit, luck))
<1>1. CASE ~a.on \/ a.text = Cleared \/ a.state = "AwaitingNextPage"
  BY <1>1 DEF TapWord
<1>2. CASE ~(~a.on \/ a.text = Cleared \/ a.state = "AwaitingNextPage") /\ Live(a) /\ lit
  <2> DEFINE q == StopVoice(a, luck)
  <2>1. Quiet(q)
    BY StopQuiets DEF Good
  <2>2. TapWord(a, lit, luck) = [q EXCEPT !.state = "Off"]
    BY <1>2 DEF TapWord
  <2> HIDE DEF q
  <2>3. Quiet(TapWord(a, lit, luck)) /\ OffWhenDisabled(TapWord(a, lit, luck))
    BY <2>1, <2>2 DEF Quiet, AloudStates, CoreStates, Heard, Silent, OffWhenDisabled
  <2> QED BY <2>3, QuietIsGood
<1>3. CASE ~(~a.on \/ a.text = Cleared \/ a.state = "AwaitingNextPage") /\ ~(Live(a) /\ lit)
  <2>1. TapWord(a, lit, luck) = BeginAt(StopIfLive(a, luck), luck)
    BY <1>3 DEF TapWord
  <2>2. Quiet(StopIfLive(a, luck)) /\ StopIfLive(a, luck).on
    BY <1>3, GoodIsSilentOrLive, StopIfLiveQuiets
  <2> QED BY <2>1, <2>2, BeginKeepsGood
<1> QED BY <1>1, <1>2, <1>3

\* Another rate: the same page again from where it was.
LEMMA RestartKeepsGood ==
  ASSUME NEW a, Good(a), NEW luck \in AnyLucks PROVE Good(Restart(a, luck))
<1>1. CASE a.on /\ a.state = "Speaking"
  <2>1. Quiet(StopVoice(a, luck)) /\ StopVoice(a, luck).on
    BY <1>1, StopQuiets DEF Good
  <2> QED BY <1>1, <2>1, BeginKeepsGood DEF Restart
<1>2. CASE ~(a.on /\ a.state = "Speaking")
  BY <1>2 DEF Restart
<1> QED BY <1>1, <1>2

\* After the reboot's reset nothing speaks.
LEMMA RebootKeepsGood ==
  ASSUME Good(aloud), NEW luck \in AnyLucks PROVE Good(AloudRebooted(luck))
<1> DEFINE q == StopVoice(aloud, luck)
           s == SetEnabled(q, FALSE, luck)
           n == NewSerial(s)
<1>1. Quiet(q) /\ OffWhenDisabled(q)
  BY StopQuiets DEF Good, OffWhenDisabled
<1> HIDE DEF q
<1>2. Good(s)
  BY <1>1, QuietIsGood, EnabledKeepsGood
<1>3. Silent(s)
  <2>1. StopIfLive(q, luck).voice = <<>>
    BY <1>1, StopIfLiveQuiets DEF Quiet, Silent
  <2>2. q.voice = <<>>
    BY <1>1 DEF Quiet, Silent
  <2>3. StopIfLive(q, luck) \in AloudStates
    BY <1>1, StopIfLiveQuiets DEF Quiet
  <2> QED BY <1>1, <2>1, <2>2, <2>3 DEF SetEnabled, Silent, Quiet, AloudStates
<1> HIDE DEF s
<1>4. Quiet(n) /\ OffWhenDisabled(n)
  <2>1. s.voice \in Seq(Utterances) /\ s.events \in Seq(EngineEvents) /\ s.voice = <<>>
    BY <1>2, <1>3 DEF Good, AloudStates, Silent
  <2>2. Outdated(s.voice) \in Seq(Utterances) /\ Len(Outdated(s.voice)) = Len(s.voice)
    BY <2>1, OutdatedVoice
  <2>3. Outdated(s.voice) = <<>>
    BY <2>1, <2>2
  <2>4. Outdated(s.events) \in Seq(EngineEvents)
    BY <2>1, OutdatedEvents
  <2> QED BY <1>2, <2>2, <2>3, <2>4
          DEF NewSerial, Good, Quiet, AloudStates, Heard, Silent, OffWhenDisabled
<1>5. AloudRebooted(luck) = [n EXCEPT !.page = Cleared, !.awaiting = FALSE, !.tap = FALSE]
  BY DEF AloudRebooted, n, s, q
<1> HIDE DEF n
<1>6. Quiet(AloudRebooted(luck)) /\ OffWhenDisabled(AloudRebooted(luck))
  BY <1>4, <1>5 DEF Quiet, AloudStates, Heard, Silent, OffWhenDisabled
<1> QED BY <1>6, QuietIsGood

\* The engine ends its only utterance, by itself or because of the phone.
LEMMA EngineKeepsGood ==
  ASSUME Good(aloud), aloud.voice # <<>>, NEW kind \in {"finished", "canceled"}
  PROVE  /\ Good(EngineSays(kind))
         /\ Silent(EngineSays(kind))
         /\ Head(aloud.voice).current \in BOOLEAN
<1> DEFINE event == [kind |-> kind, current |-> Head(aloud.voice).current]
<1>1. /\ aloud.voice \in Seq(Utterances) /\ aloud.events \in Seq(EngineEvents)
      /\ Len(aloud.voice) = 1
  BY DEF Good, AloudStates, Speaks, Silent
<1>2. Tail(aloud.voice) = <<>> /\ Head(aloud.voice) \in Utterances
  BY <1>1, OnlyOne
<1>3. event \in EngineEvents
  BY <1>2 DEF EngineEvents, Utterances
<1>4. EngineSays(kind) = [aloud EXCEPT !.voice = <<>>, !.events = Append(aloud.events, event)]
  BY <1>2 DEF EngineSays, Good, AloudStates
<1>5. Append(aloud.events, event) \in Seq(EngineEvents) /\ <<>> \in Seq(Utterances)
  BY <1>1, <1>3
<1> HIDE DEF event
<1>6. Quiet(EngineSays(kind)) /\ OffWhenDisabled(EngineSays(kind))
  BY <1>4, <1>5 DEF Good, Quiet, AloudStates, Heard, Silent, OffWhenDisabled
<1> QED BY <1>2, <1>6, QuietIsGood DEF Quiet, Utterances

\* The rocker takes only a session that is not held.
LEMMA BorrowKeepsGood ==
  ASSUME NEW a, Good(a), NEW refused \in BOOLEAN, RockerTypeOK, Borrow(a, refused)
  PROVE  Good(aloud)' /\ RockerTypeOK'
<1>1. RockerTypeOK'
  BY DEF Borrow, RockerTypeOK, Good, AloudStates
<1>2. CASE a.held
  BY <1>1, <1>2 DEF Borrow
<1>3. CASE ~a.held
  <2>1. aloud' = [a EXCEPT !.category = "Ambient"]
    BY <1>3 DEF Borrow
  <2> DEFINE b == [a EXCEPT !.category = "Ambient"]
  <2>2. Good(b)
    BY <1>3 DEF Good, AloudStates, Heard, OffWhenDisabled, Silent, Speaks, Live
  <2> QED BY <1>1, <2>1, <2>2 DEF Good, Heard, OffWhenDisabled, Silent, Speaks, Live
<1> QED BY <1>2, <1>3
-----------------------------------------------------------------------------
(* The invariant of the whole, and the theorem. *)

HandsInv == Good(aloud) /\ ReaderTypeOK /\ RockerTypeOK

\* As it is launched it says nothing.
LEMMA SilentIsGood == Good(SilentAloud)
<1>1. 0 \in 0..MaxSkips /\ 0 \in 0..(MaxSkips + 1)
  BY SkipsAssumption
<1>2. <<>> \in Seq(Utterances) /\ <<>> \in Seq(EngineEvents)
  OBVIOUS
<1> QED BY <1>1, <1>2 DEF SilentAloud, AloudStates, CoreStates, Good, Heard,
                         OffWhenDisabled, Silent

\* The invariant holds at the launch.
LEMMA InitGood == HandsInit => HandsInv
<1> SUFFICES ASSUME HandsInit PROVE HandsInv
  OBVIOUS
<1>1. ReaderTypeOK
  <2>1. Len(Book) \in Nat
    BY BookAssumption
  <2>2. reader \in ReadersAtLaunch /\ channel = EmptyChannel
    BY DEF HandsInit, ReaderInit
  <2>3. PICK n \in {Closed} \cup (Pages \cap {1}) : reader = [at |-> n, owed |-> n]
    BY <2>2 DEF ReadersAtLaunch
  <2>4. n \in 0..Len(Book) /\ n \in 0..(Len(Book) + 1)
    BY <2>1 DEF Closed, Pages
  <2> QED BY <2>2, <2>3, <2>4 DEF ReaderTypeOK, EmptyChannel
<1>2. Good(aloud)
  BY SilentIsGood DEF HandsInit, AloudInit
<1>3. RockerTypeOK
  BY DEF HandsInit, RockerInit, RockerTypeOK, Disarmed
<1> QED BY <1>1, <1>2, <1>3 DEF HandsInv

\* The same of the state to come.
LEMMA GoodPrimed == ASSUME Good(aloud') PROVE Good(aloud)'
BY DEF Good, AloudStates, Heard, OffWhenDisabled, Silent, Speaks, Live

\* What the phone decides is among what the lemmas allow.
LEMMA LuckIsAny ==
  ASSUME Good(aloud), NEW luck \in Lucks PROVE luck \in AnyLucks
<1>1. {FALSE, aloud.paused} \subseteq BOOLEAN /\ {FALSE, ~aloud.held} \subseteq BOOLEAN
  BY DEF Good, AloudStates
<1>2. (IF aloud.text = aloud.page THEN {"fits"} ELSE {"fits", "beyond", "broken"})
        \subseteq {"fits", "beyond", "broken"}
  OBVIOUS
<1> QED BY <1>1, <1>2 DEF Lucks, AnyLucks

\* A frame of read aloud: the setting, the page, an event.
LEMMA FrameKeepsGood ==
  ASSUME Good(aloud), ReaderTypeOK, NEW want \in BOOLEAN, AloudFrame(want)
  PROVE  Good(aloud)'
<1> DEFINE Read(luck) ==
             LET set == SetEnabled(aloud, want, luck)
             IN  IF channel.fresh THEN PageArrived(set, channel.page, luck) ELSE set
           read == {Read(luck) : luck \in Lucks}
<1>1. ASSUME NEW luck \in Lucks PROVE Good(Read(luck))
  <2>1. luck \in AnyLucks
    BY <1>1, LuckIsAny
  <2> DEFINE set == SetEnabled(aloud, want, luck)
  <2>2. Good(set)
    BY <2>1, EnabledKeepsGood
  <2>3. channel.page \in AnyPages
    BY DEF ReaderTypeOK, AnyPages
  <2> HIDE DEF set
  <2>4. Good(PageArrived(set, channel.page, luck))
    BY <2>1, <2>2, <2>3, PageKeepsGood
  <2> QED BY <2>2, <2>4 DEF set
<1>2. aloud' \in read \cup {NextHandled(a) : a \in {r \in read : r.events # <<>>}}
  BY DEF AloudFrame
<1> HIDE DEF Read
<1>3. CASE \E luck \in Lucks : aloud' = Read(luck)
  <2>1. PICK luck \in Lucks : aloud' = Read(luck)
    BY <1>3
  <2>2. Good(aloud')
    BY <1>1, <2>1
  <2> QED BY <2>2, GoodPrimed
<1>4. CASE \E luck \in Lucks : /\ Read(luck).events # <<>>
                               /\ aloud' = NextHandled(Read(luck))
  <2>1. PICK luck \in Lucks : /\ Read(luck).events # <<>>
                              /\ aloud' = NextHandled(Read(luck))
    BY <1>4
  <2>2. Good(aloud')
    BY <1>1, <2>1, EventKeepsGood
  <2> QED BY <2>2, GoodPrimed
<1> QED BY <1>2, <1>3, <1>4

\* What the owner asks of it.
LEMMA TouchKeepsGood ==
  ASSUME Good(aloud), MagicTap \/ WordTapped \/ RateChanges PROVE Good(aloud)'
<1>1. CASE MagicTap
  <2>1. PICK luck \in Lucks : aloud' = ToggleSpeech(aloud, luck)
    BY <1>1 DEF MagicTap
  <2> QED BY <2>1, LuckIsAny, ToggleKeepsGood, GoodPrimed
<1>2. CASE WordTapped
  <2>1. PICK lit \in BOOLEAN, luck \in Lucks : aloud' = TapWord(aloud, lit, luck)
    BY <1>2 DEF WordTapped
  <2> QED BY <2>1, LuckIsAny, TapKeepsGood, GoodPrimed
<1>3. CASE RateChanges
  <2>1. PICK luck \in Lucks : aloud' = Restart(aloud, luck)
    BY <1>3 DEF RateChanges
  <2> QED BY <2>1, LuckIsAny, RestartKeepsGood, GoodPrimed
<1> QED BY <1>1, <1>2, <1>3
-----------------------------------------------------------------------------
(* The reader and its channel. *)

ReaderStates == [at : 0..(Len(Book) + 1), owed : 0..Len(Book)]
ChannelStates == [page : AnyPages, fresh : BOOLEAN, unseen : BOOLEAN]

LEMMA ReaderTypes ==
  ReaderTypeOK <=> reader \in ReaderStates /\ channel \in ChannelStates
BY DEF ReaderTypeOK, ReaderStates, ChannelStates, AnyPages

LEMMA OpenedIsReader ==
  ASSUME NEW page \in 0..(Len(Book) + 1) PROVE Opened(page) \in ReaderStates
<1>1. Len(Book) \in Nat
  BY BookAssumption
<1> QED BY <1>1 DEF Opened, ReaderStates, Pages, Closed

\* What the channel may become.
LEMMA ChannelSteps ==
  ASSUME channel \in ChannelStates
  PROVE  /\ Consumed \in ChannelStates /\ Peeked \in ChannelStates
         /\ PeekedAnew \in ChannelStates /\ EmptyChannel \in ChannelStates
         /\ \A page \in {Cleared} \cup Pages : Published(page) \in ChannelStates
<1>1. (channel.page # Nothing) \in BOOLEAN
  OBVIOUS
<1> QED BY <1>1 DEF ChannelStates, AnyPages, Consumed, Peeked, PeekedAnew,
                    EmptyChannel, Published

\* The reader and the channel keep their types.
LEMMA ReaderStep ==
  ASSUME ReaderTypeOK, HandsNext PROVE ReaderTypeOK'
<1>0. /\ reader \in ReaderStates /\ channel \in ChannelStates
      /\ Len(Book) \in Nat /\ reader.at \in 0..(Len(Book) + 1)
  <2>1. reader \in ReaderStates /\ channel \in ChannelStates
    BY ReaderTypes
  <2> QED BY <2>1, BookAssumption DEF ReaderStates
<1> SUFFICES reader' \in ReaderStates /\ channel' \in ChannelStates
  BY DEF ReaderTypeOK, ReaderStates, ChannelStates, AnyPages
<1>1. CASE UNCHANGED <<reader, channel>>
  BY <1>0, <1>1
<1>2. CASE FirmwareTurns
  <2>1. TurnedForward \in ReaderStates
    <3>1. CASE reader.at \in Pages
      <4>1. reader.at + 1 \in 0..(Len(Book) + 1)
        BY <1>0, <3>1 DEF Pages
      <4> QED BY <3>1, <4>1, OpenedIsReader DEF TurnedForward
    <3>2. CASE reader.at \notin Pages
      BY <1>0, <3>2 DEF TurnedForward
    <3> QED BY <3>1, <3>2
  <2> QED BY <1>0, <1>2, <2>1 DEF FirmwareTurns
<1>3. CASE SpeedPolls
  BY <1>0, <1>3, OpenedIsReader, ChannelSteps DEF SpeedPolls
<1>4. CASE AloudRuns
  BY <1>0, <1>4, ChannelSteps DEF AloudRuns, AloudFrame
<1>5. CASE SpeedRuns
  BY <1>0, <1>5, ChannelSteps DEF SpeedRuns, SpeedStep
<1>6. CASE RenderTask
  <2>1. reader.owed \in Pages
    BY <1>0, <1>6 DEF RenderTask, Render, ReaderStates, Pages, Closed
  <2>2. Closed \in 0..Len(Book)
    BY <1>0 DEF Closed
  <2>3. reader' \in ReaderStates
    BY <1>0, <1>6, <2>2 DEF RenderTask, Render, ReaderStates
  <2> QED BY <1>0, <1>6, <2>1, <2>3, ChannelSteps DEF RenderTask, Render
<1>7. CASE OwnerReads
  <2>1. CASE \E page \in Pages : OwnerOpens(page)
    <3>1. PICK page \in Pages : OwnerOpens(page)
      BY <2>1
    <3>2. page \in 0..(Len(Book) + 1)
      BY <1>0, <3>1 DEF Pages
    <3> QED BY <1>0, <3>1, <3>2, OpenedIsReader DEF OwnerOpens
  <2>2. CASE OwnerLeaves
    <3>1. Closed \in 0..Len(Book) /\ Closed \in 0..(Len(Book) + 1)
      BY <1>0 DEF Closed
    <3> QED BY <1>0, <2>2, <3>1, ChannelSteps DEF OwnerLeaves, ReaderStates
  <2> QED BY <1>7, <2>1, <2>2 DEF OwnerReads
<1>8. CASE HandsReboot
  <2>1. Closed \in 0..Len(Book) /\ Closed \in 0..(Len(Book) + 1)
    BY <1>0 DEF Closed
  <2>2. reader.owed \in 0..Len(Book)
    BY <1>0 DEF ReaderStates
  <2>3. {[at |-> Closed, owed |-> Closed], [at |-> Closed, owed |-> reader.owed]}
          \subseteq ReaderStates
    BY <2>1, <2>2 DEF ReaderStates
  <2>4. Opened(reader.at) \in ReaderStates
    BY <1>0, OpenedIsReader
  <2> QED BY <1>0, <1>8, <2>3, <2>4, ChannelSteps DEF HandsReboot, ReaderReboots
<1>9. CASE HandsRelaunch
  <2>1. ReadersAtLaunch \subseteq ReaderStates
    <3> SUFFICES ASSUME NEW n \in {Closed} \cup (Pages \cap {1})
                 PROVE  [at |-> n, owed |-> n] \in ReaderStates
      BY DEF ReadersAtLaunch
    <3>1. n \in 0..Len(Book) /\ n \in 0..(Len(Book) + 1)
      BY <1>0 DEF Closed, Pages
    <3> QED BY <3>1 DEF ReaderStates
  <2> QED BY <1>0, <1>9, <2>1, ChannelSteps DEF HandsRelaunch, ReaderRelaunches
<1> QED BY <1>1, <1>2, <1>3, <1>4, <1>5, <1>6, <1>7, <1>8, <1>9
        DEF HandsNext, HandsMain, HarnessRuns, RockerRuns, Engine, HandsOwner,
            OwnerTouches, MagicTouch, HandsOutside, OwnerWishes, PhoneInterrupts,
            HandsSleep
-----------------------------------------------------------------------------
(* Every step, and the theorem. *)

\* The rocker: it arms, disarms, or is handed the session.
LEMMA RockerStep ==
  ASSUME HandsInv, RockerRuns PROVE Good(aloud)' /\ RockerTypeOK'
<1>0. Good(aloud) /\ RockerTypeOK
  BY DEF HandsInv
<1>1. CASE Arm
  BY <1>0, <1>1, BorrowKeepsGood DEF Arm
<1>2. CASE Disarm
  <2>1. Good(aloud')
    BY <1>0, <1>2 DEF Disarm
  <2> QED BY <1>2, <2>1, GoodPrimed DEF Disarm, Disarmed, RockerTypeOK
<1>3. CASE SessionIsReleased
  <2> DEFINE free == [aloud EXCEPT !.held = FALSE]
  <2>1. Good(free)
    BY <1>0 DEF Good, AloudStates, Heard, OffWhenDisabled, Silent, Speaks, Live
  <2>2. \/ \E refused \in BOOLEAN : Borrow(free, refused)
        \/ aloud' = free /\ UNCHANGED rocker
    BY <1>3 DEF SessionIsReleased
  <2> HIDE DEF free
  <2>3. CASE \E refused \in BOOLEAN : Borrow(free, refused)
    BY <1>0, <2>1, <2>3, BorrowKeepsGood
  <2>4. CASE aloud' = free /\ UNCHANGED rocker
    <3>1. Good(aloud')
      BY <2>1, <2>4
    <3> QED BY <1>0, <2>4, <3>1, GoodPrimed DEF RockerTypeOK
  <2> QED BY <2>2, <2>3, <2>4
<1> QED BY <1>1, <1>2, <1>3 DEF RockerRuns

\* Read aloud stays good in every step.
LEMMA AloudStep ==
  ASSUME HandsInv, wish \in Settings, HandsNext PROVE Good(aloud)' /\ RockerTypeOK'
<1>0. Good(aloud) /\ ReaderTypeOK /\ RockerTypeOK
  BY DEF HandsInv
<1>1. ASSUME UNCHANGED <<aloud, rocker>> PROVE Good(aloud)' /\ RockerTypeOK'
  <2>1. Good(aloud')
    BY <1>0, <1>1
  <2> QED BY <1>0, <1>1, <2>1, GoodPrimed DEF RockerTypeOK
<1>2. ASSUME UNCHANGED rocker, Good(aloud') PROVE Good(aloud)' /\ RockerTypeOK'
  BY <1>0, <1>2, GoodPrimed DEF RockerTypeOK
<1>3. CASE FirmwareTurns \/ HandsSleep
  <2>1. aloud' = [aloud EXCEPT !.tap = FALSE] /\ UNCHANGED rocker
    BY <1>3 DEF FirmwareTurns, HandsSleep
  <2>2. Good([aloud EXCEPT !.tap = FALSE])
    BY <1>0 DEF Good, AloudStates, Heard, OffWhenDisabled, Silent, Speaks, Live
  <2> QED BY <1>2, <2>1, <2>2
<1>4. CASE AloudRuns
  <2>1. UNCHANGED rocker
    BY <1>4 DEF AloudRuns
  <2>2. CASE AloudFrame(wish.aloud)
    <3>1. wish.aloud \in BOOLEAN
      BY DEF Settings
    <3>2. Good(aloud)'
      BY <1>0, <2>2, <3>1, FrameKeepsGood
    <3> QED BY <1>0, <2>1, <3>2 DEF RockerTypeOK
  <2>3. CASE AwaitTimesOut
    <3>1. Good(aloud')
      BY <1>0, <2>3, TimeoutKeepsGood DEF AwaitTimesOut
    <3> QED BY <1>2, <2>1, <3>1
  <2> QED BY <1>4, <2>2, <2>3 DEF AloudRuns
<1>5. CASE RockerRuns
  BY <1>5, RockerStep
<1>6. CASE Engine
  <2> DEFINE said == EngineSays("finished")
  <2>1. /\ aloud.voice # <<>> /\ UNCHANGED rocker
        /\ aloud' = [said EXCEPT !.heardOut = @ \/ Head(aloud.voice).current]
    BY <1>6 DEF Engine, EngineFinishes
  <2>2. Good(said) /\ Silent(said) /\ Head(aloud.voice).current \in BOOLEAN
    BY <1>0, <2>1, EngineKeepsGood
  <2> HIDE DEF said
  <2>3. (said.heardOut \/ Head(aloud.voice).current) \in BOOLEAN
    OBVIOUS
  <2>4. Quiet(aloud') /\ OffWhenDisabled(aloud')
    BY <2>1, <2>2, <2>3 DEF Good, Quiet, AloudStates, Heard, Silent, OffWhenDisabled
  <2> QED BY <1>2, <2>1, <2>4, QuietIsGood
<1>7. CASE PhoneInterrupts
  <2>1. Good(aloud') /\ UNCHANGED rocker
    BY <1>0, <1>7, EngineKeepsGood DEF PhoneInterrupts, PhoneCancels
  <2> QED BY <1>2, <2>1
<1>8. CASE OwnerTouches \/ MagicTouch
  <2>1. CASE (MagicTap \/ WordTapped \/ RateChanges) /\ UNCHANGED rocker
    BY <1>0, <2>1, TouchKeepsGood DEF RockerTypeOK
  <2>2. CASE UNCHANGED <<aloud, rocker>>
    BY <1>1, <2>2
  <2> QED BY <1>8, <2>1, <2>2 DEF OwnerTouches, MagicTouch, AloudSame
<1>9. CASE HandsReboot
  <2>1. UNCHANGED rocker
    BY <1>9 DEF HandsReboot
  <2>2. PICK luck \in Lucks : aloud' = AloudRebooted(luck)
    BY <1>9 DEF HandsReboot, AloudReboots
  <2>3. Good(aloud')
    BY <1>0, <2>2, LuckIsAny, RebootKeepsGood
  <2> QED BY <1>2, <2>1, <2>3
<1>10. CASE HandsRelaunch
  <2>1. aloud' = SilentAloud /\ rocker' = Disarmed
    BY <1>10 DEF HandsRelaunch
  <2>2. Good(SilentAloud)
    BY SilentIsGood
  <2> QED BY <2>1, <2>2, GoodPrimed DEF Disarmed, RockerTypeOK
<1>11. CASE SpeedPolls \/ SpeedRuns \/ RenderTask \/ OwnerReads \/ OwnerWishes
  BY <1>1, <1>11 DEF SpeedPolls, SpeedRuns, RenderTask, OwnerReads, OwnerWishes, AloudSame
<1> QED BY <1>3, <1>4, <1>5, <1>6, <1>7, <1>8, <1>9, <1>10, <1>11
        DEF HandsNext, HandsMain, HarnessRuns, HandsOwner, HandsOutside

\* The settings are settings.
LEMMA WishStep == ASSUME wish \in Settings, HandsNext PROVE wish' \in Settings
<1>1. CASE UNCHANGED wish
  BY <1>1
<1>2. CASE OwnerWishes
  <2>1. PICK which \in {"aloud", "speed", "rocker"} : wish' = [wish EXCEPT ![which] = ~@]
    BY <1>2 DEF OwnerWishes
  <2>2. (~wish[which]) \in BOOLEAN
    OBVIOUS
  <2> QED BY <2>1, <2>2 DEF Settings
<1> QED BY <1>1, <1>2
        DEF HandsNext, HandsMain, HarnessRuns, HandsOwner, HandsOutside, FirmwareTurns,
            SpeedPolls, AloudRuns, RockerRuns, SpeedRuns, RenderTask, Engine, OwnerReads,
            OwnerTouches, MagicTouch, PhoneInterrupts, HandsSleep, HandsReboot,
            HandsRelaunch, OwnerSame

\* A good state is one in which speech follows.
LEMMA GoodFollows == ASSUME Good(aloud) PROVE SpeechFollows
<1>1. Heard(aloud) /\ aloud.voice \in Seq(Utterances)
  BY DEF Good, AloudStates
<1>2. CASE Silent(aloud)
  <2>1. Len(aloud.voice) = 0
    BY <1>2 DEF Silent
  <2> QED BY <1>1, <1>2, <2>1 DEF Silent, Heard, SpeechFollows, OneVoice,
                                 VoiceReadsItsPage, VoiceIsHeard
<1>3. CASE Speaks(aloud)
  BY <1>1, <1>3 DEF Speaks, Heard, SpeechFollows, OneVoice, VoiceReadsItsPage, VoiceIsHeard
<1> QED BY <1>2, <1>3 DEF Good

\* The invariant is inductive.
THEOREM HandsInvariant == HandsSpec => [](HandsInv /\ wish \in Settings)
<1>1. HandsInit => HandsInv /\ wish \in Settings
  BY InitGood DEF HandsInit
<1>2. HandsInv /\ wish \in Settings /\ [HandsNext]_handsVars
        => (HandsInv /\ wish \in Settings)'
  <2> SUFFICES ASSUME HandsInv, wish \in Settings, [HandsNext]_handsVars
               PROVE  (HandsInv /\ wish \in Settings)'
    OBVIOUS
  <2>1. CASE HandsNext
    <3>1. ReaderTypeOK'
      BY <2>1, ReaderStep DEF HandsInv
    <3>2. Good(aloud)' /\ RockerTypeOK'
      BY <2>1, AloudStep
    <3>3. wish' \in Settings
      BY <2>1, WishStep
    <3> QED BY <3>1, <3>2, <3>3 DEF HandsInv
  <2>2. CASE UNCHANGED handsVars
    <3>1. Good(aloud')
      BY <2>2 DEF handsVars, HandsInv
    <3> QED BY <2>2, <3>1, GoodPrimed DEF handsVars, HandsInv, ReaderTypeOK, RockerTypeOK
  <2> QED BY <2>1, <2>2
<1> QED BY <1>1, <1>2, PTL DEF HandsSpec

\* Speech keeps to the reader: one utterance at most, of the page that is up,
\* and heard (SpeechFollows), whatever is tapped, turned, set or rebooted.
THEOREM SpeechAlwaysFollows == HandsSpec => []SpeechFollows
<1>1. HandsInv => SpeechFollows
  BY GoodFollows DEF HandsInv
<1> QED BY <1>1, HandsInvariant, PTL
-----------------------------------------------------------------------------
(* Turns are earned.  A turn that read aloud asks for is owed to an event,  *)
(* queued a while ago, or to a page without words.  The invariant says what *)
(* such an event entitles to by the time it is handled.                     *)

\* Reported, and not yet handled: the current utterance was spoken to its end.
SpokenOut(a) ==
  \E i \in 1..Len(a.events) : a.events[i].current /\ a.events[i].kind = "finished"

\* While there is something to speak the core has its page; a report of the
\* current serial is about the page that was heard out, or finds a core that
\* has since been given no words; blank pages are walked past as counted.
Due(a) ==
  /\ Live(a) => a.text # Cleared
  /\ SpokenOut(a) => a.heardOut \/ a.text = Cleared
  /\ a.blanks <= a.skips

\* From a to b nothing is gained that a turn could be owed to.
GainsNothing(a, b) ==
  /\ b.text = a.text /\ b.page = a.page /\ b.heardOut = a.heardOut
  /\ b.skips = a.skips /\ b.blanks = a.blanks /\ b.tap = a.tap
  /\ SpokenOut(b) => SpokenOut(a)

LEMMA SilentIsDue == Due(SilentAloud) /\ ~SilentAloud.tap
<1>1. SilentAloud.events = <<>> /\ SilentAloud.state = "Off" /\ ~SilentAloud.tap
      /\ SilentAloud.blanks = 0 /\ SilentAloud.skips = 0
  BY DEF SilentAloud
<1>2. ~SpokenOut(SilentAloud)
  BY <1>1 DEF SpokenOut
<1> QED BY <1>1, <1>2 DEF Due, Live

LEMMA ReportTypes ==
  ASSUME NEW a \in AloudStates
  PROVE  /\ a.events \in Seq(EngineEvents) /\ Len(a.events) \in Nat
         /\ \A i \in 1..Len(a.events) : a.events[i] \in EngineEvents
<1>1. a.events \in Seq(EngineEvents)
  BY DEF AloudStates
<1> QED BY <1>1

\* What is stopped is reported as canceled.
LEMMA StopGainsNothing ==
  ASSUME NEW a \in AloudStates, NEW luck \in AnyLucks
  PROVE  GainsNothing(a, StopVoice(a, luck)) /\ GainsNothing(a, StopIfLive(a, luck))
<1> DEFINE told == [i \in 1..Len(a.voice) |->
                [kind |-> "canceled", current |-> a.voice[i].current]]
           q == StopVoice(a, luck)
<1>1. told \in Seq(EngineEvents) /\ Len(a.voice) \in Nat /\ Len(told) = Len(a.voice)
  <2>0. a.voice \in Seq(Utterances)
    BY DEF AloudStates
  <2>1. Len(a.voice) \in Nat /\ \A i \in 1..Len(a.voice) : a.voice[i] \in Utterances
    BY <2>0
  <2>2. \A i \in 1..Len(a.voice) : a.voice[i].current \in BOOLEAN
    BY <2>1 DEF Utterances
  <2>3. told \in [1..Len(a.voice) -> EngineEvents]
    BY <2>2 DEF EngineEvents
  <2> QED BY <2>1, <2>3, FunIsSeq
<1>2. \A i \in 1..Len(told) : told[i].kind = "canceled"
  BY <1>1
<1>3. q = [a EXCEPT !.voice = <<>>, !.paused = @ /\ luck.sticks, !.events = a.events \o told]
  BY DEF StopVoice, AloudStates
<1> HIDE DEF told, q
<1>4. /\ q.events = a.events \o told
      /\ q.text = a.text /\ q.page = a.page /\ q.heardOut = a.heardOut
      /\ q.skips = a.skips /\ q.blanks = a.blanks /\ q.tap = a.tap
  BY <1>3 DEF AloudStates
<1>5. \A i \in 1..Len(q.events) :
        IF i <= Len(a.events) THEN q.events[i] = a.events[i]
        ELSE i - Len(a.events) \in 1..Len(told) /\ q.events[i] = told[i - Len(a.events)]
  BY <1>1, <1>4, ReportTypes
<1>6. SpokenOut(q) => SpokenOut(a)
  <2> SUFFICES ASSUME NEW i \in 1..Len(q.events),
                      q.events[i].current, q.events[i].kind = "finished"
               PROVE  SpokenOut(a)
    BY DEF SpokenOut
  <2>1. i <= Len(a.events)
    BY <1>2, <1>5
  <2>2. Len(q.events) \in Nat /\ Len(a.events) \in Nat
    BY <1>1, <1>4, ReportTypes
  <2>3. i \in 1..Len(a.events) /\ q.events[i] = a.events[i]
    BY <1>5, <2>1, <2>2
  <2> QED BY <2>3 DEF SpokenOut
<1>7. GainsNothing(a, q)
  BY <1>4, <1>6 DEF GainsNothing
<1> QED BY <1>7 DEF q, StopIfLive, GainsNothing

\* A new serial leaves no report standing.
LEMMA SerialForgets ==
  ASSUME NEW a \in AloudStates
  PROVE  /\ ~SpokenOut(NewSerial(a))
         /\ NewSerial(a).text = a.text /\ NewSerial(a).page = a.page
         /\ NewSerial(a).state = a.state /\ NewSerial(a).heardOut = a.heardOut
         /\ NewSerial(a).skips = a.skips /\ NewSerial(a).blanks = a.blanks
         /\ NewSerial(a).tap = a.tap
<1>1. NewSerial(a).events = Outdated(a.events)
  BY DEF NewSerial, AloudStates
<1>2. \A i \in 1..Len(Outdated(a.events)) : ~Outdated(a.events)[i].current
  BY ReportTypes, OutdatedEvents
<1> QED BY <1>1, <1>2 DEF SpokenOut, NewSerial, AloudStates

\* A start leaves all as it is, or leaves no report standing.
LEMMA StartForgets ==
  ASSUME NEW a \in AloudStates, NEW luck \in AnyLucks
  PROVE  LET b == Start(a, luck)
         IN  /\ b.text = a.text /\ b.page = a.page /\ b.state = a.state
             /\ b.skips = a.skips /\ b.blanks = a.blanks /\ b.tap = a.tap
             /\ b = a \/ ~SpokenOut(b)
             /\ a.page # Cleared /\ a.text = a.page => ~SpokenOut(b)
<1> DEFINE sessioned == [EnsureSession(a, luck) EXCEPT !.paused = FALSE]
           ready == NewSerial(sessioned)
           said == [page |-> a.page, known |-> a.text = a.page, current |-> TRUE]
           full == [ready EXCEPT !.voice = Append(@, said), !.heardOut = FALSE]
<1>1. /\ sessioned \in AloudStates /\ sessioned.text = a.text /\ sessioned.page = a.page
      /\ sessioned.state = a.state /\ sessioned.skips = a.skips
      /\ sessioned.blanks = a.blanks /\ sessioned.tap = a.tap
  BY DEF EnsureSession, AloudStates, AnyLucks
<1> HIDE DEF sessioned
<1>2. /\ ready.text = a.text /\ ready.page = a.page /\ ready.state = a.state
      /\ ready.skips = a.skips /\ ready.blanks = a.blanks /\ ready.tap = a.tap
      /\ ~SpokenOut(ready)
  BY <1>1, SerialForgets
<1>3. /\ full.text = a.text /\ full.page = a.page /\ full.state = a.state
      /\ full.skips = a.skips /\ full.blanks = a.blanks /\ full.tap = a.tap
      /\ full.events = ready.events
  BY <1>1, <1>2 DEF ready, NewSerial, AloudStates
<1> HIDE DEF ready
<1>4. ~SpokenOut(full)
  BY <1>2, <1>3 DEF SpokenOut
<1> HIDE DEF full
<1>5. Start(a, luck) = IF a.page = Cleared \/ (a.text # a.page /\ luck.offset = "beyond")
                       THEN a
                       ELSE IF a.text # a.page /\ luck.offset = "broken" THEN ready
                       ELSE full
  BY DEF Start, sessioned, ready, said, full
<1> QED BY <1>2, <1>3, <1>4, <1>5

\* What gains nothing and has a page, if it is live, keeps what is due.
LEMMA DueStays ==
  ASSUME NEW a, NEW b, Due(a), GainsNothing(a, b), Live(b) => a.text # Cleared
  PROVE  Due(b)
BY DEF Due, GainsNothing

\* Turning read aloud on or off asks for no turn.
LEMMA EnabledKeepsDue ==
  ASSUME NEW a, Good(a), Due(a), NEW on \in BOOLEAN, NEW luck \in AnyLucks
  PROVE  Due(SetEnabled(a, on, luck)) /\ SetEnabled(a, on, luck).tap = a.tap
<1> DEFINE b == SetEnabled(a, on, luck)
<1>0. a \in AloudStates
  BY DEF Good
<1>1. CASE on \/ ~a.on
  <2>1. b = [a EXCEPT !.on = on]
    BY <1>1 DEF SetEnabled
  <2>2. GainsNothing(a, b) /\ b.state = a.state
    BY <1>0, <2>1 DEF GainsNothing, SpokenOut, AloudStates
  <2> HIDE DEF b
  <2> QED BY <2>2, DueStays DEF b, Due, Live, GainsNothing
<1>2. CASE ~(on \/ ~a.on)
  <2> DEFINE q == StopIfLive(a, luck)
  <2>1. Quiet(q) /\ GainsNothing(a, q)
    BY <1>0, StopGainsNothing, GoodIsSilentOrLive, StopIfLiveQuiets
  <2>2. b = [q EXCEPT !.on = FALSE, !.state = "Off"]
    BY <1>2 DEF SetEnabled
  <2> HIDE DEF q, b
  <2>3. GainsNothing(a, b) /\ b.state = "Off"
    BY <2>1, <2>2 DEF GainsNothing, SpokenOut, Quiet, AloudStates
  <2> QED BY <2>3, DueStays DEF Live, GainsNothing, b
<1> QED BY <1>1, <1>2

\* If read aloud turns the page in this step, it is earned.
Earned(a, b) ==
  b.tap /\ ~a.tap => b.heardOut \/ (b.page = Cleared /\ b.blanks <= MaxSkips)

\* The turn of a blank page is counted with the pages skipped.
LEMMA BlankIsEarned ==
  ASSUME NEW q, Quiet(q), Due(q), q.page = Cleared
  PROVE  Due(BlankArrived(q)) /\ Earned(q, BlankArrived(q))
<1> DEFINE blank == [q EXCEPT !.text = Cleared, !.heardOut = FALSE]
           turn == [blank EXCEPT !.skips = @ + 1, !.state = "AwaitingNextPage"]
           b == BlankArrived(q)
<1>0. q \in AloudStates /\ q.skips \in 0..MaxSkips /\ q.blanks \in 0..(MaxSkips + 1)
      /\ MaxSkips \in Nat
  BY SkipsAssumption DEF Quiet, AloudStates
<1>1. /\ blank.text = Cleared /\ blank.heardOut = FALSE /\ blank.skips = q.skips
      /\ blank.blanks = q.blanks /\ blank.page = q.page /\ blank.tap = q.tap
      /\ blank \in AloudStates
  BY <1>0 DEF AloudStates
<1>2. CASE q.skips < MaxSkips
  <2>0. blank.skips + 1 \in 0..MaxSkips
    BY <1>0, <1>1, <1>2
  <2> HIDE DEF blank
  <2>1. /\ turn.text = Cleared /\ turn.heardOut = FALSE /\ turn.skips = q.skips + 1
        /\ turn.blanks = q.blanks /\ turn.page = q.page /\ turn.tap = q.tap
        /\ turn.state = "AwaitingNextPage" /\ turn \in AloudStates
    BY <1>1, <2>0 DEF AloudStates, CoreStates
  <2>2. b = QueueTurn(turn)
    BY <1>2 DEF BlankArrived, blank
  <2> HIDE DEF turn, b
  <2>3. q.blanks <= q.skips /\ ~(q.blanks > MaxSkips)
    BY <1>0, <1>2 DEF Due
  <2>4. b = [turn EXCEPT !.tap = TRUE, !.awaiting = TRUE, !.blanks = q.blanks + 1]
    BY <2>1, <2>2, <2>3 DEF QueueTurn, AloudStates
  <2>5. /\ b.text = Cleared /\ b.skips = q.skips + 1 /\ b.blanks = q.blanks + 1
        /\ b.page = q.page /\ b.state = "AwaitingNextPage"
    BY <2>1, <2>4 DEF AloudStates
  <2>6. b.blanks <= b.skips /\ b.blanks <= MaxSkips
    BY <1>0, <1>2, <2>3, <2>5
  <2> QED BY <2>5, <2>6 DEF b, Due, Earned, Live
<1>3. CASE ~(q.skips < MaxSkips)
  <2>1. b = [blank EXCEPT !.state = "Off"]
    BY <1>3 DEF BlankArrived
  <2> HIDE DEF blank
  <2>2. /\ b.text = Cleared /\ b.skips = q.skips /\ b.blanks = q.blanks
        /\ b.tap = q.tap /\ b.state = "Off"
    BY <1>1, <2>1 DEF AloudStates
  <2> HIDE DEF b
  <2> QED BY <2>2 DEF b, Due, Earned, Live
<1> QED BY <1>2, <1>3

\* A page that arrives turns itself only when it is blank, and counted.
LEMMA PageIsEarned ==
  ASSUME NEW a, Good(a), Due(a), NEW page \in AnyPages, NEW luck \in AnyLucks
  PROVE  Due(PageArrived(a, page, luck)) /\ Earned(a, PageArrived(a, page, luck))
<1> DEFINE b == [a EXCEPT !.page = TextOf(page), !.awaiting = FALSE]
           q == StopIfLive(b, luck)
<1>1. PageArrived(a, page, luck) = CoreTakes(b, page, luck)
  BY DEF PageArrived
<1>2. /\ TextOf(page) \in {Cleared} \cup Pages
      /\ HasWords(page) => TextOf(page) = page /\ page \in Pages /\ page # Cleared
      /\ ~HasWords(page) => TextOf(page) = Cleared
  <2>1. Cleared \notin Pages
    BY BookAssumption DEF Cleared, Pages
  <2> QED BY <2>1 DEF TextOf, HasWords
<1>3. /\ b \in AloudStates /\ Heard(b) /\ OffWhenDisabled(b)
      /\ b.voice = a.voice /\ b.state = a.state /\ b.text = a.text
      /\ b.events = a.events /\ b.page = TextOf(page) /\ b.tap = a.tap
      /\ b.heardOut = a.heardOut /\ b.skips = a.skips /\ b.blanks = a.blanks
  BY <1>2 DEF Good, AloudStates, Heard, OffWhenDisabled
<1>4. Silent(b) \/ Live(b)
  BY <1>3, GoodIsSilentOrLive DEF Silent, Live
<1> HIDE DEF b
<1>5. Due(b)
  BY <1>3 DEF Due, Live, SpokenOut
<1>6. CASE CoreTakes(b, page, luck) = b
  BY <1>1, <1>3, <1>5, <1>6 DEF Earned
<1>7. CASE b.on /\ ~(Live(b) /\ HasWords(page) /\ page = b.text)
  <2>1. Quiet(q) /\ q.state = b.state /\ GainsNothing(b, q)
    BY <1>3, <1>4, StopIfLiveQuiets, StopGainsNothing
  <2> HIDE DEF q
  <2>2. Due(q) /\ q.tap = a.tap /\ q.page = TextOf(page)
    BY <1>3, <1>5, <2>1, DueStays DEF Due, Live, GainsNothing
  <2>3. CoreTakes(b, page, luck) =
          IF page = Cleared THEN ReaderExited(q)
          ELSE IF HasWords(page) THEN WordsArrived(q, page, luck)
          ELSE BlankArrived(q)
    BY <1>7 DEF CoreTakes, q
  <2>4. Due(ReaderExited(q)) /\ Earned(a, ReaderExited(q))
    <3> DEFINE e == ReaderExited(q)
    <3>1. e.text = Cleared /\ e.skips = 0 /\ e.state = "Off" /\ e.blanks = 0 /\ e.tap = a.tap
      BY <2>1, <2>2 DEF ReaderExited, Quiet, AloudStates
    <3> HIDE DEF e
    <3> QED BY <3>1 DEF e, Due, Earned, Live
  <2>5. ASSUME HasWords(page)
        PROVE  Due(WordsArrived(q, page, luck)) /\ Earned(a, WordsArrived(q, page, luck))
    <3> DEFINE w == [q EXCEPT !.text = page, !.skips = 0, !.state = "Speaking",
                              !.heardOut = FALSE, !.blanks = 0]
               s == Start(w, luck)
    <3>1. /\ w \in AloudStates /\ w.text = page /\ w.page = page
          /\ w.skips = 0 /\ w.blanks = 0 /\ w.tap = a.tap
      <4>1. 0 \in 0..MaxSkips /\ 0 \in 0..(MaxSkips + 1)
        BY SkipsAssumption
      <4> QED BY <1>2, <2>1, <2>2, <2>5, <4>1 DEF Quiet, AloudStates, CoreStates
    <3> HIDE DEF w
    <3>2. /\ s.text = page /\ s.skips = 0 /\ s.blanks = 0 /\ s.tap = a.tap
          /\ ~SpokenOut(s)
      BY <1>2, <2>5, <3>1, StartForgets
    <3>3. WordsArrived(q, page, luck) = s
      BY DEF WordsArrived, w
    <3> HIDE DEF s
    <3> QED BY <1>2, <2>5, <3>2, <3>3 DEF Due, Earned
  <2>6. ASSUME ~HasWords(page)
        PROVE  Due(BlankArrived(q)) /\ Earned(a, BlankArrived(q))
    BY <1>2, <2>1, <2>2, <2>6, BlankIsEarned DEF Earned
  <2> QED BY <1>1, <2>3, <2>4, <2>5, <2>6
<1> QED BY <1>6, <1>7 DEF CoreTakes

\* A report that is handled turns only the page that was heard out.
LEMMA EventIsEarned ==
  ASSUME NEW a, Good(a), Due(a), a.events # <<>>
  PROVE  /\ Due(NextHandled(a)) /\ Earned(a, NextHandled(a))
         /\ NextHandled(a).page = a.page /\ NextHandled(a).blanks = a.blanks
         /\ NextHandled(a).heardOut = a.heardOut
<1> DEFINE e == Head(a.events)
           h == Handled(a, e)
           n == NextHandled(a)
<1>0. a \in AloudStates /\ e = a.events[1] /\ e \in EngineEvents /\ 1 \in 1..Len(a.events)
  <2>1. a \in AloudStates
    BY DEF Good
  <2>2. a.events \in Seq(EngineEvents)
    BY <2>1, ReportTypes
  <2> QED BY <2>1, <2>2
<1>1. /\ Tail(a.events) \in Seq(EngineEvents)
      /\ \A i \in 1..Len(Tail(a.events)) :
           i + 1 \in 1..Len(a.events) /\ Tail(a.events)[i] = a.events[i + 1]
  BY <1>0, ReportTypes
<1>2. n = [h EXCEPT !.events = Tail(a.events)]
  BY DEF NextHandled
<1> DEFINE Just(b) == /\ b \in AloudStates /\ b.text = a.text /\ b.page = a.page /\ b.skips = a.skips
                      /\ b.blanks = a.blanks /\ b.heardOut = a.heardOut
                      /\ Live(b) => Live(a)
                      /\ b.tap = a.tap \/ b.heardOut
<1>3. ASSUME Just(h)
      PROVE  /\ Due(n) /\ Earned(a, n)
             /\ n.page = a.page /\ n.blanks = a.blanks /\ n.heardOut = a.heardOut
  <2>1. /\ n.text = a.text /\ n.page = a.page /\ n.skips = a.skips /\ n.blanks = a.blanks
        /\ n.heardOut = a.heardOut /\ n.tap = h.tap /\ n.state = h.state
        /\ n.events = Tail(a.events)
    BY <1>2, <1>3 DEF AloudStates
  <2>2. SpokenOut(n) => SpokenOut(a)
    BY <1>1, <2>1 DEF SpokenOut
  <2>3. (Live(n) => Live(a)) /\ (n.tap => a.tap \/ n.heardOut)
    BY <1>3, <2>1 DEF Live
  <2> HIDE DEF n
  <2> QED BY <2>1, <2>2, <2>3 DEF Due, Earned, n
<1>4. Just(a)
  BY <1>0
<1>5. CASE ~e.current
  BY <1>3, <1>4, <1>5 DEF Handled
<1>6. CASE e.current /\ e.kind = "finished"
  <2>1. CASE a.state # "Speaking"
    BY <1>3, <1>4, <1>6, <2>1 DEF Handled, UtteranceFinished
  <2>2. CASE a.state = "Speaking"
    <3>1. a.heardOut
      BY <1>0, <1>6, <2>2 DEF Due, SpokenOut, Live
    <3> DEFINE w == [a EXCEPT !.state = "AwaitingNextPage"]
    <3>2. h = QueueTurn(w)
      BY <1>6, <2>2 DEF Handled, UtteranceFinished
    <3>3. w \in AloudStates /\ w.heardOut /\ w.text = a.text /\ w.page = a.page /\ w.skips = a.skips
          /\ w.blanks = a.blanks /\ w.state = "AwaitingNextPage"
      BY <1>0, <3>1 DEF AloudStates, CoreStates
    <3> HIDE DEF w, h
    <3>4. h = [w EXCEPT !.tap = TRUE, !.awaiting = TRUE]
      BY <3>2, <3>3 DEF QueueTurn, AloudStates
    <3>5. Just(h)
      BY <3>1, <3>3, <3>4 DEF AloudStates, Live
    <3> QED BY <1>3, <3>5
  <2> QED BY <2>1, <2>2
<1>7. CASE e.current /\ e.kind # "finished"
  <2>1. h = UtteranceCanceled(a)
    BY <1>7 DEF Handled
  <2> HIDE DEF h
  <2>2. Just(h)
    BY <1>0, <1>4, <2>1 DEF UtteranceCanceled, AloudStates, CoreStates, Live
  <2> QED BY <1>3, <2>2
<1> QED BY <1>5, <1>6, <1>7

\* Waiting ends without a turn.
LEMMA TimeoutKeepsDue ==
  ASSUME NEW a, Good(a), Due(a)
  PROVE  LET b == PageTimeout([a EXCEPT !.awaiting = FALSE])
         IN  Due(b) /\ b.tap = a.tap
<1> DEFINE b == PageTimeout([a EXCEPT !.awaiting = FALSE])
<1>1. GainsNothing(a, b) /\ (Live(b) => Live(a))
  BY DEF Good, AloudStates, CoreStates, PageTimeout, GainsNothing, SpokenOut, Live
<1> HIDE DEF b
<1> QED BY <1>1, DueStays DEF Due, GainsNothing, b

\* A start from the page the core has.
LEMMA BeginKeepsDue ==
  ASSUME NEW a \in AloudStates, Due(a), a.text # Cleared, NEW luck \in AnyLucks
  PROVE  Due(BeginAt(a, luck)) /\ BeginAt(a, luck).tap = a.tap
<1> DEFINE w == [a EXCEPT !.state = "Speaking"]
           s == Start(w, luck)
<1>1. w \in AloudStates /\ GainsNothing(a, w)
  BY DEF AloudStates, CoreStates, GainsNothing, SpokenOut
<1>2. Due(w)
  BY <1>1, DueStays
<1> HIDE DEF w
<1>3. /\ s.text = w.text /\ s.skips = w.skips /\ s.blanks = w.blanks /\ s.tap = w.tap
      /\ s = w \/ ~SpokenOut(s)
  BY <1>1, StartForgets
<1> HIDE DEF s
<1>4. Due(s)
  BY <1>1, <1>2, <1>3 DEF Due, GainsNothing
<1> QED BY <1>1, <1>3, <1>4 DEF BeginAt, w, s, GainsNothing

\* The owner's magic tap asks for no turn,
LEMMA ToggleKeepsDue ==
  ASSUME NEW a, Good(a), Due(a), NEW luck \in AnyLucks
  PROVE  Due(ToggleSpeech(a, luck)) /\ ToggleSpeech(a, luck).tap = a.tap
<1>0. a \in AloudStates
  BY DEF Good
<1>1. CASE a.on /\ a.state \in {"Speaking", "Paused"}
  <2> DEFINE b == ToggleSpeech(a, luck)
  <2>1. b = Paused(a) \/ b = Resumed(a)
    BY <1>1 DEF ToggleSpeech
  <2> HIDE DEF b
  <2>2. GainsNothing(a, b)
    BY <1>0, <2>1 DEF Paused, Resumed, AloudStates, GainsNothing, SpokenOut
  <2> QED BY <1>1, <2>2, DueStays DEF b, Due, Live, GainsNothing
<1>2. CASE a.on /\ a.state = "Off" /\ a.text # Cleared
  BY <1>0, <1>2, BeginKeepsDue DEF ToggleSpeech
<1>3. CASE ToggleSpeech(a, luck) = a
  BY <1>3
<1> QED BY <1>1, <1>2, <1>3 DEF ToggleSpeech

\* nor does a tap on a word,
LEMMA TapKeepsDue ==
  ASSUME NEW a, Good(a), Due(a), NEW lit \in BOOLEAN, NEW luck \in AnyLucks
  PROVE  Due(TapWord(a, lit, luck)) /\ TapWord(a, lit, luck).tap = a.tap
<1>0. a \in AloudStates
  BY DEF Good
<1>1. CASE ~a.on \/ a.text = Cleared \/ a.state = "AwaitingNextPage"
  BY <1>1 DEF TapWord
<1>2. CASE ~(~a.on \/ a.text = Cleared \/ a.state = "AwaitingNextPage") /\ Live(a) /\ lit
  <2> DEFINE q == StopVoice(a, luck)
             b == TapWord(a, lit, luck)
  <2>1. Quiet(q) /\ GainsNothing(a, q)
    BY <1>0, StopQuiets, StopGainsNothing DEF Good
  <2>2. b = [q EXCEPT !.state = "Off"]
    BY <1>2 DEF TapWord
  <2> HIDE DEF q, b
  <2>3. GainsNothing(a, b) /\ b.state = "Off"
    BY <2>1, <2>2 DEF GainsNothing, SpokenOut, Quiet, AloudStates
  <2> QED BY <2>3, DueStays DEF b, Live, GainsNothing
<1>3. CASE ~(~a.on \/ a.text = Cleared \/ a.state = "AwaitingNextPage") /\ ~(Live(a) /\ lit)
  <2> DEFINE q == StopIfLive(a, luck)
  <2>1. TapWord(a, lit, luck) = BeginAt(q, luck)
    BY <1>3 DEF TapWord
  <2>2. Quiet(q) /\ GainsNothing(a, q)
    BY <1>0, GoodIsSilentOrLive, StopIfLiveQuiets, StopGainsNothing
  <2> HIDE DEF q
  <2>3. q \in AloudStates /\ q.text # Cleared /\ Due(q) /\ q.tap = a.tap
    BY <1>3, <2>2, DueStays DEF Quiet, GainsNothing
  <2> QED BY <2>1, <2>3, BeginKeepsDue
<1> QED BY <1>1, <1>2, <1>3

\* or a change of rate.
LEMMA RestartKeepsDue ==
  ASSUME NEW a, Good(a), Due(a), NEW luck \in AnyLucks
  PROVE  Due(Restart(a, luck)) /\ Restart(a, luck).tap = a.tap
<1>1. CASE a.on /\ a.state = "Speaking"
  <2> DEFINE q == StopVoice(a, luck)
  <2>1. Restart(a, luck) = BeginAt(q, luck)
    BY <1>1 DEF Restart
  <2>2. Quiet(q) /\ GainsNothing(a, q)
    BY StopQuiets, StopGainsNothing DEF Good
  <2> HIDE DEF q
  <2>3. q \in AloudStates /\ q.text # Cleared /\ Due(q) /\ q.tap = a.tap
    BY <1>1, <2>2, DueStays DEF Quiet, GainsNothing, Due, Live
  <2> QED BY <2>1, <2>3, BeginKeepsDue
<1>2. CASE ~(a.on /\ a.state = "Speaking")
  BY <1>2 DEF Restart
<1> QED BY <1>1, <1>2

\* A reboot leaves no report standing, and drops the turn that was asked for.
LEMMA RebootKeepsDue ==
  ASSUME Good(aloud), Due(aloud), NEW luck \in AnyLucks
  PROVE  Due(AloudRebooted(luck)) /\ ~AloudRebooted(luck).tap
<1> DEFINE q == StopVoice(aloud, luck)
           s == SetEnabled(q, FALSE, luck)
           n == NewSerial(s)
           b == AloudRebooted(luck)
<1>1. Quiet(q) /\ OffWhenDisabled(q) /\ q.state = aloud.state /\ GainsNothing(aloud, q)
  BY StopQuiets, StopGainsNothing DEF Good, OffWhenDisabled
<1> HIDE DEF q
<1>2. Good(q) /\ Due(q)
  BY <1>1, QuietIsGood, DueStays DEF Due, Live, GainsNothing
<1>3. Good(s) /\ Due(s) /\ s.state = "Off"
  <2>1. Good(s) /\ Due(s)
    BY <1>2, EnabledKeepsGood, EnabledKeepsDue
  <2>2. ~s.on
    <3>1. CASE ~q.on
      BY <1>1, <3>1 DEF SetEnabled, Quiet, AloudStates
    <3>2. CASE q.on
      <4>1. StopIfLive(q, luck) \in AloudStates
        BY <1>1, StopIfLiveQuiets DEF Quiet
      <4> QED BY <3>2, <4>1 DEF SetEnabled, AloudStates
    <3> QED BY <3>1, <3>2
  <2> QED BY <2>1, <2>2 DEF Good, OffWhenDisabled
<1> HIDE DEF s
<1>4. /\ ~SpokenOut(n) /\ n.state = "Off" /\ n.text = s.text /\ n.skips = s.skips
      /\ n.blanks = s.blanks
  BY <1>3, SerialForgets DEF Good
<1>5. b = [n EXCEPT !.page = Cleared, !.awaiting = FALSE, !.tap = FALSE]
  BY DEF AloudRebooted, n, s, q
<1>6. b.events = n.events /\ b.state = n.state /\ b.text = n.text /\ b.skips = n.skips
      /\ b.blanks = n.blanks /\ b.tap = FALSE
  BY <1>3, <1>5 DEF n, NewSerial, Good, AloudStates
<1> HIDE DEF n, b
<1>7. Due(b) /\ ~b.tap
  BY <1>3, <1>4, <1>6 DEF Due, SpokenOut, Live
<1> QED BY <1>7 DEF b

\* The engine's report of the current utterance goes with its being heard out.
LEMMA EngineKeepsDue ==
  ASSUME Good(aloud), Due(aloud), aloud.voice # <<>>,
         NEW kind \in {"finished", "canceled"}, NEW heard \in BOOLEAN,
         kind = "finished" /\ Head(aloud.voice).current => heard
  PROVE  LET b == [EngineSays(kind) EXCEPT !.heardOut = @ \/ heard]
         IN  Due(b) /\ b.tap = aloud.tap
<1> DEFINE event == [kind |-> kind, current |-> Head(aloud.voice).current]
           r == EngineSays(kind)
           b == [r EXCEPT !.heardOut = @ \/ heard]
<1>0. aloud \in AloudStates /\ r \in AloudStates
  BY EngineKeepsGood DEF Good
<1>1. r = [aloud EXCEPT !.voice = Tail(@), !.events = Append(@, event)]
  BY DEF EngineSays
<1> HIDE DEF r
<1>2. /\ b.events = Append(aloud.events, event) /\ b.state = aloud.state
      /\ b.text = aloud.text /\ b.skips = aloud.skips /\ b.blanks = aloud.blanks
      /\ b.tap = aloud.tap /\ b.heardOut = (aloud.heardOut \/ heard)
  BY <1>0, <1>1 DEF AloudStates
<1>3. event.kind = kind /\ event.current = Head(aloud.voice).current
  OBVIOUS
<1> HIDE DEF event, b
<1>4. \A i \in 1..Len(b.events) :
        \/ i \in 1..Len(aloud.events) /\ b.events[i] = aloud.events[i]
        \/ b.events[i] = event
  BY <1>0, <1>2, ReportTypes
<1>5. SpokenOut(b) => SpokenOut(aloud) \/ heard
  BY <1>3, <1>4 DEF SpokenOut
<1>6. Due(b)
  BY <1>2, <1>5 DEF Due, Live
<1> QED BY <1>2, <1>6 DEF b, r
-----------------------------------------------------------------------------
(* Speed read's turns. *)

\* A turn was asked for once it is awaited, and not before.
SpeedAsks(s) == s.awaiting \/ s.asks = 0

SpeedStates == [on : BOOLEAN, defers : BOOLEAN, pending : {Nothing} \cup Pages,
                page : {Nothing} \cup Pages, awaiting : BOOLEAN, finished : BOOLEAN,
                paused : BOOLEAN, poked : BOOLEAN, tap : BOOLEAN, asks : 0..2]

\* It has its types, and its count.
SpeedGood(s) == s \in SpeedStates /\ SpeedAsks(s)

LEMMA IdleIsGood == SpeedGood(IdleSpeed)
BY DEF IdleSpeed, SpeedGood, SpeedStates, SpeedAsks

\* Nothing the step does before the clock changes who turns, or turns.
LEMMA PeekedKeepsSpeed ==
  ASSUME ReaderTypeOK, NEW s, SpeedGood(s)
  PROVE  SpeedGood(PeekedAt(s)) /\ PeekedAt(s).tap = s.tap /\ PeekedAt(s).defers = s.defers
<1> DEFINE b == PeekedAt(s)
<1>1. channel.page \in {Nothing, Cleared} \cup Pages /\ 0 \in 0..2
  BY DEF ReaderTypeOK
<1>2. CASE b = s
  BY <1>2
<1>3. CASE b = Emptied(s)
  <2>1. b \in SpeedStates /\ b.tap = s.tap /\ b.defers = s.defers
    BY <1>1, <1>3 DEF Emptied, SpeedGood, SpeedStates
  <2>2. b.asks = 0
    BY <1>3 DEF Emptied, SpeedGood, SpeedStates
  <2> HIDE DEF b
  <2> QED BY <2>1, <2>2 DEF b, SpeedGood, SpeedAsks
<1>4. CASE b = [s EXCEPT !.pending = channel.page] /\ channel.page # Cleared
  <2> DEFINE c == [s EXCEPT !.pending = channel.page]
  <2>1. SpeedGood(c) /\ c.tap = s.tap /\ c.defers = s.defers
    BY <1>1, <1>4 DEF SpeedGood, SpeedStates, SpeedAsks
  <2> HIDE DEF c
  <2> QED BY <1>4, <2>1 DEF c
<1> QED BY <1>2, <1>3, <1>4 DEF PeekedAt

LEMMA SettledKeepsSpeed ==
  ASSUME NEW s, SpeedGood(s), NEW painted \in BOOLEAN
  PROVE  /\ SpeedGood(Settled(s, painted)) /\ Settled(s, painted).tap = s.tap
         /\ Settled(s, painted).defers = s.defers
<1> DEFINE c == [s EXCEPT !.pending = Nothing]
           d == [s EXCEPT !.pending = Nothing, !.page = s.pending, !.awaiting = FALSE,
                          !.finished = FALSE, !.asks = 0]
<1>1. SpeedGood(c) /\ c.tap = s.tap /\ c.defers = s.defers
  BY DEF SpeedGood, SpeedStates, SpeedAsks
<1>2. SpeedGood(d) /\ d.tap = s.tap /\ d.defers = s.defers
  <2>1. 0 \in 0..2
    OBVIOUS
  <2>2. d \in SpeedStates /\ d.tap = s.tap /\ d.defers = s.defers
    BY <2>1 DEF SpeedGood, SpeedStates
  <2>3. d.asks = 0
    BY DEF SpeedGood, SpeedStates
  <2> QED BY <2>2, <2>3 DEF SpeedGood, SpeedAsks
<1>3. Settled(s, painted) \in {s, c, d}
  BY DEF Settled, Taken
<1> HIDE DEF c, d
<1> QED BY <1>1, <1>2, <1>3

LEMMA PokedKeepsSpeed ==
  ASSUME NEW s, SpeedGood(s)
  PROVE  SpeedGood(Poked(s)) /\ Poked(s).tap = s.tap /\ Poked(s).defers = s.defers
<1> DEFINE over == s.paused /\ s.finished
           finished == s.finished /\ ~over
           awaiting == s.awaiting /\ ~over
           asks == IF over THEN 0 ELSE s.asks
           paused == ~s.paused
           b == [s EXCEPT !.poked = FALSE, !.paused = paused, !.finished = finished,
                          !.awaiting = awaiting, !.asks = asks]
<1>1. Poked(s) = IF ~s.poked THEN s ELSE b
  BY DEF Poked
<1>2. /\ paused \in BOOLEAN /\ finished \in BOOLEAN /\ awaiting \in BOOLEAN
      /\ asks \in 0..2
  BY DEF SpeedGood, SpeedStates
<1>3. awaiting \/ asks = 0
  BY DEF SpeedGood, SpeedAsks
<1> HIDE DEF over, finished, awaiting, asks, paused
<1>4. b \in SpeedStates /\ b.tap = s.tap /\ b.defers = s.defers
  BY <1>2 DEF SpeedGood, SpeedStates
<1>5. b.asks = asks /\ b.awaiting = awaiting
  BY DEF SpeedGood, SpeedStates
<1> HIDE DEF b
<1>6. SpeedAsks(b)
  BY <1>3, <1>5 DEF SpeedAsks
<1> QED BY <1>1, <1>4, <1>6 DEF SpeedGood

\* The clock: of the page it shows it asks once, and unless read aloud turns.
LEMMA SteppedTurnsOnce ==
  ASSUME NEW s, SpeedGood(s)
  PROVE  /\ SpeedGood(Stepped(s))
         /\ Stepped(s).tap /\ ~s.tap => Stepped(s).asks = 1 /\ ~s.defers
<1>1. CASE Stepped(s) = s
  BY <1>1
<1>2. CASE Stepped(s) = [s EXCEPT !.finished = TRUE]
  <2> DEFINE c == [s EXCEPT !.finished = TRUE]
  <2>1. SpeedGood(c) /\ c.tap = s.tap
    BY DEF SpeedGood, SpeedStates, SpeedAsks
  <2> HIDE DEF c
  <2> QED BY <1>2, <2>1 DEF c
<1>3. CASE Stepped(s) = Asked(s) /\ ~s.awaiting
  <2>1. s.asks = 0
    BY <1>3 DEF SpeedGood, SpeedStates, SpeedAsks
  <2> DEFINE tap == s.tap \/ ~s.defers
             c == [s EXCEPT !.awaiting = TRUE, !.tap = tap, !.asks = 1]
  <2>2. Asked(s) = c
    BY <2>1 DEF Asked, SpeedGood, SpeedStates
  <2>3. tap \in BOOLEAN /\ 1 \in 0..2
    OBVIOUS
  <2>4. tap => s.tap \/ ~s.defers
    OBVIOUS
  <2> HIDE DEF tap
  <2>5. c \in SpeedStates /\ c.tap = tap /\ c.asks = 1 /\ c.awaiting
    BY <2>3 DEF SpeedGood, SpeedStates
  <2> HIDE DEF c
  <2> QED BY <1>3, <2>2, <2>4, <2>5 DEF SpeedGood, SpeedAsks
<1> QED BY <1>1, <1>2, <1>3 DEF Stepped
-----------------------------------------------------------------------------
(* Every step once more. *)

\* The same of the state to come.
LEMMA DuePrimed ==
  /\ Due(aloud') => Due(aloud)'
  /\ SpeedGood(speed') => SpeedGood(speed)'
BY DEF Due, SpokenOut, Live, SpeedGood, SpeedStates, SpeedAsks

\* A frame of read aloud earns the turn it asks for.
LEMMA FrameIsEarned ==
  ASSUME Good(aloud), Due(aloud), ReaderTypeOK, NEW want \in BOOLEAN, AloudFrame(want)
  PROVE  Due(aloud') /\ Earned(aloud, aloud')
<1> DEFINE Read(luck) ==
             LET set == SetEnabled(aloud, want, luck)
             IN  IF channel.fresh THEN PageArrived(set, channel.page, luck) ELSE set
           read == {Read(luck) : luck \in Lucks}
<1>1. ASSUME NEW luck \in Lucks
      PROVE  Good(Read(luck)) /\ Due(Read(luck)) /\ Earned(aloud, Read(luck))
  <2>1. luck \in AnyLucks
    BY <1>1, LuckIsAny
  <2> DEFINE set == SetEnabled(aloud, want, luck)
  <2>2. Good(set) /\ Due(set) /\ set.tap = aloud.tap
    BY <2>1, EnabledKeepsGood, EnabledKeepsDue
  <2>3. channel.page \in AnyPages
    BY DEF ReaderTypeOK, AnyPages
  <2> HIDE DEF set
  <2> DEFINE page == PageArrived(set, channel.page, luck)
  <2>4. Good(page) /\ Due(page) /\ Earned(set, page)
    BY <2>1, <2>2, <2>3, PageKeepsGood, PageIsEarned
  <2> HIDE DEF page
  <2>5. Earned(aloud, page) /\ Earned(aloud, set)
    BY <2>2, <2>4 DEF Earned
  <2> QED BY <2>2, <2>4, <2>5 DEF set, page
<1>2. aloud' \in read \cup {NextHandled(a) : a \in {r \in read : r.events # <<>>}}
  BY DEF AloudFrame
<1> HIDE DEF Read
<1>3. CASE \E luck \in Lucks : aloud' = Read(luck)
  BY <1>1, <1>3
<1>4. CASE \E luck \in Lucks : /\ Read(luck).events # <<>>
                               /\ aloud' = NextHandled(Read(luck))
  <2>1. PICK luck \in Lucks : /\ Read(luck).events # <<>>
                              /\ aloud' = NextHandled(Read(luck))
    BY <1>4
  <2> DEFINE r == Read(luck)
  <2>2. Good(r) /\ Due(r) /\ Earned(aloud, r) /\ r.events # <<>>
    BY <1>1, <2>1
  <2> HIDE DEF r
  <2> DEFINE n == NextHandled(r)
  <2>3. /\ Due(n) /\ Earned(r, n) /\ n.page = r.page /\ n.blanks = r.blanks
        /\ n.heardOut = r.heardOut
    BY <2>2, EventIsEarned
  <2> HIDE DEF n
  <2>4. Earned(aloud, n)
    BY <2>2, <2>3 DEF Earned
  <2> QED BY <2>1, <2>3, <2>4 DEF n, r
<1> QED BY <1>2, <1>3, <1>4

\* No touch asks for a turn.
LEMMA TouchKeepsDue ==
  ASSUME Good(aloud), Due(aloud), MagicTap \/ WordTapped \/ RateChanges
  PROVE  Due(aloud') /\ aloud'.tap = aloud.tap
<1>1. CASE MagicTap
  <2>1. PICK luck \in Lucks : aloud' = ToggleSpeech(aloud, luck)
    BY <1>1 DEF MagicTap
  <2> QED BY <2>1, LuckIsAny, ToggleKeepsDue
<1>2. CASE WordTapped
  <2>1. PICK lit \in BOOLEAN, luck \in Lucks : aloud' = TapWord(aloud, lit, luck)
    BY <1>2 DEF WordTapped
  <2> QED BY <2>1, LuckIsAny, TapKeepsDue
<1>3. CASE RateChanges
  <2>1. PICK luck \in Lucks : aloud' = Restart(aloud, luck)
    BY <1>3 DEF RateChanges
  <2> QED BY <2>1, LuckIsAny, RestartKeepsDue
<1> QED BY <1>1, <1>2, <1>3

\* What read aloud says of its turns, in every step.
LEMMA AloudEarns ==
  ASSUME HandsInv, wish \in Settings, Due(aloud), HandsNext
  PROVE  Due(aloud') /\ Earned(aloud, aloud')
<1>0. Good(aloud) /\ ReaderTypeOK /\ aloud \in AloudStates
  BY DEF HandsInv, Good
<1>1. ASSUME Due(aloud'), aloud'.tap => aloud.tap
      PROVE  Due(aloud') /\ Earned(aloud, aloud')
  BY <1>1 DEF Earned
<1>2. CASE UNCHANGED aloud
  BY <1>1, <1>2
<1>3. CASE FirmwareTurns \/ HandsSleep
  <2>1. aloud' = [aloud EXCEPT !.tap = FALSE]
    BY <1>3 DEF FirmwareTurns, HandsSleep
  <2>2. Due(aloud') /\ ~aloud'.tap
    BY <1>0, <2>1 DEF AloudStates, Due, SpokenOut, Live
  <2> QED BY <1>1, <2>2
<1>4. CASE AloudRuns
  <2>1. CASE AloudFrame(wish.aloud)
    <3>1. wish.aloud \in BOOLEAN
      BY DEF Settings
    <3> QED BY <1>0, <2>1, <3>1, FrameIsEarned
  <2>2. CASE AwaitTimesOut
    <3>1. Due(aloud') /\ aloud'.tap = aloud.tap
      BY <1>0, <2>2, TimeoutKeepsDue DEF AwaitTimesOut
    <3> QED BY <1>1, <3>1
  <2> QED BY <1>4, <2>1, <2>2 DEF AloudRuns
<1>5. CASE RockerRuns
  <2> DEFINE free == [aloud EXCEPT !.held = FALSE]
  <2>1. \/ UNCHANGED aloud \/ aloud' = free
        \/ aloud' = [aloud EXCEPT !.category = "Ambient"]
        \/ aloud' = [free EXCEPT !.category = "Ambient"]
    BY <1>5 DEF RockerRuns, SessionIsReleased, Arm, Disarm, Borrow
  <2>2. GainsNothing(aloud, aloud') /\ aloud'.state = aloud.state
    BY <1>0, <2>1 DEF AloudStates, GainsNothing, SpokenOut
  <2>3. Due(aloud') /\ aloud'.tap = aloud.tap
    BY <2>2, DueStays DEF Due, Live, GainsNothing
  <2> QED BY <1>1, <2>3
<1>6. CASE Engine
  <2> DEFINE heard == Head(aloud.voice).current
  <2>1. /\ aloud.voice # <<>>
        /\ aloud' = [EngineSays("finished") EXCEPT !.heardOut = @ \/ heard]
    BY <1>6 DEF Engine, EngineFinishes
  <2>2. heard \in BOOLEAN
    BY <1>0, <2>1, EngineKeepsGood
  <2> QED BY <1>0, <1>1, <2>1, <2>2, EngineKeepsDue
<1>7. CASE PhoneInterrupts
  <2>1. aloud.voice # <<>> /\ aloud' = EngineSays("canceled")
    BY <1>7 DEF PhoneInterrupts, PhoneCancels
  <2> DEFINE said == EngineSays("canceled")
  <2>2. said \in AloudStates
    BY <1>0, <2>1, EngineKeepsGood DEF Good
  <2>3. LET b == [said EXCEPT !.heardOut = @ \/ FALSE] IN Due(b) /\ b.tap = aloud.tap
    BY <1>0, <2>1, EngineKeepsDue
  <2> HIDE DEF said
  <2>4. [said EXCEPT !.heardOut = @ \/ FALSE] = said
    BY <2>2 DEF AloudStates
  <2> QED BY <1>1, <2>1, <2>3, <2>4 DEF said
<1>8. CASE OwnerTouches \/ MagicTouch
  <2>1. CASE MagicTap \/ WordTapped \/ RateChanges
    BY <1>0, <1>1, <2>1, TouchKeepsDue
  <2> QED BY <1>2, <1>8, <2>1 DEF OwnerTouches, MagicTouch, AloudSame
<1>9. CASE HandsReboot
  <2>1. PICK luck \in Lucks : aloud' = AloudRebooted(luck)
    BY <1>9 DEF HandsReboot, AloudReboots
  <2> QED BY <1>0, <1>1, <2>1, LuckIsAny, RebootKeepsDue
<1>10. CASE HandsRelaunch
  <2>1. aloud' = SilentAloud
    BY <1>10 DEF HandsRelaunch
  <2> QED BY <1>1, <2>1, SilentIsDue
<1> QED BY <1>2, <1>3, <1>4, <1>5, <1>6, <1>7, <1>8, <1>9, <1>10
        DEF HandsNext, HandsMain, HarnessRuns, HandsOwner, HandsOutside, SpeedPolls,
            SpeedRuns, RenderTask, OwnerReads, OwnerWishes, AloudSame

\* What speed read says of its turns, in every step.
LEMMA SpeedEarns ==
  ASSUME HandsInv, wish \in Settings, SpeedGood(speed), HandsNext
  PROVE  /\ SpeedGood(speed')
         /\ speed'.tap /\ ~speed.tap => speed'.asks = 1 /\ ~aloud.on
<1>0. ReaderTypeOK /\ speed \in SpeedStates /\ SpeedAsks(speed)
  BY DEF HandsInv, SpeedGood
<1>1. CASE UNCHANGED speed
  BY <1>1
<1>2. CASE FirmwareTurns \/ HandsSleep \/ HandsReboot
  <2>1. speed' = [speed EXCEPT !.tap = FALSE]
    BY <1>2 DEF FirmwareTurns, HandsSleep, HandsReboot
  <2> QED BY <1>0, <2>1 DEF SpeedGood, SpeedStates, SpeedAsks
<1>3. CASE SpeedPolls
  <2> DEFINE q == SpeedSwitched(wish.speed)
  <2>0. wish.speed \in BOOLEAN /\ wish.aloud \in BOOLEAN
    BY DEF Settings
  <2>1. q \in SpeedStates /\ q.tap = speed.tap /\ SpeedAsks(q)
    <3> DEFINE e == Emptied(speed)
    <3>1. 0 \in 0..2
      OBVIOUS
    <3>2. e \in SpeedStates /\ e.tap = speed.tap /\ e.asks = 0
      BY <1>0, <3>1 DEF Emptied, SpeedStates
    <3> HIDE DEF e
    <3>3. CASE q = speed
      BY <1>0, <3>3
    <3>4. CASE q = [speed EXCEPT !.on = TRUE]
      <4> HIDE DEF q
      <4> QED BY <1>0, <3>4 DEF SpeedStates, SpeedAsks
    <3>5. CASE q = [e EXCEPT !.on = FALSE]
      <4> HIDE DEF q
      <4> QED BY <3>2, <3>5 DEF SpeedStates, SpeedAsks
    <3> QED BY <3>3, <3>4, <3>5 DEF SpeedSwitched, e
  <2>2. speed' = [q EXCEPT !.defers = wish.aloud]
    BY <1>3 DEF SpeedPolls
  <2> HIDE DEF q
  <2>3. SpeedGood(speed') /\ speed'.tap = speed.tap
    BY <2>0, <2>1, <2>2 DEF SpeedGood, SpeedStates, SpeedAsks
  <2> QED BY <2>3
<1>4. CASE SpeedRuns
  <2> DEFINE Taking(painted) == Poked(Settled(PeekedAt(speed), painted))
             taking == {Taking(painted) : painted \in BOOLEAN}
  <2>1. ASSUME NEW painted \in BOOLEAN
        PROVE  /\ SpeedGood(Taking(painted)) /\ Taking(painted).tap = speed.tap
               /\ Taking(painted).defers = speed.defers
    <3> DEFINE p == PeekedAt(speed)
    <3>1. SpeedGood(p) /\ p.tap = speed.tap /\ p.defers = speed.defers
      BY <1>0, PeekedKeepsSpeed
    <3> HIDE DEF p
    <3> DEFINE s == Settled(p, painted)
    <3>2. SpeedGood(s) /\ s.tap = speed.tap /\ s.defers = speed.defers
      BY <2>1, <3>1, SettledKeepsSpeed
    <3> HIDE DEF s
    <3>3. SpeedGood(Poked(s)) /\ Poked(s).tap = s.tap /\ Poked(s).defers = s.defers
      BY <3>2, PokedKeepsSpeed
    <3> QED BY <3>2, <3>3 DEF s, p
  <2>2. speed' \in taking \cup {Stepped(s) : s \in taking}
    BY <1>4 DEF SpeedRuns, SpeedStep
  <2>3. aloud.on => speed.defers
    BY <1>4 DEF SpeedRuns
  <2> HIDE DEF Taking
  <2>4. CASE \E painted \in BOOLEAN : speed' = Taking(painted)
    BY <2>1, <2>4
  <2>5. CASE \E painted \in BOOLEAN : speed' = Stepped(Taking(painted))
    <3>1. PICK painted \in BOOLEAN : speed' = Stepped(Taking(painted))
      BY <2>5
    <3> DEFINE s == Taking(painted)
    <3>2. SpeedGood(s) /\ s.tap = speed.tap /\ s.defers = speed.defers
      BY <2>1
    <3> HIDE DEF s
    <3>3. /\ SpeedGood(Stepped(s))
          /\ Stepped(s).tap /\ ~s.tap => Stepped(s).asks = 1 /\ ~s.defers
      BY <3>2, SteppedTurnsOnce
    <3> QED BY <2>3, <3>1, <3>2, <3>3 DEF s
  <2> QED BY <2>2, <2>4, <2>5
<1>5. CASE SpeedPoked
  <2>1. speed' = [speed EXCEPT !.poked = TRUE]
    BY <1>5 DEF SpeedPoked
  <2> QED BY <1>0, <2>1 DEF SpeedGood, SpeedStates, SpeedAsks
<1>6. CASE HandsRelaunch
  <2>1. speed' = IdleSpeed
    BY <1>6 DEF HandsRelaunch
  <2> QED BY <2>1, IdleIsGood DEF IdleSpeed
<1> QED BY <1>1, <1>2, <1>3, <1>4, <1>5, <1>6
        DEF HandsNext, HandsMain, HarnessRuns, HandsOwner, HandsOutside, AloudRuns,
            RockerRuns, RenderTask, Engine, OwnerReads, OwnerTouches, OwnerWishes,
            MagicTouch, PhoneInterrupts

\* The invariant behind the turns, of every variable.
EarnInv == HandsInv /\ wish \in Settings /\ Due(aloud) /\ SpeedGood(speed)

LEMMA EarnInvStep ==
  ASSUME EarnInv, [HandsNext]_handsVars PROVE EarnInv'
<1>1. CASE HandsNext
  <2>1. ReaderTypeOK'
    BY <1>1, ReaderStep DEF EarnInv, HandsInv
  <2>2. Good(aloud)' /\ RockerTypeOK' /\ wish' \in Settings
    BY <1>1, AloudStep, WishStep DEF EarnInv
  <2>3. Due(aloud') /\ SpeedGood(speed')
    BY <1>1, AloudEarns, SpeedEarns DEF EarnInv
  <2> QED BY <2>1, <2>2, <2>3, DuePrimed DEF EarnInv, HandsInv
<1>2. CASE UNCHANGED handsVars
  <2>1. Good(aloud') /\ Due(aloud') /\ SpeedGood(speed')
    BY <1>2 DEF handsVars, EarnInv, HandsInv
  <2> QED BY <1>2, <2>1, GoodPrimed, DuePrimed
          DEF handsVars, EarnInv, HandsInv, ReaderTypeOK, RockerTypeOK
<1> QED BY <1>1, <1>2

LEMMA EarnInvHolds == HandsSpec => []EarnInv
<1>1. HandsInit => EarnInv
  BY InitGood, SilentIsDue, IdleIsGood DEF HandsInit, EarnInv, AloudInit, SpeedInit
<1>2. EarnInv /\ [HandsNext]_handsVars => EarnInv'
  BY EarnInvStep
<1> QED BY <1>1, <1>2, PTL DEF HandsSpec

\* The types of all that reads without hands (HandsTypeOK).
THEOREM HandsTyped == HandsSpec => []HandsTypeOK
<1>1. EarnInv => HandsTypeOK
  BY DEF EarnInv, HandsInv, Good, SpeedGood, SpeedStates, HandsTypeOK, AloudTypeOK,
         SpeedTypeOK
<1> QED BY <1>1, EarnInvHolds, PTL

\* A page is turned by itself only when it is done with (TurnsAreEarned): for
\* any book and any bound on blank pages, through taps, settings, reboots and
\* whatever the engine reports late.
THEOREM TurnsAreAlwaysEarned == HandsSpec => TurnsAreEarned
<1>1. EarnInv /\ [HandsNext]_handsVars =>
        [/\ aloud'.tap /\ ~aloud.tap =>
              aloud'.heardOut \/ (aloud'.page = Cleared /\ aloud'.blanks <= MaxSkips)
         /\ speed'.tap /\ ~speed.tap => speed'.asks = 1 /\ ~aloud.on]_handsVars
  BY AloudEarns, SpeedEarns DEF EarnInv, Earned
<1> QED BY <1>1, EarnInvHolds, PTL DEF HandsSpec, TurnsAreEarned
-----------------------------------------------------------------------------
(* A page that is waited for has its deadline.  In AwaitingNextPage read    *)
(* aloud is silent and deaf to taps: only the page, the deadline, a setting *)
(* or a reboot ends it, and the page may never come (the end of the book, a *)
(* queued turn that going to sleep dropped).                                *)

Timed(a) == a.state = "AwaitingNextPage" => a.awaiting

\* From a to b no wait begins and no deadline is withdrawn.
WaitsAlike(a, b) ==
  /\ b.awaiting = a.awaiting
  /\ b.state = "AwaitingNextPage" => a.state = "AwaitingNextPage"

LEMMA TimedStays ==
  ASSUME NEW a, NEW b, Timed(a), WaitsAlike(a, b) PROVE Timed(b)
BY DEF Timed, WaitsAlike

LEMMA StopWaitsAlike ==
  ASSUME NEW a \in AloudStates, NEW luck \in AnyLucks
  PROVE  WaitsAlike(a, StopVoice(a, luck)) /\ WaitsAlike(a, StopIfLive(a, luck))
BY DEF StopVoice, StopIfLive, WaitsAlike, AloudStates

LEMMA SerialWaitsAlike ==
  ASSUME NEW a \in AloudStates PROVE WaitsAlike(a, NewSerial(a))
BY DEF NewSerial, WaitsAlike, AloudStates

LEMMA StartWaitsAlike ==
  ASSUME NEW a \in AloudStates, NEW luck \in AnyLucks
  PROVE  WaitsAlike(a, Start(a, luck))
<1> DEFINE sessioned == [EnsureSession(a, luck) EXCEPT !.paused = FALSE]
           ready == NewSerial(sessioned)
           said == [page |-> a.page, known |-> a.text = a.page, current |-> TRUE]
           full == [ready EXCEPT !.voice = Append(@, said), !.heardOut = FALSE]
<1>1. sessioned \in AloudStates /\ WaitsAlike(a, sessioned)
  BY DEF EnsureSession, AloudStates, AnyLucks, WaitsAlike
<1> HIDE DEF sessioned
<1>2. WaitsAlike(a, ready) /\ WaitsAlike(a, full)
  BY <1>1 DEF NewSerial, AloudStates, WaitsAlike
<1> HIDE DEF ready, full
<1>3. WaitsAlike(a, a)
  BY DEF WaitsAlike
<1> QED BY <1>2, <1>3 DEF Start, sessioned, ready, said, full

\* A turn is asked for with its deadline.
LEMMA TurnIsTimed ==
  ASSUME NEW a \in AloudStates
  PROVE  QueueTurn(a).awaiting /\ Timed(QueueTurn(a))
BY DEF QueueTurn, AloudStates, Timed

LEMMA EnabledKeepsTimed ==
  ASSUME NEW a, Good(a), Timed(a), NEW on \in BOOLEAN, NEW luck \in AnyLucks
  PROVE  Timed(SetEnabled(a, on, luck))
<1> DEFINE q == StopIfLive(a, luck)
<1>1. a \in AloudStates /\ Quiet(q)
  BY GoodIsSilentOrLive, StopIfLiveQuiets
<1> HIDE DEF q
<1> QED BY <1>1 DEF SetEnabled, q, Quiet, AloudStates, Timed

LEMMA BeginKeepsTimed ==
  ASSUME NEW a \in AloudStates, NEW luck \in AnyLucks PROVE Timed(BeginAt(a, luck))
<1> DEFINE w == [a EXCEPT !.state = "Speaking"]
<1>1. w \in AloudStates /\ w.state = "Speaking"
  BY DEF AloudStates, CoreStates
<1> HIDE DEF w
<1> QED BY <1>1, StartWaitsAlike DEF BeginAt, w, WaitsAlike, Timed

\* The page that arrives ends the wait, and its deadline before anything else:
\* the deadline of a turn that is asked for then is a new one.
LEMMA PageKeepsTimed ==
  ASSUME NEW a, Good(a), NEW page \in AnyPages, NEW luck \in AnyLucks
  PROVE  Timed(PageArrived(a, page, luck))
<1> DEFINE b == [a EXCEPT !.page = TextOf(page), !.awaiting = FALSE]
           q == StopIfLive(b, luck)
<1>0. 0 \in 0..MaxSkips /\ 0 \in 0..(MaxSkips + 1)
  BY SkipsAssumption
<1>1. PageArrived(a, page, luck) = CoreTakes(b, page, luck)
  BY DEF PageArrived
<1>2. TextOf(page) \in {Cleared} \cup Pages
  BY DEF TextOf, HasWords
<1>3. b \in AloudStates /\ Heard(b) /\ OffWhenDisabled(b) /\ (Silent(b) \/ Live(b))
  BY <1>2, GoodIsSilentOrLive
     DEF Good, AloudStates, Heard, OffWhenDisabled, Silent, Live
<1> HIDE DEF b
<1>4. CASE ~b.on \/ (Live(b) /\ HasWords(page) /\ page = b.text)
  BY <1>1, <1>3, <1>4 DEF CoreTakes, OffWhenDisabled, Live, Timed
<1>5. CASE ~(~b.on \/ (Live(b) /\ HasWords(page) /\ page = b.text))
  <2>1. q \in AloudStates
    BY <1>3, StopIfLiveQuiets DEF Quiet
  <2> HIDE DEF q
  <2>2. CoreTakes(b, page, luck) =
          IF page = Cleared THEN ReaderExited(q)
          ELSE IF HasWords(page) THEN WordsArrived(q, page, luck)
          ELSE BlankArrived(q)
    BY <1>5 DEF CoreTakes, q
  <2>3. Timed(ReaderExited(q))
    BY <2>1 DEF ReaderExited, AloudStates, Timed
  <2>4. ASSUME HasWords(page) PROVE Timed(WordsArrived(q, page, luck))
    <3> DEFINE w == [q EXCEPT !.text = page, !.skips = 0, !.state = "Speaking",
                              !.heardOut = FALSE, !.blanks = 0]
    <3>1. w \in AloudStates /\ w.state = "Speaking"
      BY <1>0, <2>1, <2>4 DEF HasWords, AloudStates, CoreStates
    <3> HIDE DEF w
    <3> QED BY <3>1, StartWaitsAlike DEF WordsArrived, w, WaitsAlike, Timed
  <2>5. Timed(BlankArrived(q))
    <3> DEFINE blank == [q EXCEPT !.text = Cleared, !.heardOut = FALSE]
               turn == [blank EXCEPT !.skips = @ + 1, !.state = "AwaitingNextPage"]
    <3>1. blank \in AloudStates /\ blank.skips = q.skips
      BY <2>1 DEF AloudStates
    <3> HIDE DEF blank
    <3>2. CASE q.skips < MaxSkips
      <4>0. blank.skips + 1 \in 0..MaxSkips
        BY <3>1, <3>2, SkipsAssumption DEF AloudStates
      <4>1. turn \in AloudStates
        BY <3>1, <4>0 DEF AloudStates, CoreStates
      <4>2. BlankArrived(q) = QueueTurn(turn)
        BY <3>2 DEF BlankArrived, blank
      <4> HIDE DEF turn
      <4> QED BY <4>1, <4>2, TurnIsTimed
    <3>3. CASE ~(q.skips < MaxSkips)
      <4>1. BlankArrived(q) = [blank EXCEPT !.state = "Off"]
        BY <3>3 DEF BlankArrived, blank
      <4> QED BY <3>1, <4>1 DEF AloudStates, Timed
    <3> QED BY <3>2, <3>3
  <2> QED BY <1>1, <2>2, <2>3, <2>4, <2>5
<1> QED BY <1>4, <1>5

LEMMA EventKeepsTimed ==
  ASSUME NEW a, Good(a), Timed(a), a.events # <<>> PROVE Timed(NextHandled(a))
<1> DEFINE h == Handled(a, Head(a.events))
<1>1. a \in AloudStates
  BY DEF Good
<1>2. Timed(UtteranceFinished(a))
  <2>1. [a EXCEPT !.state = "AwaitingNextPage"] \in AloudStates
    BY <1>1 DEF AloudStates, CoreStates
  <2> QED BY <2>1, TurnIsTimed DEF UtteranceFinished
<1>3. Timed(UtteranceCanceled(a))
  BY <1>1 DEF UtteranceCanceled, AloudStates, Timed
<1>4. Timed(h)
  BY <1>2, <1>3 DEF Handled
<1>5. NextHandled(a) = [h EXCEPT !.events = Tail(a.events)]
  BY DEF NextHandled
<1>6. [h EXCEPT !.events = Tail(a.events)].state = h.state
      /\ [h EXCEPT !.events = Tail(a.events)].awaiting = h.awaiting
  BY <1>1 DEF Handled, UtteranceFinished, UtteranceCanceled, QueueTurn, AloudStates
<1> QED BY <1>4, <1>5, <1>6 DEF Timed

LEMMA TouchKeepsTimed ==
  ASSUME NEW a, Good(a), Timed(a), NEW lit \in BOOLEAN, NEW luck \in AnyLucks
  PROVE  /\ Timed(ToggleSpeech(a, luck)) /\ Timed(TapWord(a, lit, luck))
         /\ Timed(Restart(a, luck))
<1>1. a \in AloudStates /\ StopVoice(a, luck) \in AloudStates
  BY StopQuiets DEF Good, Quiet
<1>2. StopIfLive(a, luck) \in AloudStates
  BY GoodIsSilentOrLive, StopIfLiveQuiets DEF Quiet
<1>3. Timed(ToggleSpeech(a, luck))
  <2>1. Timed(Paused(a)) /\ Timed(Resumed(a))
    BY <1>1 DEF Paused, Resumed, AloudStates, Timed
  <2>2. Timed(BeginAt(a, luck))
    BY <1>1, BeginKeepsTimed
  <2> QED BY <2>1, <2>2 DEF ToggleSpeech
<1>4. Timed(TapWord(a, lit, luck))
  <2>1. Timed([StopVoice(a, luck) EXCEPT !.state = "Off"])
    BY <1>1 DEF AloudStates, Timed
  <2>2. Timed(BeginAt(StopIfLive(a, luck), luck))
    BY <1>2, BeginKeepsTimed
  <2> QED BY <2>1, <2>2 DEF TapWord
<1>5. Timed(Restart(a, luck))
  BY <1>1, BeginKeepsTimed DEF Restart
<1> QED BY <1>3, <1>4, <1>5

LEMMA RebootKeepsTimed ==
  ASSUME Good(aloud), Timed(aloud), NEW luck \in AnyLucks
  PROVE  Timed(AloudRebooted(luck))
<1> DEFINE q == StopVoice(aloud, luck)
           s == SetEnabled(q, FALSE, luck)
           n == NewSerial(s)
<1>1. Quiet(q) /\ OffWhenDisabled(q) /\ WaitsAlike(aloud, q)
  BY StopQuiets, StopWaitsAlike DEF Good, OffWhenDisabled
<1> HIDE DEF q
<1>2. s \in AloudStates /\ s.state = "Off"
  <2>1. Good(s)
    BY <1>1, QuietIsGood, EnabledKeepsGood
  <2>2. ~s.on
    <3>1. StopIfLive(q, luck) \in AloudStates
      BY <1>1, StopIfLiveQuiets DEF Quiet
    <3> QED BY <1>1, <3>1 DEF SetEnabled, Quiet, AloudStates
  <2> QED BY <2>1, <2>2 DEF Good, OffWhenDisabled
<1> HIDE DEF s
<1>3. n.state = "Off"
  BY <1>2, SerialForgets
<1>4. AloudRebooted(luck) = [n EXCEPT !.page = Cleared, !.awaiting = FALSE, !.tap = FALSE]
  BY DEF AloudRebooted, n, s, q
<1>5. AloudRebooted(luck).state = n.state
  BY <1>2, <1>4 DEF n, NewSerial, AloudStates
<1> QED BY <1>3, <1>5 DEF Timed

\* A frame of read aloud: the setting, the page, an event.
LEMMA FrameKeepsTimed ==
  ASSUME Good(aloud), Timed(aloud), ReaderTypeOK, NEW want \in BOOLEAN,
         AloudFrame(want)
  PROVE  Timed(aloud')
<1> DEFINE Read(luck) ==
             LET set == SetEnabled(aloud, want, luck)
             IN  IF channel.fresh THEN PageArrived(set, channel.page, luck) ELSE set
           read == {Read(luck) : luck \in Lucks}
<1>1. ASSUME NEW luck \in Lucks PROVE Good(Read(luck)) /\ Timed(Read(luck))
  <2>1. luck \in AnyLucks
    BY <1>1, LuckIsAny
  <2> DEFINE set == SetEnabled(aloud, want, luck)
  <2>2. Good(set) /\ Timed(set)
    BY <2>1, EnabledKeepsGood, EnabledKeepsTimed
  <2>3. channel.page \in AnyPages
    BY DEF ReaderTypeOK, AnyPages
  <2> HIDE DEF set
  <2>4. Good(PageArrived(set, channel.page, luck)) /\ Timed(PageArrived(set, channel.page, luck))
    BY <2>1, <2>2, <2>3, PageKeepsGood, PageKeepsTimed
  <2> QED BY <2>2, <2>4 DEF set
<1>2. aloud' \in read \cup {NextHandled(a) : a \in {r \in read : r.events # <<>>}}
  BY DEF AloudFrame
<1> HIDE DEF Read
<1>3. CASE \E luck \in Lucks : aloud' = Read(luck)
  BY <1>1, <1>3
<1>4. CASE \E luck \in Lucks : /\ Read(luck).events # <<>>
                               /\ aloud' = NextHandled(Read(luck))
  BY <1>1, <1>4, EventKeepsTimed
<1> QED BY <1>2, <1>3, <1>4

LEMMA TimedStep ==
  ASSUME HandsInv, wish \in Settings, Timed(aloud), [HandsNext]_handsVars
  PROVE  Timed(aloud')
<1>0. Good(aloud) /\ ReaderTypeOK /\ aloud \in AloudStates
  BY DEF HandsInv, Good
<1>1. CASE FirmwareTurns \/ HandsSleep
  BY <1>0, <1>1 DEF FirmwareTurns, HandsSleep, AloudStates, Timed
<1>2. CASE AloudRuns
  <2>1. CASE AloudFrame(wish.aloud)
    <3>1. wish.aloud \in BOOLEAN
      BY DEF Settings
    <3> QED BY <1>0, <2>1, <3>1, FrameKeepsTimed
  <2>2. CASE AwaitTimesOut
    BY <1>0, <2>2 DEF AwaitTimesOut, PageTimeout, AloudStates, Timed
  <2> QED BY <1>2, <2>1, <2>2 DEF AloudRuns
<1>3. CASE RockerRuns
  <2>1. aloud'.state = aloud.state /\ aloud'.awaiting = aloud.awaiting
    BY <1>0, <1>3 DEF RockerRuns, SessionIsReleased, Arm, Disarm, Borrow, AloudStates
  <2> QED BY <2>1 DEF Timed
<1>4. CASE Engine \/ PhoneInterrupts
  <2>1. WaitsAlike(aloud, aloud')
    BY <1>0, <1>4 DEF Engine, EngineFinishes, PhoneInterrupts, PhoneCancels, EngineSays,
       AloudStates, WaitsAlike
  <2> QED BY <2>1, TimedStays
<1>5. CASE OwnerTouches \/ MagicTouch
  <2>1. MagicTap \/ WordTapped \/ RateChanges \/ UNCHANGED aloud
    BY <1>5 DEF OwnerTouches, MagicTouch, AloudSame
  <2>2. CASE MagicTap
    <3>1. PICK luck \in Lucks : aloud' = ToggleSpeech(aloud, luck)
      BY <2>2 DEF MagicTap
    <3> QED BY <1>0, <3>1, LuckIsAny, TouchKeepsTimed
  <2>3. CASE WordTapped
    <3>1. PICK lit \in BOOLEAN, luck \in Lucks : aloud' = TapWord(aloud, lit, luck)
      BY <2>3 DEF WordTapped
    <3> QED BY <1>0, <3>1, LuckIsAny, TouchKeepsTimed
  <2>4. CASE RateChanges
    <3>1. PICK luck \in Lucks : aloud' = Restart(aloud, luck)
      BY <2>4 DEF RateChanges
    <3> QED BY <1>0, <3>1, LuckIsAny, TouchKeepsTimed
  <2> QED BY <2>1, <2>2, <2>3, <2>4
<1>6. CASE HandsReboot
  BY <1>0, <1>6, LuckIsAny, RebootKeepsTimed DEF HandsReboot, AloudReboots
<1>7. CASE HandsRelaunch
  BY <1>7 DEF HandsRelaunch, SilentAloud, Timed
<1>8. CASE SpeedPolls \/ SpeedRuns \/ RenderTask \/ OwnerReads \/ OwnerWishes
           \/ UNCHANGED handsVars
  BY <1>8 DEF SpeedPolls, SpeedRuns, RenderTask, OwnerReads, OwnerWishes, AloudSame,
     handsVars
<1> QED BY <1>1, <1>2, <1>3, <1>4, <1>5, <1>6, <1>7, <1>8
        DEF HandsNext, HandsMain, HarnessRuns, HandsOwner, HandsOutside

\* While read aloud waits for the page it asked for, it is on, says nothing,
\* and its five seconds are running.
AwaitIsTimed ==
  aloud.state = "AwaitingNextPage" =>
    aloud.on /\ aloud.voice = <<>> /\ aloud.awaiting

\* Read aloud is never left waiting for a page: whatever turns, taps, settings,
\* sleeps, reboots and late reports came before, the deadline that ends the
\* wait is set (AwaitIsTimed).  To that the scheduler adds that frames go by.
THEOREM AwaitsEnd == HandsSpec => []AwaitIsTimed
<1>1. HandsInit => Timed(aloud)
  BY DEF HandsInit, AloudInit, SilentAloud, Timed
<1>2. HandsInv /\ wish \in Settings /\ Timed(aloud) /\ [HandsNext]_handsVars
        => Timed(aloud)'
  BY TimedStep DEF Timed
<1>3. HandsInv /\ Timed(aloud) => AwaitIsTimed
  BY DEF HandsInv, Good, OffWhenDisabled, Speaks, Silent, Live, Timed, AwaitIsTimed
<1> QED BY <1>1, <1>2, <1>3, HandsInvariant, PTL DEF HandsSpec
=============================================================================
