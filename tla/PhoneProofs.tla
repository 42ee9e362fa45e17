----------------------------- MODULE PhoneProofs -----------------------------
(***************************************************************************)
(* The composition does each of its parts no harm: every step of the phone *)
(* is, to either server, one of its own or none, and so it is to the books *)
(* handed over and to what reads a book out.  So what is proved of each of *)
(* them alone holds of the phone.                                          *)
(***************************************************************************)
EXTENDS Phone, FileTransferProofs, HandsFreeProofs

\* The phone starts as its parts start.
LEMMA PhoneStart == PhoneInit => Init /\ HandsInit /\ DocInit /\ WsInit
BY DEF PhoneInit, Init

\* A step of the phone, seen from the web server.
LEMMA PhoneWebStep == ASSUME [PhoneNext]_phoneVars PROVE [WebNext]_webVars
<1>1. CASE Step \/ HostSleeps \/ RebootStep \/ Kill
  BY <1>1, TransferStep DEF Next
<1>2. CASE UNCHANGED webVars
  BY <1>2
<1>3. CASE TransferSame \/ TransferSpends
  BY <1>3 DEF TransferSame, TransferSpends, ServersSame, WebSame, vars
<1>4. CASE UNCHANGED phoneVars
  BY <1>4 DEF phoneVars, vars
<1> QED BY <1>1, <1>2, <1>3, <1>4 DEF PhoneNext

\* A step of the phone, seen from what reads the book out.
LEMMA PhoneHandsStep == ASSUME [PhoneNext]_phoneVars PROVE [HandsNext]_handsVars
<1>1. CASE UNCHANGED handsVars
  BY <1>1
<1>2. CASE HandsReboot \/ HandsRelaunch \/ HandsFrame \/ RenderTask \/ Engine
           \/ HandsOwner \/ MagicTouch \/ HandsOutside \/ HandsSleep
  BY <1>2 DEF HandsNext, HandsFrame
<1>3. CASE UNCHANGED phoneVars
  BY <1>3 DEF phoneVars
<1> QED BY <1>1, <1>2, <1>3 DEF PhoneNext

\* On the phone, too, a handler reads only the request it was given
\* (DispatchOwnsRequest), whatever is being read out, where each transfer has a
\* server of its own.
THEOREM PhoneHandlerOwns ==
  ASSUME ~BeginsAgain PROVE PhoneSpec => []DispatchOwnsRequest
<1>1. PhoneInit => WebInv
  BY PhoneStart, WebInitInv DEF Init
<1>2. WebInv /\ [PhoneNext]_phoneVars => WebInv'
  BY PhoneWebStep, WebInvStep
<1>3. WebInv => DispatchOwnsRequest
  BY WebInvImplies
<1> QED BY <1>1, <1>2, <1>3, PTL DEF PhoneSpec

\* On the phone, too, every upload that began is ended, but by a handler that
\* throws or restarts the device in the middle of it (UploadsEnd).
THEOREM PhoneUploadsEnd ==
  ASSUME ~BeginsAgain PROVE PhoneSpec => []UploadsEnd
<1>1. PhoneInit => WebInv
  BY PhoneStart, WebInitInv DEF Init
<1>2. WebInv /\ [PhoneNext]_phoneVars => WebInv'
  BY PhoneWebStep, WebInvStep
<1>3. WebInv => UploadsEnd
  BY WebInvImplies
<1> QED BY <1>1, <1>2, <1>3, PTL DEF PhoneSpec

\* Reading without hands behaves on the phone as it does alone: the phone
\* implements HandsSpec.
THEOREM PhoneImplementsHands == PhoneSpec => HandsSpec
<1>1. PhoneInit => HandsInit
  BY PhoneStart
<1>2. [PhoneNext]_phoneVars => [HandsNext]_handsVars
  BY PhoneHandsStep
<1> QED BY <1>1, <1>2, PTL DEF PhoneSpec, HandsSpec

\* So speech keeps to the reader (SpeechFollows) while transfers, sleep and
\* handed-over books come and go.
THEOREM PhoneSpeechFollows == PhoneSpec => []SpeechFollows
BY PhoneImplementsHands, SpeechAlwaysFollows, PTL

\* A step of the phone, seen from the books handed to it and from the WebSocket
\* server.
LEMMA PhoneDocStep == ASSUME [PhoneNext]_phoneVars PROVE [DocNext]_docVars
<1>1. CASE Step \/ HostSleeps \/ RebootStep \/ Kill
  BY <1>1, TransferDocStep DEF Next
<1>2. CASE TransferSame \/ TransferSpends \/ UNCHANGED phoneVars
  BY <1>2 DEF TransferSame, TransferSpends, DocSame, phoneVars, vars
<1> QED BY <1>1, <1>2 DEF PhoneNext

LEMMA PhoneWsStep == ASSUME [PhoneNext]_phoneVars PROVE [WsNext]_wsVars
<1>1. CASE Step \/ HostSleeps \/ RebootStep \/ Kill
  BY <1>1, TransferWsStep DEF Next
<1>2. CASE TransferSame \/ TransferSpends \/ UNCHANGED phoneVars
  BY <1>2 DEF TransferSame, TransferSpends, ServersSame, WsSame, phoneVars, vars
<1> QED BY <1>1, <1>2 DEF PhoneNext

\* Books are handed over on the phone as they are alone: the phone implements
\* DocSpec.
THEOREM PhoneImplementsDocuments == PhoneSpec => DocSpec
<1>1. PhoneInit => DocInit
  BY PhoneStart
<1>2. [PhoneNext]_phoneVars => [DocNext]_docVars
  BY PhoneDocStep
<1> QED BY <1>1, <1>2, PTL DEF PhoneSpec, DocSpec

\* So the phone opens what it was given (OpensWhatWasGiven), in the middle of a
\* transfer or of a page read out as at a launch,
THEOREM PhoneOpensTheGiven == PhoneSpec => []OpensWhatWasGiven
BY PhoneImplementsDocuments, OpensTheGiven, PTL

\* and keeps what it was given to keep (HeldIsKept).
THEOREM PhoneKeepsTheHeld == PhoneSpec => HeldIsKept
BY PhoneImplementsDocuments, HeldStaysHeld, PTL

\* The WebSocket server, too, behaves on the phone as it does alone.
THEOREM PhoneImplementsSockets == PhoneSpec => WsSpec
<1>1. PhoneInit => WsInit
  BY PhoneStart
<1>2. [PhoneNext]_phoneVars => [WsNext]_wsVars
  BY PhoneWsStep
<1> QED BY <1>1, <1>2, PTL DEF PhoneSpec, WsSpec

\* On the phone, too, a number's events are lives (EventsAlternate),
THEOREM PhoneNumbersLive == PhoneSpec => []EventsAlternate
BY PhoneImplementsSockets, NumbersLive, PTL

\* On the phone, too, a message is one whole message (MessagesWhole).
THEOREM PhoneMessagesAreWhole == PhoneSpec => []MessagesWhole
BY PhoneImplementsSockets, MessagesAreWhole, PTL

\* On the phone, too, close() leaves nothing behind (ClosedIsQuiet).
THEOREM PhoneCloseIsQuiet == PhoneSpec => []ClosedIsQuiet
BY PhoneImplementsSockets, CloseIsQuiet, PTL

\* On the phone, too, nobody keeps stop() or close() from coming back.
THEOREM PhoneJoinsAreNotKept == PhoneSpec => [](StopIsNotKept /\ CloseIsNotKept)
<1>1. PhoneInit => WebInv /\ StopReaches
  BY PhoneStart, WebInitInv DEF Init, WebInit, StopReaches, StopPlaces, PastRecheck
<1>2. WebInv /\ StopReaches /\ [PhoneNext]_phoneVars => WebInv' /\ StopReaches'
  BY PhoneWebStep, WebInvStep, StopReachesStep
<1>3. StopReaches => StopIsNotKept
  BY StopReachesImplies
<1> QED BY <1>1, <1>2, <1>3, PhoneImplementsSockets, CloseComesBack, PTL DEF PhoneSpec

\* On the phone, too, no page is turned that is not done with (TurnsAreEarned).
THEOREM PhoneTurnsAreEarned == PhoneSpec => TurnsAreEarned
BY PhoneImplementsHands, TurnsAreAlwaysEarned, PTL

\* A step of the phone, seen from all of the file transfer.
LEMMA PhoneTransferStep == ASSUME TransferInv, [PhoneNext]_phoneVars PROVE TransferInv'
<1>1. CASE Step \/ HostSleeps \/ RebootStep \/ Kill
  BY <1>1, TransferInvStep DEF Next
<1>2. CASE UNCHANGED <<webVars, wsVars, awakeVars, docVars>>
  <2>1. WebInv' /\ WsInv' /\ AwakeTypeOK' /\ DocInv'
    BY <1>2, WebInvStep, WsInvStep, AwakeTypesHold, DocInvStep DEF TransferInv
  <2> QED BY <2>1 DEF TransferInv
<1>3. CASE TransferSame \/ TransferSpends \/ UNCHANGED phoneVars
  BY <1>2, <1>3 DEF TransferSame, TransferSpends, ServersSame, WebSame, WsSame,
     AwakeSame, DocSame, phoneVars, vars
<1> QED BY <1>1, <1>3 DEF PhoneNext

\* Types, of the whole phone.
THEOREM PhoneTyped == PhoneSpec => []PhoneTypeOK
<1>1. PhoneSpec => []TransferInv
  <2>1. PhoneInit => TransferInv
    BY PhoneStart, TransferInvStart
  <2>2. TransferInv /\ [PhoneNext]_phoneVars => TransferInv'
    BY PhoneTransferStep
  <2> QED BY <2>1, <2>2, PTL DEF PhoneSpec
<1>2. PhoneSpec => []HandsTypeOK
  BY PhoneImplementsHands, HandsTyped, PTL
<1>3. TransferInv /\ HandsTypeOK => PhoneTypeOK
  BY TransferInvTyped DEF PhoneTypeOK
<1> QED BY <1>1, <1>2, <1>3, PTL

\* On the phone, too, read aloud never waits for a page without a deadline.
THEOREM PhoneAwaitsEnd == PhoneSpec => []AwaitIsTimed
BY PhoneImplementsHands, AwaitsEnd, PTL

\* On the phone, too, one pass of the main loop gives the idle timer back, while
\* no file transfer runs.
THEOREM PhoneOnePassGivesItBack ==
  PhoneSpec /\ []NoTransfer
    => [][MainLoopPass /\ ~Effective => idleDisabled' = preference]_phoneVars
<1> DEFINE Kept == TransferInv /\ TimerIsAccounted
<1>1. PhoneInit => Kept
  <2> SUFFICES ASSUME PhoneInit PROVE TimerIsAccounted
    BY PhoneStart, TransferInvStart
  <2>1. AwakeInit /\ AwakeTypeOK
    BY PhoneStart, AwakeTypesStart DEF Init
  <2> QED BY <2>1 DEF AwakeInit, TimerIsAccounted, AwakeTypeOK, OnOff
<1>2. Kept /\ [PhoneNext]_phoneVars /\ NoTransfer /\ NoTransfer' => Kept'
  <2> SUFFICES ASSUME Kept, [PhoneNext]_phoneVars, NoTransfer, NoTransfer'
               PROVE  TimerIsAccounted'
    BY PhoneTransferStep
  <2>1. CASE Step \/ HostSleeps \/ RebootStep \/ Kill
    BY <2>1, NoHopIsSent DEF TransferInv, Next
  <2>2. CASE UNCHANGED awakeVars
    BY <2>2 DEF awakeVars, TimerIsAccounted
  <2>3. CASE TransferSame \/ TransferSpends \/ UNCHANGED phoneVars
    BY <2>2, <2>3 DEF TransferSame, TransferSpends, AwakeSame, phoneVars, vars
  <2> QED BY <2>1, <2>3 DEF PhoneNext
<1>3. Kept => [MainLoopPass /\ ~Effective => idleDisabled' = preference]_phoneVars
  BY PassSettles DEF TransferInv
<1> QED BY <1>1, <1>2, <1>3, PTL DEF PhoneSpec
=============================================================================
