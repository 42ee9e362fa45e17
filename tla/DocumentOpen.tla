---------------------------- MODULE DocumentOpen ----------------------------
(***************************************************************************)
(* Books handed to the app by the phone: the import that copies one to the *)
(* card (src/ios/CrossPointBookImport.mm) and the request that boots the   *)
(* firmware into it (src/src/SimulatorDocumentOpen.cpp).  A drop event     *)
(* passes two watches, the import first; the request is taken while the    *)
(* launch waits for a document, or between two passes of the main loop.    *)
(* All of it runs on the main thread, and the app may be killed anywhere.  *)
(*                                                                         *)
(* Every document has the same file name: attempt n of the import is name  *)
(* n, and name 1 the name it came with.  Two documents of one size are one *)
(* document, which is what the import takes them for.  Anything that is no *)
(* book is ignored by both watches and left out.                           *)
(***************************************************************************)
EXTENDS Naturals

CONSTANTS
  Docs,       \* documents, told apart by their content
  NoDoc,
  NameCount   \* attempts at a name: 99

ASSUME DocAssumption == NoDoc \notin Docs /\ NameCount \in Nat \ {0}

VARIABLES
  books,         \* <card>/books, by name
  inbox,         \* documents in <card>/Inbox
  raw,           \* gPendingPath
  card,          \* gPendingCardPath
  stagedLaunch,  \* gStagedLaunchDocument
  openPath,      \* APP_STATE.openEpubPath: a name, or 0
  docAt,         \* where the main thread is in this code
  job,           \* the document it is at work on
  sweeping,      \* what readdir has yet to give sweepInbox
  swept          \* the pass 2 s after the launch has run

docVars == <<books, inbox, raw, card, stagedLaunch, openPath, docAt, job,
             sweeping, swept>>

Names == 1..NameCount
File(d) == [doc |-> d, whole |-> TRUE]
Truncated(d) == [doc |-> d, whole |-> FALSE]
NoFile == Truncated(NoDoc)

\* A path: the document it was given for, the folder and the name.  Whether
\* an import succeeded is not in the code's path: it is there to say what is
\* done to a document that has been imported already.
NoPath == [doc |-> NoDoc, from |-> "outside", name |-> 1, imported |-> FALSE]

\* `drop`: the file came by a drop event, not by the sweep; `back`: where the
\* call returns to.
NoJob == [path |-> NoPath, file |-> NoFile, name |-> 1, drop |-> FALSE,
          back |-> "loop"]

NoCard == [name |-> 0, doc |-> NoDoc]

Waiting == {"capture", "loop", "sweep"}

DocTypeOK ==
  LET Files == [doc : Docs \cup {NoDoc}, whole : BOOLEAN]
      Paths == [doc : Docs \cup {NoDoc}, from : {"outside", "inbox", "card"},
                name : Names, imported : BOOLEAN]
  IN  /\ books \in [Names -> Files] /\ inbox \subseteq Docs
      /\ raw \in Paths
      /\ card \in [name : {0} \cup Names, doc : Docs \cup {NoDoc}]
      /\ stagedLaunch \in BOOLEAN /\ openPath \in {0} \cup Names
      /\ docAt \in Waiting \cup {"import", "copy", "unlink", "request",
                                 "unhandled", "write", "staged"}
      /\ job \in [path : Paths, file : Files, name : Names, drop : BOOLEAN,
                  back : Waiting]
      /\ sweeping \subseteq Docs /\ swept \in BOOLEAN

\* A launch that waits for its document, or one long past.
DocInit ==
  /\ books = [n \in Names |-> NoFile] /\ inbox = {}
  /\ raw = NoPath /\ card = NoCard
  /\ stagedLaunch = FALSE /\ openPath = 0
  /\ docAt \in {"capture", "loop"} /\ job = NoJob
  /\ sweeping = {} /\ swept = (docAt = "loop")

-----------------------------------------------------------------------------
(* The import.                                                             *)

\* Is there still something at the path, and what.
Contents(path) ==
  IF path.from = "card" THEN books[path.name]
  ELSE IF path.from = "inbox" /\ path.doc \notin inbox THEN NoFile
  ELSE File(path.doc)

Imports(path, drop, back) ==
  /\ docAt' = "import"
  /\ job' = [path |-> path, file |-> NoFile, name |-> 1, drop |-> drop,
             back |-> back]

\* A drop event for a file somewhere on the phone, in the Inbox, or on the
\* card itself.  iOS may deliver the same one again later, when the import has
\* taken the file out of the Inbox.
Drop(d, from, arrives) ==
  /\ docAt \in {"capture", "loop"}
  /\ arrives => from = "inbox"
  /\ inbox' = IF arrives THEN inbox \cup {d} ELSE inbox
  /\ \E n \in Names :
       /\ IF from = "card" THEN books[n].doc = d ELSE n = 1
       /\ Imports([doc |-> d, from |-> from, name |-> n, imported |-> FALSE],
                  TRUE, docAt)
  /\ UNCHANGED <<books, raw, card, stagedLaunch, openPath, sweeping, swept>>

\* sweepInbox, once per process.
SweepBegins ==
  /\ docAt = "loop" /\ ~swept
  /\ swept' = TRUE /\ sweeping' = inbox
  /\ docAt' = "sweep"
  /\ UNCHANGED <<books, inbox, raw, card, stagedLaunch, openPath, job>>

SweepNext(d) ==
  /\ docAt = "sweep" /\ d \in sweeping
  /\ sweeping' = sweeping \ {d}
  /\ Imports([doc |-> d, from |-> "inbox", name |-> 1, imported |-> FALSE],
             FALSE, "sweep")
  /\ UNCHANGED <<books, inbox, raw, card, stagedLaunch, openPath, swept>>

SweepEnds ==
  /\ docAt = "sweep" /\ sweeping = {}
  /\ docAt' = "loop"
  /\ UNCHANGED <<books, inbox, raw, card, stagedLaunch, openPath, job,
                 sweeping, swept>>

\* The first name that is free or holds a file of the same size; 0: none.
Target(d) ==
  LET fits == {n \in Names : books[n] \in {NoFile, File(d)}}
  IN  IF fits = {} THEN 0 ELSE CHOOSE n \in fits : \A m \in fits : n <= m

DocGoes(to) ==
  /\ docAt' = to
  /\ UNCHANGED <<raw, card, stagedLaunch, openPath, sweeping, swept>>

\* On the card already, gone, or no name left.
ImportDeclines ==
  /\ docAt = "import"
  /\ \/ job.path.from = "card"
     \/ Contents(job.path) = NoFile
     \/ Target(job.path.doc) = 0
  /\ DocGoes("unhandled")
  /\ UNCHANGED <<books, inbox, job>>

\* Imported before: nothing to copy.  Otherwise the file is created.
ImportBegins ==
  /\ docAt = "import" /\ job.path.from # "card"
  /\ Contents(job.path) # NoFile
  /\ LET d == job.path.doc
         n == Target(d)
     IN  /\ n # 0
         /\ job' = [job EXCEPT !.name = n]
         /\ books' = IF books[n] = File(d) THEN books
                     ELSE [books EXCEPT ![n] = Truncated(d)]
         /\ DocGoes(IF books[n] = File(d) THEN "unlink" ELSE "copy")
  /\ UNCHANGED inbox

CopyEnds ==
  /\ docAt = "copy"
  /\ books' = [books EXCEPT ![job.name] = File(job.path.doc)]
  /\ DocGoes("unlink")
  /\ UNCHANGED <<inbox, job>>

\* A read, a write or the close fails: the copy is unlinked.
CopyFails ==
  /\ docAt = "copy"
  /\ books' = [books EXCEPT ![job.name] = NoFile]
  /\ DocGoes("unhandled")
  /\ UNCHANGED <<inbox, job>>

\* The original goes if it is in the Inbox, and if it lets itself be unlinked.
Unlink ==
  /\ docAt = "unlink"
  /\ inbox' \in {inbox} \cup
       (IF job.path.from = "inbox" THEN {inbox \ {job.path.doc}} ELSE {})
  /\ DocGoes("request")
  /\ UNCHANGED <<books, job>>

\* The second watch: it keeps the path of the event, imported or not.
WatchKeeps(imported) ==
  raw' = IF job.drop THEN [job.path EXCEPT !.imported = imported] ELSE raw

RequestOpen ==
  /\ docAt = "request"
  /\ card' = [name |-> job.name, doc |-> job.path.doc]
  /\ WatchKeeps(TRUE)
  /\ docAt' = job.back /\ job' = NoJob
  /\ UNCHANGED <<books, inbox, stagedLaunch, openPath, sweeping, swept>>

Unhandled ==
  /\ docAt = "unhandled"
  /\ WatchKeeps(FALSE)
  /\ docAt' = job.back /\ job' = NoJob
  /\ UNCHANGED <<books, inbox, card, stagedLaunch, openPath, sweeping, swept>>

ImportRuns ==
  \/ SweepEnds \/ (\E d \in Docs : SweepNext(d))
  \/ ImportDeclines \/ ImportBegins \/ CopyEnds \/ CopyFails
  \/ Unlink \/ RequestOpen \/ Unhandled

-----------------------------------------------------------------------------
(* The request.                                                            *)

\* stageCardResident: the state names the card copy.
StagesCard(back) ==
  /\ openPath' = card.name
  /\ docAt' = "staged"
  /\ job' = [NoJob EXCEPT !.file = File(card.doc), !.back = back]

\* stageDocument: the whole file is in memory before its copy is opened, and
\* truncated, under the name it came with.
StagesRaw(back) ==
  LET file == Contents(raw)
  IN  /\ file # NoFile
      /\ books' = [books EXCEPT ![raw.name] = Truncated(file.doc)]
      /\ docAt' = "write"
      /\ job' = [path |-> raw, file |-> file, name |-> raw.name, drop |-> TRUE,
                 back |-> back]

\* Mutant: the raw path of the same drop stays.
TakeCardOnly == card' = NoCard /\ raw' = raw

\* Both takes: the raw path of the same drop must not be handled once more.
TakeBoth == card' = NoCard /\ raw' = NoPath

CaptureCard ==
  /\ docAt = "capture" /\ card # NoCard
  /\ TakeBoth
  /\ StagesCard("capture")
  /\ stagedLaunch' = TRUE
  /\ UNCHANGED <<books, inbox, sweeping, swept>>

\* Nothing to open, because nothing came in time or it cannot be read or
\* written: setup() runs.
CaptureEnds ==
  /\ docAt = "capture" /\ card = NoCard
  /\ raw' = NoPath
  /\ docAt' = "loop"
  /\ UNCHANGED <<books, inbox, card, stagedLaunch, openPath, job, sweeping,
                 swept>>

CaptureRaw ==
  /\ docAt = "capture" /\ card = NoCard /\ raw # NoPath
  /\ raw' = NoPath
  /\ StagesRaw("capture")
  /\ UNCHANGED <<inbox, card, stagedLaunch, openPath, sweeping, swept>>

\* The launch document once more: it is open already.
Replayed(name) == stagedLaunch /\ openPath = name

PumpReplay ==
  /\ docAt = "loop"
  /\ \/ card # NoCard /\ Replayed(card.name)
     \/ card = NoCard /\ raw # NoPath /\ Replayed(raw.name)
  /\ TakeBoth /\ stagedLaunch' = FALSE
  /\ UNCHANGED <<books, inbox, openPath, docAt, job, sweeping, swept>>

PumpCard ==
  /\ docAt = "loop" /\ card # NoCard /\ ~Replayed(card.name)
  /\ TakeBoth /\ stagedLaunch' = FALSE
  /\ StagesCard("loop")
  /\ UNCHANGED <<books, inbox, sweeping, swept>>

PumpRaw ==
  /\ docAt = "loop" /\ card = NoCard /\ raw # NoPath /\ ~Replayed(raw.name)
  /\ raw' = NoPath /\ stagedLaunch' = FALSE
  /\ StagesRaw("loop")
  /\ UNCHANGED <<inbox, card, openPath, sweeping, swept>>

\* The file cannot be read, or the copy cannot be opened.
PumpFails ==
  /\ docAt = "loop" /\ card = NoCard /\ raw # NoPath /\ ~Replayed(raw.name)
  /\ raw' = NoPath /\ stagedLaunch' = FALSE
  /\ UNCHANGED <<books, inbox, card, openPath, docAt, job, sweeping, swept>>

WriteEnds ==
  /\ docAt = "write"
  /\ books' = [books EXCEPT ![job.name] = job.file]
  /\ openPath' = job.name
  /\ stagedLaunch' = (stagedLaunch \/ job.back = "capture")
  /\ docAt' = "staged"
  /\ UNCHANGED <<inbox, raw, card, job, sweeping, swept>>

\* Mutant: what was written is not counted.
WriteFailsUnseen ==
  /\ docAt = "write"
  /\ openPath' = job.name /\ docAt' = "staged"
  /\ UNCHANGED <<books, inbox, raw, card, stagedLaunch, job, sweeping, swept>>

\* A short write leaves what it wrote; a launch goes on without the document.
WriteFails ==
  /\ docAt = "write"
  /\ docAt' = "loop" /\ job' = NoJob
  /\ UNCHANGED <<books, inbox, raw, card, stagedLaunch, openPath, sweeping,
                 swept>>

\* setup(), for the first time, on the state that was saved
LaunchOpens ==
  /\ docAt = "staged" /\ job.back = "capture"
  /\ docAt' = "loop" /\ job' = NoJob
  /\ UNCHANGED <<books, inbox, raw, card, stagedLaunch, openPath, sweeping,
                 swept>>

\* rebootForDocumentOpen: setup() runs again in the same process.
Relaunch ==
  /\ docAt = "staged" /\ job.back = "loop"
  /\ docAt' = "loop" /\ job' = NoJob
  /\ UNCHANGED <<books, inbox, raw, card, stagedLaunch, openPath, sweeping,
                 swept>>

OpenRuns ==
  \/ CaptureCard \/ CaptureRaw \/ CaptureEnds
  \/ WriteEnds \/ WriteFails \/ LaunchOpens

PumpRuns == PumpReplay \/ PumpCard \/ PumpRaw \/ PumpFails

\* The reader opens a book of the library, or a bad one's path is cleared.
FirmwareOpens ==
  /\ docAt = "loop"
  /\ openPath' \in {0} \cup {n \in Names : books[n] # NoFile}
  /\ UNCHANGED <<books, inbox, raw, card, stagedLaunch, docAt, job, sweeping,
                 swept>>

\* The app is killed and launched again: the card is what is left.
Killed ==
  /\ docAt' = "capture" /\ job' = NoJob
  /\ raw' = NoPath /\ card' = NoCard /\ stagedLaunch' = FALSE
  /\ sweeping' = {} /\ swept' = FALSE
  /\ UNCHANGED <<books, inbox, openPath>>

-----------------------------------------------------------------------------
(* Properties.                                                             *)

\* A document the app was given to keep is in the Inbox or whole on the card.
Held(d) == d \in inbox \/ \E n \in Names : books[n] = File(d)

\* Once held, a document stays held: through a copy that fails or that a kill
\* cuts short, a second delivery, a namesake and the sweep.  Only
\* stageDocument() writes over a book, and never for a drop whose import
\* succeeded: what the import put beside a namesake is not copied over it.
HeldIsKept ==
  [][\A d \in Docs :
       Held(d) /\ ~Held(d)' => docAt' = "write" /\ ~job'.path.imported]_docVars

\* The book the next setup() is told to open is the document that was handed
\* over, whole, and not a namesake or what a short write left of it.
OpensWhatWasGiven ==
  docAt = "staged" => books[openPath] = job.file
=============================================================================
