---------------------------- MODULE RemoteInbox ----------------------------
(***************************************************************************)
(* The remote control of a session: other programs, the BackgroundTask     *)
(* tool and the commands /remote send and /job add append requests to      *)
(* inbox.jsonl; the poller reads and empties it and hands what it read to  *)
(* the UI, which gives each request to the worker and appends an answer to *)
(* outbox.jsonl.  /remote drain empties an inbox too, to show what was in  *)
(* it, and shows the first few.                                            *)
(*                                                                         *)
(* There is one inbox per directory.  Poller and tool keep to the          *)
(* directory of the start ("inbox"); the commands follow /cd.              *)
(*                                                                         *)
(* Requests are numbered as they reach a file.  A line of a file is the    *)
(* set of the requests (or answers) written into it: one is readable, more *)
(* are one line of broken JSON.  The program appends the text of a line    *)
(* and its newline as two writes and does not flush, so the newline may    *)
(* land after the call has returned, or never.  The files are not locked.  *)
(***************************************************************************)
EXTENDS Integers, Sequences, SequencesExt, FiniteSets

CONSTANTS
  Elsewhere,    \* the inboxes of the directories /cd may move to
  DisplayLimit, \* requests that one /remote drain shows (10 in the code)
  MaxRequests,  \* bound: requests of a run
  MaxCrashes,   \* bound: ends of the process, each followed by a new start
  MaxCalls      \* bound: calls of the once-only task that find no marker

ASSUME ElsewhereAssumption == "inbox" \notin Elsewhere /\ "outbox" \notin Elsewhere
ASSUME LimitAssumption == DisplayLimit \in Nat

ASSUME BoundsAssumption ==
  MaxRequests \in Nat /\ MaxCrashes \in Nat /\ MaxCalls \in Nat

Request == 1..MaxRequests
Line == SUBSET Request
File == [lines : Seq(Line), open : BOOLEAN]
Inbox == {"inbox"} \cup Elsewhere
FileName == Inbox \cup {"outbox"}
Drainer == {"poller", "command"}

VARIABLES
  file,      \* the files; open: the last line has no newline yet
  here,      \* the inbox of the directory the session is in
  newlines,  \* newlines of each file that are still to be written
  posted,    \* requests written so far
  reading,   \* the drainers between their read and their truncation
  batch,     \* what each of them read
  events,    \* the channel of BackgroundEvents and the rest of the batch the
             \* UI is at: lines not yet dealt with
  ui,        \* what the UI loop does
  handed,    \* requests given to the worker, in order
  shown,     \* requests /remote drain displayed
  counted,   \* requests it read and only counted, being past the limit
  marked,    \* the marker of the once-only task exists
  checked,   \* calls of the task that found no marker and have not posted
  marking,   \* calls that have posted and not yet marked
  calls,     \* calls of the task that found no marker
  crashes,   \* how often the process has ended
  due,       \* history variable: how often the task may still be posted
  strayed,   \* history variable: requests posted elsewhere
  raced      \* history variable: requests that met a race or a crash

channel == <<events, ui, handed, shown, counted>>
session == <<here, crashes>>
fates   == <<strayed, raced>>
drains  == <<reading, batch>>
task    == <<marked, checked, marking, calls, due>>
vars == <<file, newlines, posted, drains, channel, task, session, fates>>

TypeOK ==
  /\ file \in [FileName -> File]
  /\ newlines \in [FileName -> Nat]
  /\ posted \in 0..MaxRequests
  /\ reading \in SUBSET Drainer
  /\ batch \in [Drainer -> Seq(Line)]
  /\ events \in Seq(Line)
  /\ ui \in {"keys", "apply", "answer", "drain"}
  /\ handed \in Seq(Request)
  /\ shown \in SUBSET Request /\ counted \in SUBSET Request
  /\ marked \in BOOLEAN
  /\ checked \in Nat /\ marking \in Nat /\ due \in Int
  /\ calls \in 0..MaxCalls /\ crashes \in 0..MaxCrashes
  /\ here \in Inbox
  /\ strayed \in SUBSET Request /\ raced \in SUBSET Request

EmptyFile == [lines |-> <<>>, open |-> FALSE]

Init ==
  /\ file = [f \in FileName |-> EmptyFile]
  /\ newlines = [f \in FileName |-> 0]
  /\ posted = 0
  /\ reading = {} /\ batch = [d \in Drainer |-> <<>>]
  /\ events = <<>> /\ ui = "keys"
  /\ handed = <<>> /\ shown = {} /\ counted = {}
  /\ marked = FALSE /\ checked = 0 /\ marking = 0
  /\ calls = 0 /\ crashes = 0
  /\ due = 1
  /\ here = "inbox"
  /\ strayed = {} /\ raced = {}
-----------------------------------------------------------------------------
(* Files.                                                                  *)

Requests(lines) == UNION {lines[k] : k \in DOMAIN lines}
Sound(line) == \E r \in line : line = {r}
Accepted(lines) == {r \in Requests(lines) : \E k \in DOMAIN lines : lines[k] = {r}}

(* The text of a line goes to the end of the file, and so into the last    *)
(* line if that has no newline.                                            *)
Put(f, r, whole) ==
  LET old == file[f] IN
  [lines |-> IF old.open
             THEN [old.lines EXCEPT ![Len(old.lines)] = @ \cup {r}]
             ELSE Append(old.lines, {r}),
   open |-> ~whole]

(* Whom that spoils: the new line and the one it runs into.                *)
Spoilt(f, r) ==
  IF file[f].open THEN Last(file[f].lines) \cup {r} ELSE {}

NewlineLands(f) ==
  /\ newlines[f] > 0
  /\ newlines' = [newlines EXCEPT ![f] = @ - 1]
  /\ file' = [file EXCEPT ![f].open = FALSE]
  /\ UNCHANGED <<posted, drains, channel, task, session, fates>>
-----------------------------------------------------------------------------
(* Posting.  A request that lands while a drainer is between its read of    *)
(* that inbox and its truncation is gone.                                   *)
Source(d) == IF d = "poller" THEN "inbox" ELSE here

PostLine(f, whole) ==
  LET r == posted + 1 IN
  /\ posted < MaxRequests
  /\ posted' = r
  /\ file' = [file EXCEPT ![f] = Put(f, r, whole)]
  /\ newlines' = IF whole THEN newlines ELSE [newlines EXCEPT ![f] = @ + 1]
  /\ strayed' = IF f = "inbox" THEN strayed ELSE strayed \cup {r}
  /\ raced' = raced \cup Spoilt(f, r)
                    \cup (IF \E d \in reading : Source(d) = f THEN {r} ELSE {})

(* Another program knows any of the directories and writes its line in one  *)
(* piece; this program does not (append_request).                           *)
OtherPosts ==
  /\ \E f \in Inbox : PostLine(f, TRUE)
  /\ UNCHANGED <<drains, channel, task, session>>

(* BackgroundTask without once: into the directory of the configuration.    *)
TaskPosts ==
  /\ PostLine("inbox", FALSE)
  /\ UNCHANGED <<drains, channel, task, session>>

(* /remote send and /job add: into the current directory.                   *)
CommandPosts ==
  /\ ui = "keys"
  /\ PostLine(here, FALSE)
  /\ UNCHANGED <<drains, channel, task, session>>

(* /cd, which the UI waits for.                                            *)
ChangeDirectory ==
  /\ ui = "keys"
  /\ here' \in Inbox \ {here}
  /\ UNCHANGED <<file, newlines, posted, drains, channel, task, crashes, fates>>

(* BackgroundTask with once: looks for the marker, posts, marks.  Calls may *)
(* overlap; one that finds no marker while another is on its way to it is   *)
(* one occasion more.                                                       *)
CallOnce ==
  /\ ~marked /\ calls < MaxCalls
  /\ calls' = calls + 1
  /\ checked' = checked + 1
  /\ due' = IF checked + marking = 0 THEN due ELSE due + 1
  /\ UNCHANGED <<file, newlines, posted, drains, channel, marked, marking,
                 session, fates>>

PostOnce ==
  /\ checked > 0
  /\ PostLine("inbox", FALSE)
  /\ checked' = checked - 1 /\ marking' = marking + 1
  /\ due' = due - 1
  /\ UNCHANGED <<drains, channel, marked, calls, session>>

(* Mutant: the marker is left for the run of the task to write.            *)
MarkLater ==
  /\ marking > 0
  /\ marking' = marking - 1
  /\ UNCHANGED <<file, newlines, posted, drains, channel, marked, checked, calls,
                 due, session, fates>>

Mark ==
  /\ marking > 0
  /\ marking' = marking - 1 /\ marked' = TRUE
  /\ UNCHANGED <<file, newlines, posted, drains, channel, checked, calls, due,
                 session, fates>>

(* /job clear, which removes the markers of the current directory.         *)
Clear ==
  /\ ui = "keys" /\ marked /\ here = "inbox"
  /\ marked' = FALSE /\ due' = due + 1
  /\ UNCHANGED <<file, newlines, posted, drains, channel, checked, marking,
                 calls, session, fates>>
-----------------------------------------------------------------------------
(* Draining (drain_requests): read, then truncate, then parse.             *)

Read(d) ==
  /\ d \notin reading /\ file[Source(d)].lines # <<>>
  /\ reading' = reading \cup {d}
  /\ batch' = [batch EXCEPT ![d] = file[Source(d)].lines]
  /\ UNCHANGED <<file, newlines, posted, task, session, fates>>

Truncate(d) ==
  /\ d \in reading
  /\ reading' = reading \ {d}
  /\ batch' = [batch EXCEPT ![d] = <<>>]
  /\ file' = [file EXCEPT ![Source(d)] = EmptyFile]
  /\ UNCHANGED <<newlines, posted, task, session, fates>>

PollerReads ==
  /\ Read("poller")
  /\ UNCHANGED channel

(* Mutant: a batch with a broken line is dropped as a whole.               *)
PollerDropsBroken ==
  /\ Truncate("poller")
  /\ events' = IF \A k \in DOMAIN batch["poller"] : Sound(batch["poller"][k])
               THEN events \o batch["poller"] ELSE events
  /\ UNCHANGED <<ui, handed, shown, counted>>

PollerTruncates ==
  /\ Truncate("poller")
  /\ events' = events \o batch["poller"]
  /\ UNCHANGED <<ui, handed, shown, counted>>

(* /remote drain runs in the UI loop, which waits for it.  Of the requests  *)
(* it read it lists the first and says how many there are besides; the file *)
(* is empty by then.                                                        *)
Displayed(lines) ==
  LET sound == {k \in DOMAIN lines : Sound(lines[k])} IN
  {r \in Accepted(lines) :
     \E k \in sound : /\ lines[k] = {r}
                      /\ Cardinality({j \in sound : j < k}) < DisplayLimit}

CommandReads ==
  /\ ui = "keys"
  /\ Read("command")
  /\ ui' = "drain"
  /\ UNCHANGED <<events, handed, shown, counted>>

CommandTruncates ==
  /\ Truncate("command")
  /\ ui' = "keys"
  /\ shown' = shown \cup Displayed(batch["command"])
  /\ counted' = counted \cup (Accepted(batch["command"]) \ Displayed(batch["command"]))
  /\ UNCHANGED <<events, handed>>
-----------------------------------------------------------------------------
(* The UI loop applies all events there are before it turns to the keys    *)
(* again (apply_remote_requests).                                          *)

Idle == IF Len(events) = 1 THEN "keys" ELSE "apply"

(* A line that is not a request is only counted.                           *)
Reject ==
  /\ ui \in {"keys", "apply"} /\ events # <<>> /\ ~Sound(Head(events))
  /\ events' = Tail(events) /\ ui' = Idle
  /\ UNCHANGED <<file, newlines, posted, drains, handed, shown, counted, task,
                 session, fates>>

HandOver ==
  /\ ui \in {"keys", "apply"} /\ events # <<>>
  /\ \E r \in Request :
       /\ Head(events) = {r}
       /\ handed' = Append(handed, r)
  /\ ui' = "answer"
  /\ UNCHANGED <<file, newlines, posted, drains, events, shown, counted, task,
                 session, fates>>

(* append_response.                                                        *)
AppendResponse ==
  LET r == Last(handed) IN
  /\ file' = [file EXCEPT !["outbox"] = Put("outbox", r, FALSE)]
  /\ newlines' = [newlines EXCEPT !["outbox"] = @ + 1]
  /\ raced' = raced \cup Spoilt("outbox", r)

(* Mutant: a request stays in its event until the event is done.            *)
AnswerAndKeep ==
  /\ ui = "answer"
  /\ AppendResponse
  /\ events' = IF Len(events) > 1 THEN events ELSE <<>>
  /\ ui' = Idle
  /\ UNCHANGED <<posted, drains, handed, shown, counted, task, session, strayed>>

(* Mutant: the answer is written again when in doubt.                      *)
AnswerAgain ==
  /\ ui = "answer"
  /\ AppendResponse
  /\ \/ events' = Tail(events) /\ ui' = Idle
     \/ UNCHANGED <<events, ui>>
  /\ UNCHANGED <<posted, drains, handed, shown, counted, task, session, strayed>>

(* Mutant: one answer for all the requests of an event.                    *)
AnswerTheLast ==
  /\ ui = "answer"
  /\ IF Len(events) = 1 THEN AppendResponse
     ELSE UNCHANGED <<file, newlines, raced>>
  /\ events' = Tail(events) /\ ui' = Idle
  /\ UNCHANGED <<posted, drains, handed, shown, counted, task, session, strayed>>

Answer ==
  /\ ui = "answer"
  /\ AppendResponse
  /\ events' = Tail(events) /\ ui' = Idle
  /\ UNCHANGED <<posted, drains, handed, shown, counted, task, session, strayed>>
-----------------------------------------------------------------------------
(* The process ends at any point and is started again in the same           *)
(* directory: the files and the marker are left.                            *)
Crash ==
  /\ crashes < MaxCrashes
  /\ crashes' = crashes + 1
  /\ newlines' = [f \in FileName |-> 0]
  /\ reading' = {} /\ batch' = [d \in Drainer |-> <<>>]
  /\ events' = <<>> /\ ui' = "keys"
  /\ checked' = 0 /\ marking' = 0
  /\ due' = IF marking > 0 THEN due + 1 ELSE due
  /\ here' = "inbox"
  /\ raced' = raced \cup Requests(events)
  /\ UNCHANGED <<file, posted, handed, shown, counted, marked, calls, strayed>>
-----------------------------------------------------------------------------
UINext == Reject \/ HandOver \/ Answer \/ CommandTruncates

Next ==
  \/ OtherPosts \/ TaskPosts \/ CommandPosts \/ ChangeDirectory
  \/ CallOnce \/ PostOnce \/ Mark \/ Clear
  \/ \E f \in FileName : NewlineLands(f)
  \/ PollerReads \/ PollerTruncates \/ CommandReads
  \/ UINext
  \/ Crash

Spec == Init /\ [][Next]_vars

(* The poller wakes every second and the UI loop goes round; nothing is     *)
(* owed by those who post, call, clear, drain or move.                      *)
FairSpec ==
  /\ Spec
  /\ WF_vars(PollerReads) /\ WF_vars(PollerTruncates)
  /\ WF_vars(UINext)
  /\ \A f \in FileName : WF_vars(NewlineLands(f))
-----------------------------------------------------------------------------
Increasing(s) == \A i, j \in DOMAIN s : i < j => s[i] < s[j]

(* The worker is given each request at most once and in the order of the    *)
(* file, whoever drains in between and whenever the process ends            *)
(* (drain_requests, apply_remote_requests).                                 *)
HandedOnceInOrder == Increasing(handed)

(* What the outbox says is true: a readable answer is to a request that was *)
(* handed over, in the order of the requests, and there is one at most.     *)
Answered(k) == \E r \in Request : file["outbox"].lines[k] = {r}

AnswersAreTrue ==
  /\ Requests(file["outbox"].lines) \subseteq ToSet(handed)
  /\ \A j, k \in DOMAIN file["outbox"].lines :
       j < k => \A r \in file["outbox"].lines[j], s \in file["outbox"].lines[k] :
                  r < s

(* At every moment a request that met no race, and that no /remote drain     *)
(* read beyond its limit, is in the polled inbox, on its way to the worker,  *)
(* handed over or shown; one posted elsewhere after a /cd is in an inbox     *)
(* that nobody polls, or shown there, and is never handed over.              *)
InOneOf(r) ==
  \/ r \in shown
  \/ /\ r \in strayed /\ r \notin ToSet(handed)
     /\ \E f \in Elsewhere : r \in Accepted(file[f].lines)
  \/ /\ r \notin strayed
     /\ r \in Accepted(file["inbox"].lines) \cup Accepted(events) \cup ToSet(handed)

NoRequestIsForgotten ==
  \A r \in 1..posted : r \in raced \cup counted \/ InOneOf(r)

(* A request in the polled inbox that meets no race is handed over and       *)
(* answered so that the answer can be read, or taken by a /remote drain,     *)
(* which shows it or, beyond its limit, counts it; also across crashes.      *)
(* What is settled stays so: all the requests of a run are in the end.       *)
Settled(r) ==
  \/ r \in raced \cup shown \cup counted
  \/ r \in ToSet(handed) /\ r \in Accepted(file["outbox"].lines)

EveryRequestIsAnswered ==
  []<>(\A r \in 1..posted : r \in strayed \/ Settled(r))

(* A once-only task is posted once, and once more for each occasion: a       *)
(* crash between post and marker, a /job clear, a call that overlaps.        *)
OnceMeansOnce == due >= 0
=============================================================================
