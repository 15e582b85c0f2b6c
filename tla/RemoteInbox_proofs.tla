------------------------- MODULE RemoteInbox_proofs -------------------------
(***************************************************************************)
(* Proofs about RemoteInbox, for any number of requests, calls of the      *)
(* once-only task and ends of the process.                                 *)
(***************************************************************************)
EXTENDS RemoteInbox, TLAPS

(* Sequences, as far as files and channels need them.                      *)
LEMMA TailFacts ==
  ASSUME NEW S, NEW s \in Seq(S), s # <<>>
  PROVE  /\ Len(s) \in Nat \ {0} /\ DOMAIN s = 1..Len(s)
         /\ Head(s) = s[1] /\ Head(s) \in S
         /\ Tail(s) \in Seq(S) /\ Len(Tail(s)) = Len(s) - 1
         /\ DOMAIN Tail(s) = 1..(Len(s) - 1)
         /\ \A i \in 1..(Len(s) - 1) : Tail(s)[i] = s[i + 1]
OBVIOUS

LEMMA AppendFacts ==
  ASSUME NEW S, NEW s \in Seq(S), NEW x \in S
  PROVE  /\ Append(s, x) \in Seq(S)
         /\ Len(s) \in Nat /\ Len(Append(s, x)) = Len(s) + 1
         /\ DOMAIN s = 1..Len(s) /\ DOMAIN Append(s, x) = 1..(Len(s) + 1)
         /\ \A i \in 1..Len(s) : Append(s, x)[i] = s[i]
         /\ Append(s, x)[Len(s) + 1] = x
OBVIOUS

LEMMA ConcatFacts ==
  ASSUME NEW S, NEW s \in Seq(S), NEW t \in Seq(S)
  PROVE  /\ s \o t \in Seq(S)
         /\ Len(s) \in Nat /\ Len(t) \in Nat
         /\ DOMAIN s = 1..Len(s) /\ DOMAIN t = 1..Len(t)
         /\ DOMAIN (s \o t) = 1..(Len(s) + Len(t))
         /\ \A i \in 1..Len(s) : (s \o t)[i] = s[i]
         /\ \A i \in 1..Len(t) : (s \o t)[Len(s) + i] = t[i]
OBVIOUS

LEMMA LastFacts ==
  ASSUME NEW S, NEW s \in Seq(S), s # <<>>
  PROVE  /\ Len(s) \in Nat \ {0} /\ DOMAIN s = 1..Len(s)
         /\ Last(s) = s[Len(s)] /\ Last(s) \in S
BY DEF Last

(* What a line in the file is after a line of its own was put behind it, or *)
(* it was run into.                                                         *)
LEMMA PutFacts ==
  ASSUME NEW old \in File, old.open => old.lines # <<>>,
         NEW r \in Request, NEW whole \in BOOLEAN,
         NEW f, file[f] = old
  PROVE  LET new == Put(f, r, whole)
             n == Len(old.lines) IN
         /\ new \in File /\ new.lines # <<>> /\ new.open = ~whole
         /\ n \in Nat /\ DOMAIN old.lines = 1..n
         /\ old.open =>
              /\ n > 0 /\ DOMAIN new.lines = 1..n
              /\ \A k \in 1..(n - 1) : new.lines[k] = old.lines[k]
              /\ new.lines[n] = old.lines[n] \cup {r}
              /\ Spoilt(f, r) = old.lines[n] \cup {r}
         /\ ~old.open =>
              /\ DOMAIN new.lines = 1..(n + 1)
              /\ \A k \in 1..n : new.lines[k] = old.lines[k]
              /\ new.lines[n + 1] = {r}
              /\ Spoilt(f, r) = {}
<1> DEFINE new == Put(f, r, whole)
           n == Len(old.lines)
           lines == old.lines
<1>1. lines \in Seq(Line) /\ old.open \in BOOLEAN /\ {r} \in Line
  BY DEF File, Line
<1>2. n \in Nat /\ DOMAIN lines = 1..n
  BY <1>1
<1>3. CASE old.open
  <2>1. lines # <<>>
    BY <1>3
  <2>2. n > 0
    BY <1>1, <2>1
  <2>3. new = [lines |-> [lines EXCEPT ![n] = @ \cup {r}], open |-> ~whole]
    BY <1>3 DEF Put
  <2>4. lines[n] \in Line
    BY <1>1, <1>2, <2>2
  <2>5. lines[n] \cup {r} \in Line
    BY <2>4 DEF Line
  <2>6. [lines EXCEPT ![n] = @ \cup {r}] \in Seq(Line)
    BY <1>1, <1>2, <2>2, <2>5
  <2>7. [lines EXCEPT ![n] = @ \cup {r}] # <<>>
    BY <1>1, <1>2, <2>2
  <2>8. Spoilt(f, r) = lines[n] \cup {r}
    BY <1>1, <1>3, <2>1, LastFacts DEF Spoilt
  <2>9. QED
    BY <1>1, <1>2, <1>3, <2>2, <2>3, <2>6, <2>7, <2>8 DEF File
<1>4. CASE ~old.open
  <2>1. new = [lines |-> Append(lines, {r}), open |-> ~whole]
    BY <1>4 DEF Put
  <2>2. Append(lines, {r}) \in Seq(Line) /\ Append(lines, {r}) # <<>>
    BY <1>1
  <2>3. /\ DOMAIN Append(lines, {r}) = 1..(n + 1)
        /\ \A k \in 1..n : Append(lines, {r})[k] = lines[k]
        /\ Append(lines, {r})[n + 1] = {r}
    BY <1>1, AppendFacts
  <2>4. Spoilt(f, r) = {}
    BY <1>4 DEF Spoilt
  <2>5. QED
    BY <1>1, <1>2, <1>4, <2>1, <2>2, <2>3, <2>4 DEF File
<1>5. QED
  BY <1>1, <1>3, <1>4
-----------------------------------------------------------------------------
(* Type correctness: an open file has a line, and the request that is being *)
(* answered is the one handed over last and the head of what the UI has.    *)
FilesInv == \A f \in FileName : file[f].open => file[f].lines # <<>>
AnswerInv ==
  ui = "answer" => /\ events # <<>> /\ handed # <<>>
                   /\ Head(events) = {Last(handed)}
TypeInv == TypeOK /\ FilesInv /\ AnswerInv

LEMMA TypeInit == Init => TypeInv
<1> SUFFICES ASSUME Init
             PROVE  TypeInv
  OBVIOUS
<1>1. <<>> \in Seq(Line) /\ <<>> \in Seq(Request)
  OBVIOUS
<1>2. EmptyFile \in File /\ EmptyFile.open = FALSE
  BY <1>1 DEF EmptyFile, File
<1>3. TypeOK
  <2>1. file \in [FileName -> File] /\ newlines \in [FileName -> Nat]
    BY <1>2 DEF Init
  <2>2. batch \in [Drainer -> Seq(Line)]
    BY <1>1 DEF Init
  <2>3. events \in Seq(Line) /\ handed \in Seq(Request)
    BY <1>1 DEF Init
  <2>4. posted \in 0..MaxRequests /\ calls \in 0..MaxCalls /\ crashes \in 0..MaxCrashes
    BY BoundsAssumption DEF Init
  <2>5. /\ reading \in SUBSET Drainer /\ ui \in {"keys", "apply", "answer", "drain"}
        /\ shown \in SUBSET Request /\ counted \in SUBSET Request
        /\ strayed \in SUBSET Request /\ raced \in SUBSET Request
        /\ marked \in BOOLEAN /\ here \in Inbox
    BY DEF Init, Inbox
  <2>6. checked \in Nat /\ marking \in Nat /\ due \in Int
    BY DEF Init
  <2>7. QED
    BY <2>1, <2>2, <2>3, <2>4, <2>5, <2>6 DEF TypeOK
<1>4. FilesInv
  BY <1>2 DEF Init, FilesInv
<1>5. AnswerInv
  BY DEF Init, AnswerInv
<1>6. QED
  BY <1>3, <1>4, <1>5 DEF TypeInv

(* The names of the files differ.                                          *)
LEMMA NameFacts ==
  /\ "inbox" \in Inbox /\ "inbox" \in FileName /\ "outbox" \in FileName
  /\ Inbox \subseteq FileName /\ Elsewhere = Inbox \ {"inbox"}
  /\ "outbox" \notin Inbox /\ "inbox" # "outbox"
BY ElsewhereAssumption DEF Inbox, FileName

LEMMA SourceFacts ==
  ASSUME TypeOK
  PROVE  /\ Source("poller") = "inbox" /\ Source("command") = here
         /\ \A d \in Drainer : Source(d) \in Inbox
BY NameFacts DEF Source, Drainer, TypeOK

(* A line goes to an inbox.                                                *)
LEMMA PostLineFacts ==
  ASSUME TypeInv, NEW f \in Inbox, NEW whole \in BOOLEAN, PostLine(f, whole)
  PROVE  /\ posted' = posted + 1 /\ posted' \in Request
         /\ file' \in [FileName -> File]
         /\ file'[f] = Put(f, posted + 1, whole)
         /\ \A g \in FileName : g # f => file'[g] = file[g]
         /\ file[f] \in File /\ (file[f].open => file[f].lines # <<>>)
         /\ file'[f].lines # <<>>
         /\ newlines' \in [FileName -> Nat]
         /\ strayed' \in SUBSET Request
         /\ strayed' = IF f = "inbox" THEN strayed ELSE strayed \cup {posted + 1}
         /\ raced' \in SUBSET Request
         /\ raced' = raced \cup Spoilt(f, posted + 1)
                       \cup (IF \E d \in reading : Source(d) = f
                             THEN {posted + 1} ELSE {})
<1> DEFINE r == posted + 1
           late == IF \E d \in reading : Source(d) = f THEN {r} ELSE {}
<1>1. r \in Request /\ posted' = r
  BY BoundsAssumption DEF PostLine, TypeInv, TypeOK, Request
<1>2. f \in FileName /\ file[f] \in File /\ (file[f].open => file[f].lines # <<>>)
  BY NameFacts DEF TypeInv, TypeOK, FilesInv
<1>3. Put(f, r, whole) \in File /\ Put(f, r, whole).lines # <<>>
  BY <1>1, <1>2, PutFacts
<1>4. file' = [file EXCEPT ![f] = Put(f, r, whole)]
  BY DEF PostLine
<1>5. strayed' = IF f = "inbox" THEN strayed ELSE strayed \cup {r}
  BY DEF PostLine
<1>6. raced' = raced \cup Spoilt(f, r) \cup late
  BY DEF PostLine
<1>7. late \subseteq {r}
  OBVIOUS
<1> HIDE DEF r, late
<1>8. /\ file' \in [FileName -> File]
      /\ file'[f] = Put(f, r, whole)
      /\ \A g \in FileName : g # f => file'[g] = file[g]
  BY <1>2, <1>3, <1>4 DEF TypeInv, TypeOK
<1>9. newlines' \in [FileName -> Nat]
  BY <1>2 DEF PostLine, TypeInv, TypeOK
<1>10. Spoilt(f, r) \subseteq Request
  <2>1. CASE file[f].open
    <3>1. Last(file[f].lines) \in Line
      BY <1>2, <2>1, LastFacts DEF File
    <3>2. QED
      BY <1>1, <3>1 DEF Spoilt, Line
  <2>2. QED
    BY <2>1 DEF Spoilt
<1>11. raced' \in SUBSET Request /\ strayed' \in SUBSET Request
  BY <1>1, <1>5, <1>6, <1>7, <1>10 DEF TypeInv, TypeOK
<1>12. QED
  BY <1>1, <1>2, <1>3, <1>5, <1>6, <1>8, <1>9, <1>11 DEF r, late

(* Whoever posts, and into which inbox.                                    *)
Posting == OtherPosts \/ TaskPosts \/ CommandPosts \/ PostOnce

LEMMA PostingFacts ==
  ASSUME TypeInv, Posting
  PROVE  /\ \E f \in Inbox, whole \in BOOLEAN : PostLine(f, whole)
         /\ UNCHANGED <<drains, channel, session>>
<1>1. "inbox" \in Inbox /\ here \in Inbox /\ TRUE \in BOOLEAN /\ FALSE \in BOOLEAN
  BY NameFacts DEF TypeInv, TypeOK
<1>2. QED
  BY <1>1 DEF Posting, OtherPosts, TaskPosts, CommandPosts, PostOnce

(* An answer goes to the outbox.                                           *)
LEMMA AppendResponseFacts ==
  ASSUME TypeInv, ui = "answer", AppendResponse
  PROVE  /\ Last(handed) \in Request
         /\ file' \in [FileName -> File]
         /\ file'["outbox"] = Put("outbox", Last(handed), FALSE)
         /\ \A g \in Inbox : file'[g] = file[g]
         /\ file["outbox"].open => file["outbox"].lines # <<>>
         /\ file'["outbox"].lines # <<>>
         /\ newlines' \in [FileName -> Nat]
         /\ raced' \in SUBSET Request /\ raced \subseteq raced'
<1> DEFINE r == Last(handed)
<1>1. r \in Request
  BY LastFacts DEF TypeInv, TypeOK, AnswerInv
<1>2. file["outbox"] \in File /\ (file["outbox"].open => file["outbox"].lines # <<>>)
  BY NameFacts DEF TypeInv, TypeOK, FilesInv
<1>3. Put("outbox", r, FALSE) \in File /\ Put("outbox", r, FALSE).lines # <<>>
  <2> HIDE DEF r
  <2>1. PICK w \in BOOLEAN : w = FALSE
    OBVIOUS
  <2>2. Put("outbox", r, w) \in File /\ Put("outbox", r, w).lines # <<>>
    BY <1>1, <1>2, PutFacts
  <2>3. QED
    BY <2>1, <2>2
<1>4. /\ file' = [file EXCEPT !["outbox"] = Put("outbox", r, FALSE)]
      /\ newlines' = [newlines EXCEPT !["outbox"] = @ + 1]
      /\ raced' = raced \cup Spoilt("outbox", r)
  BY DEF AppendResponse
<1> HIDE DEF r
<1>5. /\ file' \in [FileName -> File]
      /\ file'["outbox"] = Put("outbox", r, FALSE)
      /\ \A g \in Inbox : file'[g] = file[g]
  BY <1>3, <1>4, NameFacts DEF TypeInv, TypeOK
<1>6. newlines' \in [FileName -> Nat]
  BY <1>4, NameFacts DEF TypeInv, TypeOK
<1>7. Spoilt("outbox", r) \subseteq Request
  <2>1. CASE file["outbox"].open
    <3>1. Last(file["outbox"].lines) \in Line
      BY <1>2, <2>1, LastFacts DEF File
    <3>2. QED
      BY <1>1, <3>1 DEF Spoilt, Line
  <2>2. QED
    BY <2>1 DEF Spoilt
<1>8. raced' \in SUBSET Request /\ raced \subseteq raced'
  BY <1>4, <1>7 DEF TypeInv, TypeOK
<1>9. QED
  BY <1>1, <1>2, <1>3, <1>5, <1>6, <1>8 DEF r

LEMMA TypeStep == ASSUME TypeInv, [Next]_vars PROVE TypeInv'
<1> USE DEF TypeInv
<1>0. EmptyFile \in File /\ EmptyFile.open = FALSE
  BY DEF EmptyFile, File
<1>1. CASE Posting
  <2>1. PICK f \in Inbox, whole \in BOOLEAN : PostLine(f, whole)
    BY <1>1, PostingFacts
  <2>2. UNCHANGED <<drains, channel, session>>
    BY <1>1, PostingFacts
  <2>3. /\ checked' \in Nat /\ marking' \in Nat /\ due' \in Int
        /\ marked' = marked /\ calls' = calls
    <3>1. CASE PostOnce
      <4>1. /\ checked > 0 /\ checked' = checked - 1 /\ marking' = marking + 1
            /\ due' = due - 1 /\ marked' = marked /\ calls' = calls
        BY <3>1 DEF PostOnce
      <4>2. checked \in Nat /\ marking \in Nat /\ due \in Int
        BY DEF TypeOK
      <4>3. QED
        BY <4>1, <4>2
    <3>2. CASE ~PostOnce
      <4>1. UNCHANGED task
        BY <1>1, <3>2 DEF Posting, OtherPosts, TaskPosts, CommandPosts
      <4>2. QED
        BY <4>1 DEF task, TypeOK
    <3>3. QED
      BY <3>1, <3>2
  <2>4. /\ posted' \in 0..MaxRequests
        /\ file' \in [FileName -> File] /\ newlines' \in [FileName -> Nat]
        /\ strayed' \in SUBSET Request /\ raced' \in SUBSET Request
    BY <2>1, PostLineFacts DEF Request
  <2>5. TypeOK'
    BY <2>2, <2>3, <2>4 DEF TypeOK, drains, channel, session
  <2>6. FilesInv'
    BY <2>1, PostLineFacts DEF FilesInv
  <2>7. AnswerInv'
    BY <2>2 DEF AnswerInv, channel
  <2>8. QED
    BY <2>5, <2>6, <2>7
<1>2. CASE CallOnce
  <2>1. calls' \in 0..MaxCalls
    BY <1>2, BoundsAssumption DEF CallOnce, TypeOK
  <2>2. TypeOK'
    BY <1>2, <2>1 DEF CallOnce, TypeOK, drains, channel, session, fates
  <2>3. QED
    BY <1>2, <2>2 DEF CallOnce, FilesInv, AnswerInv, channel
<1>3. CASE ChangeDirectory
  BY <1>3 DEF ChangeDirectory, TypeOK, FilesInv, AnswerInv, drains, channel, task, fates
<1>4. CASE Mark
  BY <1>4 DEF Mark, TypeOK, FilesInv, AnswerInv, drains, channel, session, fates
<1>5. CASE Clear
  <2>1. due' \in Int /\ marked' \in BOOLEAN
    <3>1. due' = due + 1 /\ due \in Int
      BY <1>5 DEF Clear, TypeOK
    <3>2. due' \in Int
      BY <3>1
    <3>3. marked' \in BOOLEAN
      BY <1>5, Zenon DEF Clear
    <3>4. QED
      BY <3>2, <3>3
  <2>2. UNCHANGED <<file, newlines, posted, drains, channel, checked, marking, calls,
                    session, fates>>
    BY <1>5 DEF Clear
  <2>3. QED
    BY <2>1, <2>2 DEF TypeOK, FilesInv, AnswerInv, drains, channel, session, fates
<1>6. ASSUME NEW f \in FileName, NewlineLands(f)
      PROVE  TypeInv'
  <2>1. file' = [file EXCEPT ![f].open = FALSE]
    BY <1>6 DEF NewlineLands
  <2>2. [file[f] EXCEPT !.open = FALSE] \in File
    BY DEF TypeOK, File
  <2>3. file' = [file EXCEPT ![f] = [file[f] EXCEPT !.open = FALSE]]
    BY <2>1
  <2>4. file' \in [FileName -> File] /\ file'[f].open = FALSE
        /\ \A g \in FileName : g # f => file'[g] = file[g]
    BY <2>2, <2>3 DEF TypeOK, File
  <2>5. newlines' \in [FileName -> Nat]
    BY <1>6 DEF NewlineLands, TypeOK
  <2>6. TypeOK'
    BY <1>6, <2>4, <2>5 DEF NewlineLands, TypeOK, drains, channel, task, session, fates
  <2>7. FilesInv'
    BY <2>4 DEF FilesInv
  <2>8. AnswerInv'
    BY <1>6 DEF NewlineLands, AnswerInv, channel
  <2>9. QED
    BY <2>6, <2>7, <2>8
<1>7. ASSUME NEW d \in Drainer, Read(d)
      PROVE  /\ reading' \in SUBSET Drainer /\ batch' \in [Drainer -> Seq(Line)]
             /\ file' = file
  <2>1. file[Source(d)].lines \in Seq(Line)
    BY SourceFacts, NameFacts DEF TypeOK, File
  <2>2. QED
    BY <1>7, <2>1 DEF Read, TypeOK
<1>8. ASSUME NEW d \in Drainer, Truncate(d)
      PROVE  /\ reading' \in SUBSET Drainer /\ batch' \in [Drainer -> Seq(Line)]
             /\ file' \in [FileName -> File] /\ FilesInv'
  <2>1. <<>> \in Seq(Line)
    OBVIOUS
  <2>2. file' = [file EXCEPT ![Source(d)] = EmptyFile]
    BY <1>8 DEF Truncate
  <2>3. file' \in [FileName -> File]
    BY <1>0, <2>2 DEF TypeOK
  <2>4. FilesInv'
    BY <1>0, <2>2 DEF TypeOK, FilesInv
  <2>5. QED
    BY <1>8, <2>1, <2>3, <2>4 DEF Truncate, TypeOK
<1>9. CASE PollerReads
  <2>1. "poller" \in Drainer
    BY DEF Drainer
  <2>2. QED
    BY <1>7, <1>9, <2>1 DEF PollerReads, Read, TypeOK, FilesInv, AnswerInv, channel, task,
       session, fates
<1>10. CASE PollerTruncates
  <2>1. "poller" \in Drainer
    BY DEF Drainer
  <2>2. events' \in Seq(Line)
    BY <1>10, <2>1 DEF PollerTruncates, TypeOK
  <2>3. ui = "answer" => events' # <<>> /\ Head(events') = Head(events)
    BY <1>10, <2>1 DEF PollerTruncates, TypeOK, AnswerInv
  <2>4. AnswerInv'
    BY <1>10, <2>3 DEF PollerTruncates, AnswerInv
  <2>5. QED
    BY <1>8, <1>10, <2>1, <2>2, <2>4 DEF PollerTruncates, Truncate, TypeOK, task,
       session, fates
<1>11. CASE CommandReads
  <2>1. "command" \in Drainer
    BY DEF Drainer
  <2>2. QED
    BY <1>7, <1>11, <2>1 DEF CommandReads, Read, TypeOK, FilesInv, AnswerInv, task,
       session, fates
<1>12. CASE CommandTruncates
  <2>1. "command" \in Drainer
    BY DEF Drainer
  <2>2. Accepted(batch["command"]) \subseteq Request
    BY <2>1 DEF Accepted, Requests, TypeOK, Line
  <2>3. Displayed(batch["command"]) \subseteq Request
    BY <2>2 DEF Displayed
  <2>4. shown' \in SUBSET Request /\ counted' \in SUBSET Request
    BY <1>12, <2>2, <2>3 DEF CommandTruncates, TypeOK
  <2>5. QED
    BY <1>8, <1>12, <2>1, <2>4 DEF CommandTruncates, Truncate, TypeOK, AnswerInv, task,
       session, fates
<1>13. CASE Reject
  <2>1. events' \in Seq(Line) /\ ui' \in {"keys", "apply"}
    BY <1>13, TailFacts DEF Reject, TypeOK, Idle
  <2>2. QED
    BY <1>13, <2>1 DEF Reject, TypeOK, FilesInv, AnswerInv, drains, task, session, fates
<1>14. CASE HandOver
  <2>1. PICK r \in Request : Head(events) = {r} /\ handed' = Append(handed, r)
    BY <1>14 DEF HandOver
  <2>2. handed' \in Seq(Request) /\ handed' # <<>> /\ Last(handed') = r
    <3>1. handed \in Seq(Request)
      BY DEF TypeOK
    <3>2. handed' \in Seq(Request) /\ handed' # <<>>
      BY <2>1, <3>1
    <3>3. Len(handed') = Len(handed) + 1 /\ handed'[Len(handed) + 1] = r
      BY <2>1, <3>1
    <3>4. QED
      BY <3>2, <3>3, LastFacts
  <2>3. AnswerInv'
    BY <1>14, <2>1, <2>2 DEF HandOver, AnswerInv
  <2>4. QED
    BY <1>14, <2>2, <2>3 DEF HandOver, TypeOK, FilesInv, drains, task, session, fates
<1>15. CASE Answer
  <2>1. events' \in Seq(Line) /\ ui' \in {"keys", "apply"}
    BY <1>15, TailFacts DEF Answer, TypeOK, Idle, AnswerInv
  <2>2. TypeOK'
    BY <1>15, <2>1, AppendResponseFacts DEF Answer, TypeOK, drains, task, session
  <2>3. FilesInv'
    BY <1>15, AppendResponseFacts, NameFacts DEF Answer, FilesInv, FileName
  <2>4. AnswerInv'
    BY <2>1 DEF AnswerInv
  <2>5. QED
    BY <2>2, <2>3, <2>4
<1>16. CASE Crash
  <2>1. <<>> \in Seq(Line)
    OBVIOUS
  <2>2. Requests(events) \subseteq Request
    BY DEF Requests, TypeOK, Line
  <2>3. newlines' \in [FileName -> Nat] /\ batch' \in [Drainer -> Seq(Line)]
    BY <1>16, <2>1 DEF Crash
  <2>4. crashes' \in 0..MaxCrashes
    BY <1>16, BoundsAssumption DEF Crash, TypeOK
  <2>5. TypeOK'
    BY <1>16, <2>1, <2>2, <2>3, <2>4, NameFacts DEF Crash, TypeOK
  <2>6. QED
    BY <1>16, <2>5 DEF Crash, FilesInv, AnswerInv
<1>17. CASE UNCHANGED vars
  BY <1>17 DEF vars, TypeOK, FilesInv, AnswerInv, drains, channel, task, session, fates
<1>18. QED
  BY <1>1, <1>2, <1>3, <1>4, <1>5, <1>6, <1>9, <1>10, <1>11, <1>12, <1>13, <1>14,
     <1>15, <1>16, <1>17 DEF Next, UINext, Posting

LEMMA TypeAlways == Spec => []TypeInv
<1>1. Init => TypeInv
  BY TypeInit
<1>2. TypeInv /\ [Next]_vars => TypeInv'
  BY TypeStep
<1>3. QED
  BY <1>1, <1>2, PTL DEF Spec

(* Every variable keeps its type (core/remote, the poller, the UI loop).    *)
THEOREM TypeCorrect == Spec => []TypeOK
<1>1. TypeInv => TypeOK
  BY DEF TypeInv
<1>2. QED
  BY <1>1, TypeAlways, PTL
-----------------------------------------------------------------------------
(* The once-only task: each call on its way to its post has an occasion, and *)
(* so has the next one as long as nobody has posted or is about to.          *)
OnceInv ==
  /\ due >= checked
  /\ ~marked /\ checked + marking = 0 => due >= 1

LEMMA OnceInit == Init => OnceInv
BY DEF Init, OnceInv

LEMMA OnceStep == ASSUME TypeInv, OnceInv, [Next]_vars PROVE OnceInv'
<1>0. checked \in Nat /\ marking \in Nat /\ due \in Int
  BY DEF TypeInv, TypeOK
<1>1. CASE CallOnce
  BY <1>0, <1>1 DEF CallOnce, OnceInv
<1>2. CASE PostOnce
  <2>1. /\ checked > 0 /\ checked' = checked - 1 /\ marking' = marking + 1
        /\ due' = due - 1
    BY <1>2 DEF PostOnce
  <2>2. checked' + marking' > 0
    BY <1>0, <2>1
  <2>3. QED
    BY <1>0, <2>1, <2>2 DEF OnceInv
<1>3. CASE Mark
  BY <1>0, <1>3 DEF Mark, OnceInv
<1>4. CASE Clear
  BY <1>0, <1>4 DEF Clear, OnceInv
<1>5. CASE Crash
  BY <1>0, <1>5 DEF Crash, OnceInv
<1>6. CASE UNCHANGED task
  BY <1>6 DEF task, OnceInv
<1>7. ASSUME \/ OtherPosts \/ TaskPosts \/ CommandPosts \/ ChangeDirectory
             \/ PollerReads \/ PollerTruncates \/ CommandReads \/ UINext
             \/ UNCHANGED vars \/ \E f \in FileName : NewlineLands(f)
      PROVE  UNCHANGED task
  BY <1>7 DEF OtherPosts, TaskPosts, CommandPosts, ChangeDirectory, PollerReads, PollerTruncates, CommandReads, CommandTruncates,
     Read, Truncate, UINext, Reject, HandOver, Answer, NewlineLands, vars
<1>8. QED
  BY <1>1, <1>2, <1>3, <1>4, <1>5, <1>6, <1>7 DEF Next

(* A once-only task is posted no more often than there are occasions        *)
(* (BackgroundTaskInvocation::execute, /job clear).                         *)
THEOREM OnceTasksRunOnce == Spec => []OnceMeansOnce
<1>1. TypeInv /\ OnceInv => OnceMeansOnce
  BY DEF TypeInv, TypeOK, OnceInv, OnceMeansOnce
<1>2. Init => OnceInv
  BY OnceInit
<1>3. TypeInv /\ OnceInv /\ [Next]_vars => OnceInv'
  BY OnceStep
<1>4. QED
  BY <1>1, <1>2, <1>3, TypeAlways, PTL DEF Spec
-----------------------------------------------------------------------------
(* The requests of some lines, and lines in the order of their requests.    *)
Before(A, B) == \A r \in A, s \in B : r < s

Ordered(lines) ==
  \A j, k \in DOMAIN lines :
    j < k => \A r \in lines[j], s \in lines[k] : r < s

LEMMA RequestsDef ==
  ASSUME NEW lines, NEW r
  PROVE  r \in Requests(lines) <=> \E k \in DOMAIN lines : r \in lines[k]
BY DEF Requests

LEMMA AcceptedDef ==
  ASSUME NEW lines, NEW r
  PROVE  r \in Accepted(lines) <=> \E k \in DOMAIN lines : lines[k] = {r}
BY RequestsDef DEF Accepted

LEMMA EmptyLines ==
  Requests(<<>>) = {} /\ Accepted(<<>>) = {} /\ Ordered(<<>>)
BY DEF Requests, Accepted, Ordered

LEMMA PutRequests ==
  ASSUME NEW old \in File, old.open => old.lines # <<>>,
         NEW r \in Request, NEW whole \in BOOLEAN,
         NEW f, file[f] = old
  PROVE  LET new == Put(f, r, whole) IN
         /\ Requests(new.lines) = Requests(old.lines) \cup {r}
         /\ Accepted(old.lines) \cup {r} \subseteq Accepted(new.lines) \cup Spoilt(f, r)
         /\ Ordered(old.lines) /\ Before(Requests(old.lines), {r})
              => Ordered(new.lines)
<1> DEFINE new == Put(f, r, whole)
           n == Len(old.lines)
<1>1. /\ n \in Nat /\ DOMAIN old.lines = 1..n
      /\ old.open =>
           /\ n > 0 /\ DOMAIN new.lines = 1..n
           /\ \A k \in 1..(n - 1) : new.lines[k] = old.lines[k]
           /\ new.lines[n] = old.lines[n] \cup {r}
           /\ Spoilt(f, r) = old.lines[n] \cup {r}
      /\ ~old.open =>
           /\ DOMAIN new.lines = 1..(n + 1)
           /\ \A k \in 1..n : new.lines[k] = old.lines[k]
           /\ new.lines[n + 1] = {r}
           /\ Spoilt(f, r) = {}
  BY PutFacts
<1> HIDE DEF new, n
<1>2. ASSUME Ordered(old.lines), Before(Requests(old.lines), {r}),
             NEW j \in DOMAIN new.lines, NEW k \in DOMAIN new.lines, j < k,
             NEW x \in new.lines[j], NEW y \in new.lines[k]
      PROVE  x < y
  <2>0. \A i \in DOMAIN old.lines : \A z \in old.lines[i] : z < r
    BY <1>2, RequestsDef DEF Before
  <2>1. CASE old.open
    <3>1. j \in 1..(n - 1) /\ k \in 1..n
      BY <1>1, <1>2, <2>1
    <3>2. x \in old.lines[j] /\ j \in DOMAIN old.lines /\ k \in DOMAIN old.lines
      BY <1>1, <1>2, <2>1, <3>1
    <3>3. y \in old.lines[k] \/ y = r
      BY <1>1, <1>2, <2>1, <3>1
    <3>4. QED
      BY <1>2, <2>0, <3>2, <3>3 DEF Ordered
  <2>2. CASE ~old.open
    <3>1. j \in 1..n /\ k \in 1..(n + 1)
      BY <1>1, <1>2, <2>2
    <3>2. x \in old.lines[j] /\ j \in DOMAIN old.lines
      BY <1>1, <1>2, <2>2, <3>1
    <3>3. CASE k = n + 1
      BY <1>1, <1>2, <2>0, <2>2, <3>2, <3>3
    <3>4. CASE k \in 1..n
      BY <1>1, <1>2, <2>2, <3>2, <3>4 DEF Ordered
    <3>5. QED
      BY <1>1, <3>1, <3>3, <3>4
  <2>3. QED
    BY <2>1, <2>2
<1>3. Requests(new.lines) \subseteq Requests(old.lines) \cup {r}
  <2> SUFFICES ASSUME NEW x \in Requests(new.lines), x # r
               PROVE  x \in Requests(old.lines)
    OBVIOUS
  <2>1. PICK k \in DOMAIN new.lines : x \in new.lines[k]
    BY RequestsDef
  <2>2. k \in DOMAIN old.lines /\ x \in old.lines[k]
    <3>1. CASE old.open
      BY <1>1, <2>1, <3>1
    <3>2. CASE ~old.open
      BY <1>1, <2>1, <3>2
    <3>3. QED
      BY <3>1, <3>2
  <2>3. QED
    BY <2>2, RequestsDef
<1>4. r \in Requests(new.lines)
  <2>1. CASE old.open
    <3>1. n \in DOMAIN new.lines /\ r \in new.lines[n]
      BY <1>1, <2>1
    <3>2. QED
      BY <3>1, RequestsDef
  <2>2. CASE ~old.open
    <3>1. n + 1 \in DOMAIN new.lines /\ r \in new.lines[n + 1]
      BY <1>1, <2>2
    <3>2. QED
      BY <3>1, RequestsDef
  <2>3. QED
    BY <2>1, <2>2
<1>5. Requests(old.lines) \subseteq Requests(new.lines)
  <2> SUFFICES ASSUME NEW x \in Requests(old.lines)
               PROVE  x \in Requests(new.lines)
    OBVIOUS
  <2>1. PICK k \in DOMAIN old.lines : x \in old.lines[k]
    BY RequestsDef
  <2>2. k \in DOMAIN new.lines /\ x \in new.lines[k]
    BY <1>1, <2>1
  <2>3. QED
    BY <2>2, RequestsDef
<1>6. ASSUME NEW x \in Accepted(old.lines), x \notin Spoilt(f, r)
      PROVE  x \in Accepted(new.lines)
  <2>1. PICK k \in DOMAIN old.lines : old.lines[k] = {x}
    BY AcceptedDef
  <2>2. k \in DOMAIN new.lines /\ new.lines[k] = {x}
    BY <1>1, <1>6, <2>1
  <2>3. QED
    BY <2>2, AcceptedDef
<1>7. r \notin Spoilt(f, r) => r \in Accepted(new.lines)
  BY <1>1, AcceptedDef
<1>8. Ordered(old.lines) /\ Before(Requests(old.lines), {r}) => Ordered(new.lines)
  BY <1>2 DEF Ordered
<1>9. QED
  BY <1>3, <1>4, <1>5, <1>6, <1>7, <1>8 DEF new

LEMMA ConcatRequests ==
  ASSUME NEW s \in Seq(Line), NEW t \in Seq(Line)
  PROVE  /\ Requests(s \o t) = Requests(s) \cup Requests(t)
         /\ Accepted(s) \cup Accepted(t) \subseteq Accepted(s \o t)
         /\ Ordered(s) /\ Ordered(t) /\ Before(Requests(s), Requests(t))
              => Ordered(s \o t)
<1> DEFINE u == s \o t
           m == Len(s)
           n == Len(t)
<1>1. /\ m \in Nat /\ n \in Nat
      /\ DOMAIN s = 1..m /\ DOMAIN t = 1..n /\ DOMAIN u = 1..(m + n)
      /\ \A i \in 1..m : u[i] = s[i]
      /\ \A i \in 1..n : u[m + i] = t[i]
  BY ConcatFacts
<1> HIDE DEF u, m, n
<1>2. ASSUME NEW k \in DOMAIN u
      PROVE  \/ k \in DOMAIN s /\ u[k] = s[k]
             \/ k > m /\ k - m \in DOMAIN t /\ u[k] = t[k - m]
  <2>1. CASE k \in 1..m
    BY <1>1, <2>1
  <2>2. CASE k \in (m + 1)..(m + n)
    <3>1. k - m \in 1..n /\ m + (k - m) = k
      BY <1>1, <2>2
    <3>2. QED
      BY <1>1, <2>2, <3>1
  <2>3. QED
    BY <1>1, <2>1, <2>2
<1>3. Requests(u) \subseteq Requests(s) \cup Requests(t)
  BY <1>2, RequestsDef
<1>4. Requests(s) \subseteq Requests(u) /\ Accepted(s) \subseteq Accepted(u)
  <2>1. \A k \in DOMAIN s : \E i \in DOMAIN u : u[i] = s[k]
    BY <1>1
  <2>2. \A x \in Requests(s) : x \in Requests(u)
    BY <2>1, RequestsDef
  <2>3. ASSUME NEW x \in Accepted(s)
        PROVE  x \in Accepted(u)
    <3>1. PICK k \in DOMAIN s : s[k] = {x}
      BY <2>3, AcceptedDef
    <3>2. \E i \in DOMAIN u : u[i] = {x}
      BY <2>1, <3>1
    <3>3. QED
      BY <3>2, AcceptedDef
  <2>4. QED
    BY <2>2, <2>3
<1>5. Requests(t) \subseteq Requests(u) /\ Accepted(t) \subseteq Accepted(u)
  <2>1. \A k \in DOMAIN t : \E i \in DOMAIN u : u[i] = t[k]
    BY <1>1
  <2>2. \A x \in Requests(t) : x \in Requests(u)
    BY <2>1, RequestsDef
  <2>3. ASSUME NEW x \in Accepted(t)
        PROVE  x \in Accepted(u)
    <3>1. PICK k \in DOMAIN t : t[k] = {x}
      BY <2>3, AcceptedDef
    <3>2. \E i \in DOMAIN u : u[i] = {x}
      BY <2>1, <3>1
    <3>3. QED
      BY <3>2, AcceptedDef
  <2>4. QED
    BY <2>2, <2>3
<1>6. ASSUME Ordered(s), Ordered(t), Before(Requests(s), Requests(t)),
             NEW j \in DOMAIN u, NEW k \in DOMAIN u, j < k,
             NEW x \in u[j], NEW y \in u[k]
      PROVE  x < y
  <2>1. CASE j \in DOMAIN s /\ u[j] = s[j]
    <3>1. CASE k \in DOMAIN s /\ u[k] = s[k]
      BY <1>6, <2>1, <3>1 DEF Ordered
    <3>2. CASE k - m \in DOMAIN t /\ u[k] = t[k - m]
      BY <1>6, <2>1, <3>2, RequestsDef DEF Before
    <3>3. QED
      BY <1>2, <3>1, <3>2
  <2>2. CASE j > m /\ j - m \in DOMAIN t /\ u[j] = t[j - m]
    <3>1. k > m /\ k - m \in DOMAIN t /\ u[k] = t[k - m] /\ j - m < k - m
      BY <1>1, <1>2, <1>6, <2>2
    <3>2. QED
      BY <1>6, <2>2, <3>1 DEF Ordered
  <2>3. QED
    BY <1>2, <2>1, <2>2
<1>7. Ordered(s) /\ Ordered(t) /\ Before(Requests(s), Requests(t)) => Ordered(u)
  BY <1>6 DEF Ordered
<1>8. QED
  BY <1>3, <1>4, <1>5, <1>7 DEF u

LEMMA TailRequests ==
  ASSUME NEW s \in Seq(Line), s # <<>>
  PROVE  /\ Requests(s) = Head(s) \cup Requests(Tail(s))
         /\ \A r : r \in Accepted(s) /\ Head(s) # {r} => r \in Accepted(Tail(s))
         /\ Ordered(s) => Ordered(Tail(s)) /\ Before(Head(s), Requests(Tail(s)))
<1> DEFINE t == Tail(s)
           n == Len(s)
<1>1. /\ n \in Nat \ {0} /\ DOMAIN s = 1..n /\ DOMAIN t = 1..(n - 1)
      /\ Head(s) = s[1] /\ \A i \in 1..(n - 1) : t[i] = s[i + 1]
  BY TailFacts
<1> HIDE DEF t, n
<1>2. \A k \in DOMAIN t : k + 1 \in DOMAIN s /\ k + 1 > 1 /\ t[k] = s[k + 1]
  BY <1>1
<1>3. \A k \in DOMAIN s : k = 1 \/ (k - 1 \in DOMAIN t /\ t[k - 1] = s[k])
  <2> SUFFICES ASSUME NEW k \in DOMAIN s, k # 1
               PROVE  k - 1 \in DOMAIN t /\ t[k - 1] = s[k]
    OBVIOUS
  <2>1. k - 1 \in 1..(n - 1) /\ (k - 1) + 1 = k
    BY <1>1
  <2>2. QED
    BY <1>1, <2>1
<1>4. 1 \in DOMAIN s
  BY <1>1
<1>5. Requests(s) \subseteq Head(s) \cup Requests(t)
  BY <1>1, <1>3, RequestsDef
<1>6. Head(s) \cup Requests(t) \subseteq Requests(s)
  BY <1>1, <1>2, <1>4, RequestsDef
<1>7. ASSUME NEW r, r \in Accepted(s), Head(s) # {r}
      PROVE  r \in Accepted(t)
  <2>1. PICK k \in DOMAIN s : s[k] = {r}
    BY <1>7, AcceptedDef
  <2>2. k # 1
    BY <1>1, <1>7, <2>1
  <2>3. \E i \in DOMAIN t : t[i] = {r}
    BY <1>3, <2>1, <2>2
  <2>4. QED
    BY <2>3, AcceptedDef
<1>8. ASSUME Ordered(s)
      PROVE  Ordered(t)
  <2> SUFFICES ASSUME NEW j \in DOMAIN t, NEW k \in DOMAIN t, j < k,
                      NEW x \in t[j], NEW y \in t[k]
               PROVE  x < y
    BY DEF Ordered
  <2>1. j + 1 < k + 1
    BY <1>1
  <2>2. QED
    BY <1>2, <1>8, <2>1 DEF Ordered
<1>9. ASSUME Ordered(s)
      PROVE  Before(Head(s), Requests(t))
  <2> SUFFICES ASSUME NEW x \in Head(s), NEW y \in Requests(t)
               PROVE  x < y
    BY DEF Before
  <2>1. PICK k \in DOMAIN t : y \in t[k]
    BY RequestsDef
  <2>2. QED
    BY <1>1, <1>2, <1>4, <1>9, <2>1 DEF Ordered
<1>10. QED
  BY <1>5, <1>6, <1>7, <1>8, <1>9 DEF t
-----------------------------------------------------------------------------
(* What is handed over, on its way, read and in the file comes in this      *)
(* order.                                                                   *)
Lines(f) == file[f].lines
In == Lines("inbox")
Out == file["outbox"].lines
Past == ToSet(handed)
Posted == 1..posted

Behind(lines) ==
  /\ Ordered(lines) /\ Requests(lines) \subseteq Posted
  /\ Before(Past, Requests(lines)) /\ Before(Requests(events), Requests(lines))

OrderInv ==
  /\ Past \subseteq Posted /\ Increasing(handed)
  /\ Ordered(events) /\ Requests(events) \subseteq Posted
  /\ ui # "answer" => Before(Past, Requests(events))
  /\ ui = "answer" => Before(Past, Requests(Tail(events)))
  /\ Behind(In)
  /\ "poller" \in reading => Behind(batch["poller"])
  /\ "command" \in reading => ui = "drain"

LEMMA ToSetDef ==
  ASSUME NEW s, NEW x
  PROVE  x \in ToSet(s) <=> \E i \in DOMAIN s : s[i] = x
BY DEF ToSet

LEMMA OrderInit == Init => OrderInv
<1> SUFFICES ASSUME Init
             PROVE  OrderInv
  OBVIOUS
<1>1. In = <<>> /\ events = <<>> /\ handed = <<>> /\ ui = "keys" /\ reading = {}
  BY NameFacts DEF Init, In, Lines, EmptyFile
<1>2. Past = {} /\ Increasing(handed)
  BY <1>1, ToSetDef DEF Past, Increasing
<1>3. QED
  BY <1>1, <1>2, EmptyLines DEF OrderInv, Behind, Before

(* A line of the inbox is added behind everything.                         *)
LEMMA OrderPost == ASSUME TypeInv, OrderInv, Posting PROVE OrderInv'
<1> DEFINE r == posted + 1
<1>1. PICK f \in Inbox, whole \in BOOLEAN : PostLine(f, whole)
  BY PostingFacts
<1>2. r \in Request /\ posted \in Nat /\ posted' = r
  BY <1>1, PostLineFacts, BoundsAssumption DEF TypeInv, TypeOK
<1>3. Posted \subseteq Posted' /\ r \in Posted' /\ Before(Posted, {r})
  BY <1>2 DEF Posted, Before
<1> HIDE DEF r
<1>4. Requests(In') \subseteq Requests(In) \cup {r} /\ Ordered(In')
  <2>1. CASE f = "inbox"
    <3>1. /\ file[f] \in File
          /\ file[f].open => file[f].lines # <<>>
          /\ file'[f] = Put(f, r, whole)
      BY <1>1, PostLineFacts DEF r
    <3>2. LET new == Put(f, r, whole) IN
          /\ Requests(new.lines) = Requests(file[f].lines) \cup {r}
          /\ Ordered(file[f].lines) /\ Before(Requests(file[f].lines), {r})
               => Ordered(new.lines)
      BY <1>2, <3>1, PutRequests
    <3>3. Ordered(In) /\ Before(Requests(In), {r})
      BY <1>3 DEF OrderInv, Behind, Before
    <3>4. QED
      BY <2>1, <3>1, <3>2, <3>3 DEF In, Lines
  <2>2. CASE f # "inbox"
    <3>1. In' = In
      BY <1>1, <2>2, PostLineFacts, NameFacts DEF In, Lines
    <3>2. QED
      BY <3>1 DEF OrderInv, Behind
  <2>3. QED
    BY <2>1, <2>2
<1>5. /\ Past' = Past /\ events' = events /\ handed' = handed /\ ui' = ui
      /\ reading' = reading /\ batch' = batch
  BY PostingFacts DEF channel, drains, Past
<1>6. Behind(In)'
  BY <1>3, <1>4, <1>5 DEF OrderInv, Behind, Before
<1>7. "poller" \in reading => Behind(batch["poller"])'
  BY <1>3, <1>5 DEF OrderInv, Behind
<1>8. QED
  BY <1>3, <1>5, <1>6, <1>7 DEF OrderInv

LEMMA OrderStep == ASSUME TypeInv, OrderInv, [Next]_vars PROVE OrderInv'
<1>0. /\ events \in Seq(Line) /\ handed \in Seq(Request) /\ In \in Seq(Line)
      /\ \A d \in Drainer : batch[d] \in Seq(Line)
  BY NameFacts DEF TypeInv, TypeOK, In, Lines, File
<1>1. CASE Posting
  BY <1>1, OrderPost
<1>3. ASSUME In' = In, UNCHANGED <<posted, drains, channel>>
      PROVE  OrderInv'
  BY <1>3 DEF OrderInv, Behind, Past, Posted, drains, channel
<1>4. ASSUME NEW f \in FileName, NewlineLands(f)
      PROVE  In' = In
  BY <1>4, NameFacts DEF NewlineLands, In, Lines, TypeInv, TypeOK, File
<1>5. CASE PollerReads
  <2>1. /\ "poller" \in Drainer /\ batch'["poller"] = In /\ In' = In
        /\ "command" \in reading' => "command" \in reading
    BY <1>5, SourceFacts DEF PollerReads, Read, In, Lines, TypeInv, TypeOK, Drainer
  <2>2. UNCHANGED <<posted, channel>>
    BY <1>5 DEF PollerReads, Read
  <2>3. QED
    BY <2>1, <2>2 DEF OrderInv, Behind, Past, Posted, channel
<1>6. ASSUME NEW d \in Drainer, Truncate(d)
      PROVE  In' \in {In, <<>>} /\ posted' = posted
  BY <1>6, NameFacts DEF Truncate, In, Lines, EmptyFile, TypeInv, TypeOK
<1>7. CASE PollerTruncates
  <2>1. /\ "poller" \in Drainer /\ "poller" \in reading /\ "poller" \notin reading'
        /\ events' = events \o batch["poller"]
        /\ "command" \in reading' => "command" \in reading
        /\ UNCHANGED <<posted, ui, handed, shown>>
    BY <1>7 DEF PollerTruncates, Truncate, Drainer
  <2>2. In' = <<>>
    BY <1>7, SourceFacts, NameFacts
       DEF PollerTruncates, Truncate, In, Lines, EmptyFile, TypeInv, TypeOK
  <2>3. Behind(batch["poller"])
    BY <2>1 DEF OrderInv
  <2>4. /\ Requests(events') = Requests(events) \cup Requests(batch["poller"])
        /\ Ordered(events')
    BY <1>0, <2>1, <2>3, ConcatRequests DEF OrderInv, Behind
  <2>5. ui = "answer" => Before(Past, Requests(Tail(events')))
    <3> SUFFICES ASSUME ui = "answer"
                 PROVE  Before(Past, Requests(Tail(events')))
      OBVIOUS
    <3>1. events # <<>>
      BY DEF TypeInv, AnswerInv
    <3>2. /\ Tail(events) \in Seq(Line)
          /\ Tail(events') = Tail(events) \o batch["poller"]
      BY <1>0, <2>1, <3>1
    <3>3. Requests(Tail(events')) = Requests(Tail(events)) \cup Requests(batch["poller"])
      BY <1>0, <2>1, <3>2, ConcatRequests
    <3>4. QED
      BY <2>3, <3>3 DEF OrderInv, Behind, Before
  <2>6. Past' = Past /\ Posted' = Posted
    BY <2>1 DEF Past, Posted
  <2>7. Behind(In)'
    BY <2>2, EmptyLines DEF Behind, Before
  <2>8. QED
    BY <2>1, <2>3, <2>4, <2>5, <2>6, <2>7 DEF OrderInv, Behind, Before
<1>8. CASE CommandReads
  <2>1. /\ batch'["poller"] = batch["poller"] /\ ("poller" \in reading' => "poller" \in reading)
        /\ In' = In /\ ui # "answer" /\ ui' = "drain"
        /\ UNCHANGED <<posted, events, handed>>
    BY <1>8 DEF CommandReads, Read, In, Lines, TypeInv, TypeOK, Drainer
  <2>2. QED
    BY <2>1 DEF OrderInv, Behind, Past, Posted
<1>9. CASE CommandTruncates
  <2>1. "command" \in Drainer /\ Truncate("command")
    BY <1>9 DEF CommandTruncates, Drainer
  <2>2. In' \in {In, <<>>} /\ posted' = posted
    BY <1>6, <2>1
  <2>3. /\ batch'["poller"] = batch["poller"] /\ ("poller" \in reading' => "poller" \in reading)
        /\ ui' # "answer" /\ UNCHANGED <<events, handed>>
    BY <1>9, <2>1 DEF CommandTruncates, Truncate, TypeInv, TypeOK, Drainer
  <2>4. Before(Past, Requests(events)) /\ "command" \notin reading'
    BY <2>1 DEF OrderInv, Truncate
  <2>5. Behind(In)'
    BY <2>2, <2>3, EmptyLines DEF OrderInv, Behind, Before, Past, Posted
  <2>6. QED
    BY <2>2, <2>3, <2>4, <2>5 DEF OrderInv, Behind, Before, Past, Posted
<1>10. CASE Reject
  <2>1. /\ events # <<>> /\ events' = Tail(events) /\ ui # "answer" /\ ui' # "answer"
        /\ ui # "drain"
        /\ UNCHANGED <<file, posted, drains, handed>>
    BY <1>10 DEF Reject, Idle
  <2>2. /\ Requests(events') \subseteq Requests(events)
        /\ Ordered(events')
    BY <1>0, <2>1, TailRequests DEF OrderInv
  <2>3. QED
    BY <2>1, <2>2 DEF OrderInv, Behind, Before, Past, Posted, In, Lines, drains
<1>11. CASE HandOver
  <2>1. PICK r \in Request : Head(events) = {r} /\ handed' = Append(handed, r)
    BY <1>11 DEF HandOver
  <2>2. /\ events # <<>> /\ ui # "answer" /\ ui' = "answer" /\ ui # "drain"
        /\ UNCHANGED <<file, posted, drains, events>>
    BY <1>11 DEF HandOver
  <2>3. /\ Requests(events) = {r} \cup Requests(Tail(events))
        /\ Before({r}, Requests(Tail(events)))
    BY <1>0, <2>1, <2>2, TailRequests DEF OrderInv
  <2>4. Before(Past, {r}) /\ r \in Posted
    BY <2>2, <2>3 DEF OrderInv, Before
  <2>5. /\ DOMAIN handed = 1..Len(handed) /\ Len(handed) \in Nat
        /\ DOMAIN handed' = 1..(Len(handed) + 1)
        /\ \A i \in 1..Len(handed) : handed'[i] = handed[i]
        /\ handed'[Len(handed) + 1] = r
    BY <1>0, <2>1, AppendFacts
  <2>6. Past' = Past \cup {r}
    <3>1. \A x \in Past' : x \in Past \cup {r}
      BY <2>5, ToSetDef DEF Past
    <3>2. \A x \in Past : x \in Past'
      BY <2>5, ToSetDef DEF Past
    <3>3. r \in Past'
      BY <2>5, ToSetDef DEF Past
    <3>4. QED
      BY <3>1, <3>2, <3>3
  <2>7. Increasing(handed)'
    <3>1. \A i \in 1..Len(handed) : handed[i] < r
      BY <2>4, <2>5, ToSetDef DEF Past, Before
    <3>2. \A i, j \in 1..Len(handed) : i < j => handed[i] < handed[j]
      BY <2>5 DEF OrderInv, Increasing
    <3>3. QED
      BY <2>5, <3>1, <3>2 DEF Increasing
  <2>8. ASSUME NEW lines, Behind(lines)
        PROVE  Behind(lines)'
    BY <2>2, <2>3, <2>6, <2>8 DEF Behind, Before, Posted
  <2>9. QED
    BY <2>2, <2>3, <2>4, <2>6, <2>7, <2>8 DEF OrderInv, Before, Posted, In, Lines,
       drains
<1>12. CASE Answer
  <2>1. /\ ui = "answer" /\ ui' # "answer" /\ events' = Tail(events) /\ events # <<>>
        /\ UNCHANGED <<posted, drains, handed>>
    BY <1>12 DEF Answer, Idle, TypeInv, AnswerInv
  <2>2. In' = In
    BY <1>12, <2>1, AppendResponseFacts, NameFacts DEF Answer, In, Lines
  <2>3. /\ Requests(events') \subseteq Requests(events)
        /\ Ordered(events')
    BY <1>0, <2>1, TailRequests DEF OrderInv
  <2>4. QED
    BY <2>1, <2>2, <2>3 DEF OrderInv, Behind, Before, Past, Posted, drains
<1>13. CASE Crash
  <2>1. events' = <<>> /\ reading' = {} /\ ui' # "answer" /\ UNCHANGED <<file, posted, handed>>
    BY <1>13 DEF Crash
  <2>2. QED
    BY <2>1, EmptyLines DEF OrderInv, Behind, Before, Past, Posted, In, Lines
<1>14. CASE CallOnce \/ Mark \/ Clear \/ ChangeDirectory \/ UNCHANGED vars
  <2>1. In' = In /\ UNCHANGED <<posted, drains, channel>>
    BY <1>14 DEF CallOnce, Mark, Clear, ChangeDirectory, vars, In, Lines
  <2>2. QED
    BY <1>3, <2>1
<1>15. CASE \E f \in FileName : NewlineLands(f)
  <2>1. UNCHANGED <<posted, drains, channel>>
    BY <1>15 DEF NewlineLands
  <2>2. QED
    BY <1>3, <1>4, <1>15, <2>1
<1>16. QED
  BY <1>1, <1>5, <1>7, <1>8, <1>9, <1>10, <1>11, <1>12, <1>13, <1>14, <1>15
     DEF Next, UINext, Posting

LEMMA OrderAlways == Spec => []OrderInv
<1>1. Init => OrderInv
  BY OrderInit
<1>2. TypeInv /\ OrderInv /\ [Next]_vars => OrderInv'
  BY OrderStep
<1>3. QED
  BY <1>1, <1>2, TypeAlways, PTL DEF Spec

(* The worker is given each request at most once and in the order of the    *)
(* file (drain_requests, apply_remote_requests).                            *)
THEOREM RequestsStayInOrder == Spec => []HandedOnceInOrder
<1>1. OrderInv => HandedOnceInOrder
  BY DEF OrderInv, HandedOnceInOrder
<1>2. QED
  BY <1>1, OrderAlways, PTL
-----------------------------------------------------------------------------
(* The outbox holds answers to what was handed over; the one that is due is  *)
(* the last.                                                                *)
OutInv ==
  /\ Requests(Out) \subseteq Past /\ Ordered(Out)
  /\ ui = "answer" => Before(Requests(Out), {Last(handed)})

LEMMA OutInit == Init => OutInv
<1> SUFFICES ASSUME Init
             PROVE  OutInv
  OBVIOUS
<1>1. Out = <<>> /\ ui = "keys"
  BY NameFacts DEF Init, Out, EmptyFile
<1>2. QED
  BY <1>1, EmptyLines DEF OutInv

LEMMA OutStep == ASSUME TypeInv, OrderInv, OutInv, [Next]_vars PROVE OutInv'
<1>1. ASSUME Out' = Out, handed' = handed, ui' = "answer" => ui = "answer"
      PROVE  OutInv'
  BY <1>1 DEF OutInv, Past
<1>2. CASE Posting
  <2>1. PICK f \in Inbox, whole \in BOOLEAN : PostLine(f, whole)
    BY <1>2, PostingFacts
  <2>2. Out' = Out
    BY <2>1, PostLineFacts, NameFacts DEF Out
  <2>3. QED
    BY <1>1, <1>2, <2>2, PostingFacts DEF channel
<1>3. CASE CallOnce \/ Mark \/ Clear \/ ChangeDirectory \/ UNCHANGED vars \/ Crash \/ Reject
  <2>1. Out' = Out /\ handed' = handed /\ (ui' = "answer" => ui = "answer")
    BY <1>3 DEF CallOnce, Mark, Clear, ChangeDirectory, vars, channel, Crash, Reject,
       Idle, Out
  <2>2. QED
    BY <1>1, <2>1
<1>4. CASE \E f \in FileName : NewlineLands(f)
  <2>1. Out' = Out
    BY <1>4, NameFacts DEF NewlineLands, Out, TypeInv, TypeOK, File
  <2>2. QED
    BY <1>1, <1>4, <2>1 DEF NewlineLands, channel
<1>5. CASE PollerReads \/ CommandReads
  <2>1. Out' = Out /\ handed' = handed /\ (ui' = "answer" => ui = "answer")
    BY <1>5 DEF PollerReads, CommandReads, Read, channel, Out
  <2>2. QED
    BY <1>1, <2>1
<1>6. CASE PollerTruncates \/ CommandTruncates
  <2>1. PICK d \in Drainer : file' = [file EXCEPT ![Source(d)] = EmptyFile]
    BY <1>6 DEF PollerTruncates, CommandTruncates, Truncate, Drainer
  <2>2. Out' = Out
    BY <2>1, SourceFacts, NameFacts DEF Out, TypeInv, TypeOK
  <2>3. handed' = handed /\ (ui' = "answer" => ui = "answer")
    BY <1>6 DEF PollerTruncates, CommandTruncates
  <2>4. QED
    BY <1>1, <2>2, <2>3
<1>7. CASE HandOver
  <2>1. PICK r \in Request : Head(events) = {r} /\ handed' = Append(handed, r)
    BY <1>7 DEF HandOver
  <2>2. /\ events # <<>> /\ ui # "answer" /\ file' = file
        /\ events \in Seq(Line) /\ handed \in Seq(Request)
    BY <1>7 DEF HandOver, TypeInv, TypeOK
  <2>3. r \in Requests(events)
    BY <2>1, <2>2, TailRequests
  <2>4. Before(Past, {r})
    BY <2>2, <2>3 DEF OrderInv, Before
  <2>5. Past \subseteq Past' /\ Last(handed') = r
    <3>1. /\ handed' \in Seq(Request) /\ handed' # <<>>
          /\ Len(handed') = Len(handed) + 1 /\ handed'[Len(handed) + 1] = r
          /\ \A i \in DOMAIN handed : i \in DOMAIN handed' /\ handed'[i] = handed[i]
      BY <2>1, <2>2
    <3>2. Last(handed') = r
      BY <3>1, LastFacts
    <3>3. \A x \in Past : x \in Past'
      BY <3>1, ToSetDef DEF Past
    <3>4. QED
      BY <3>2, <3>3
  <2>6. QED
    BY <2>2, <2>4, <2>5 DEF OutInv, Out, Before
<1>8. CASE Answer
  <2> DEFINE r == Last(handed)
             new == Put("outbox", r, FALSE)
  <2>1. /\ ui = "answer" /\ ui' # "answer" /\ handed' = handed
    BY <1>8 DEF Answer, Idle
  <2>2. r \in Request /\ file'["outbox"] = new /\ (file["outbox"].open => Out # <<>>)
    BY <1>8, <2>1, AppendResponseFacts DEF Answer, Out
  <2>3. file["outbox"] \in File
    BY NameFacts DEF TypeInv, TypeOK
  <2>4. PICK w \in BOOLEAN : w = FALSE
    OBVIOUS
  <2>5. Requests(new.lines) = Requests(Out) \cup {r} /\ Ordered(new.lines)
    <3> HIDE DEF r
    <3>1. LET put == Put("outbox", r, w) IN
          /\ Requests(put.lines) = Requests(file["outbox"].lines) \cup {r}
          /\ Ordered(file["outbox"].lines) /\ Before(Requests(file["outbox"].lines), {r})
               => Ordered(put.lines)
      <4>1. file["outbox"].open => file["outbox"].lines # <<>>
        BY <2>2 DEF Out
      <4>2. r \in Request /\ w \in BOOLEAN
        BY <2>2, <2>4
      <4>3. QED
        BY <2>3, <4>1, <4>2, PutRequests
    <3>2. Ordered(Out) /\ Before(Requests(Out), {r})
      BY <2>1 DEF OutInv, r
    <3>3. QED
      BY <2>4, <3>1, <3>2 DEF Out
  <2>6. r \in Past
    <3>1. handed \in Seq(Request) /\ handed # <<>>
      BY <2>1 DEF TypeInv, TypeOK, AnswerInv
    <3>2. Len(handed) \in DOMAIN handed /\ handed[Len(handed)] = r
      BY <3>1, LastFacts
    <3>3. QED
      BY <3>2, ToSetDef DEF Past
  <2>7. Out' = new.lines /\ Past' = Past
    BY <2>1, <2>2 DEF Out, Past
  <2>8. QED
    BY <2>1, <2>5, <2>6, <2>7 DEF OutInv
<1>9. QED
  BY <1>2, <1>3, <1>4, <1>5, <1>6, <1>7, <1>8 DEF Next, UINext, Posting

LEMMA OutAlways == Spec => []OutInv
<1>1. Init => OutInv
  BY OutInit
<1>2. TypeInv /\ OrderInv /\ OutInv /\ [Next]_vars => OutInv'
  BY OutStep
<1>3. QED
  BY <1>1, <1>2, TypeAlways, OrderAlways, PTL DEF Spec

(* Every answer is to a request that was handed over, in their order, and    *)
(* none has two (append_response, apply_remote_requests).                   *)
THEOREM TheOutboxIsTrue == Spec => []AnswersAreTrue
<1>1. OutInv => AnswersAreTrue
  BY DEF OutInv, AnswersAreTrue, Ordered, Out, Past
<1>2. QED
  BY <1>1, OutAlways, PTL
-----------------------------------------------------------------------------
(* What was posted elsewhere stays out of the polled inbox, the batch of the *)
(* poller, the channel and the worker.                                      *)
Fetched ==
  Past \cup Requests(events) \cup Requests(In)
    \cup (IF "poller" \in reading THEN Requests(batch["poller"]) ELSE {})

StrayInv == strayed \subseteq Posted /\ strayed \cap Fetched = {}

LEMMA StrayInit == Init => StrayInv
BY DEF Init, StrayInv

LEMMA StrayStep ==
  ASSUME TypeInv, OrderInv, StrayInv, [Next]_vars
  PROVE  StrayInv'
<1>0. /\ events \in Seq(Line) /\ handed \in Seq(Request) /\ In \in Seq(Line)
      /\ batch["poller"] \in Seq(Line)
  BY NameFacts DEF TypeInv, TypeOK, In, Lines, File, Drainer
<1>1. Fetched \subseteq Posted
  BY DEF OrderInv, Behind, Fetched
<1>2. CASE Posting
  <2>0. PICK r : r = posted + 1
    OBVIOUS
  <2>1. PICK f \in Inbox, whole \in BOOLEAN : PostLine(f, whole)
    BY <1>2, PostingFacts
  <2>2. r \in Request /\ posted \in Nat /\ posted' = r
    BY <2>0, <2>1, PostLineFacts, BoundsAssumption DEF TypeInv, TypeOK
  <2>3. Posted' = Posted \cup {r} /\ r \notin Posted
    BY <2>0, <2>2 DEF Posted
  <2>4. UNCHANGED <<events, handed, reading, batch>>
    BY <1>2, PostingFacts DEF drains, channel
  <2>5. CASE f = "inbox"
    <3>1. /\ file[f] \in File
          /\ file[f].open => file[f].lines # <<>>
          /\ file'[f] = Put(f, r, whole) /\ strayed' = strayed
      BY <2>0, <2>1, <2>5, PostLineFacts
    <3>2. LET new == Put(f, r, whole) IN
          /\ Requests(new.lines) = Requests(file[f].lines) \cup {r}
          /\ Accepted(file[f].lines) \cup {r}
               \subseteq Accepted(new.lines) \cup Spoilt(f, r)
          /\ Ordered(file[f].lines) /\ Before(Requests(file[f].lines), {r})
               => Ordered(new.lines)
      BY <2>2, <3>1, PutRequests
    <3>3. Fetched' = Fetched \cup {r}
      <4>1. In = file[f].lines /\ In' = Put(f, r, whole).lines
        BY <2>5, <3>1 DEF In, Lines
      <4>2. Requests(In') = Requests(In) \cup {r}
        BY <3>2, <4>1
      <4>3. QED
        BY <2>4, <4>2 DEF Fetched, Past
    <3>4. QED
      BY <2>3, <3>1, <3>3 DEF StrayInv
  <2>6. CASE f # "inbox"
    <3>1. In' = In /\ strayed' = strayed \cup {r}
      BY <2>0, <2>1, <2>6, PostLineFacts, NameFacts DEF In, Lines
    <3>2. Fetched' = Fetched
      BY <2>4, <3>1 DEF Fetched, Past
    <3>3. QED
      BY <1>1, <2>3, <3>1, <3>2 DEF StrayInv
  <2>7. QED
    BY <2>5, <2>6
<1>3. ASSUME Fetched' \subseteq Fetched, UNCHANGED <<posted, strayed>>
      PROVE  StrayInv'
  BY <1>3 DEF StrayInv, Posted
<1>4. CASE PollerReads
  <2>1. /\ batch'["poller"] = In /\ UNCHANGED <<file, events, handed, posted, strayed>>
    BY <1>4, SourceFacts DEF PollerReads, Read, In, Lines, channel, fates, TypeInv, TypeOK,
       Drainer
  <2>2. QED
    BY <1>3, <2>1 DEF Fetched, Past, In, Lines
<1>5. CASE PollerTruncates
  <2>1. /\ "poller" \in reading /\ "poller" \notin reading'
        /\ events' = events \o batch["poller"]
        /\ UNCHANGED <<handed, posted, strayed>>
    BY <1>5 DEF PollerTruncates, Truncate, fates
  <2>2. In' = <<>>
    BY <1>5, SourceFacts, NameFacts
       DEF PollerTruncates, Truncate, In, Lines, EmptyFile, TypeInv, TypeOK
  <2>3. Requests(events') = Requests(events) \cup Requests(batch["poller"])
    BY <1>0, <2>1, ConcatRequests
  <2>4. QED
    BY <1>3, <2>1, <2>2, <2>3, EmptyLines DEF Fetched, Past
<1>6. CASE CommandReads
  <2>1. /\ batch'["poller"] = batch["poller"] /\ ("poller" \in reading' => "poller" \in reading)
        /\ UNCHANGED <<file, events, handed, posted, strayed>>
    BY <1>6 DEF CommandReads, Read, fates, TypeInv, TypeOK, Drainer
  <2>2. QED
    BY <1>3, <2>1 DEF Fetched, Past, In, Lines
<1>7. CASE CommandTruncates
  <2>1. /\ batch'["poller"] = batch["poller"] /\ ("poller" \in reading' => "poller" \in reading)
        /\ UNCHANGED <<events, handed, posted, strayed>>
    BY <1>7 DEF CommandTruncates, Truncate, fates, TypeInv, TypeOK, Drainer
  <2>2. In' \in {In, <<>>}
    BY <1>7, NameFacts DEF CommandTruncates, Truncate, In, Lines, EmptyFile, TypeInv, TypeOK
  <2>3. QED
    BY <1>3, <2>1, <2>2, EmptyLines DEF Fetched, Past
<1>8. CASE Reject
  <2>1. /\ events # <<>> /\ events' = Tail(events)
        /\ UNCHANGED <<file, posted, drains, handed, strayed>>
    BY <1>8 DEF Reject, fates
  <2>2. Requests(events') \subseteq Requests(events)
    BY <1>0, <2>1, TailRequests
  <2>3. QED
    BY <1>3, <2>1, <2>2 DEF Fetched, Past, In, Lines, drains
<1>9. CASE HandOver
  <2>1. PICK r \in Request : Head(events) = {r} /\ handed' = Append(handed, r)
    BY <1>9 DEF HandOver
  <2>2. /\ events # <<>> /\ UNCHANGED <<file, posted, drains, events, strayed>>
    BY <1>9 DEF HandOver, fates
  <2>3. r \in Requests(events)
    BY <1>0, <2>1, <2>2, TailRequests
  <2>4. \A x \in Past' : x \in Past \/ x = r
    <3>1. SUFFICES ASSUME NEW x \in Past' PROVE x \in Past \/ x = r
      OBVIOUS
    <3>2. PICK i \in DOMAIN handed' : handed'[i] = x
      BY <3>1, ToSetDef DEF Past
    <3>3. i \in DOMAIN handed \/ (i = Len(handed) + 1 /\ handed'[i] = r)
      BY <1>0, <2>1, <3>2, AppendFacts
    <3>4. i \in DOMAIN handed => handed'[i] = handed[i]
      BY <1>0, <2>1, AppendFacts
    <3>5. QED
      BY <3>2, <3>3, <3>4, ToSetDef DEF Past
  <2>5. QED
    BY <1>3, <2>2, <2>3, <2>4 DEF Fetched, In, Lines, drains
<1>10. CASE Answer
  <2>1. /\ ui = "answer" /\ events' = Tail(events)
        /\ UNCHANGED <<posted, drains, handed, strayed>>
    BY <1>10 DEF Answer
  <2>2. In' = In /\ events # <<>>
    BY <1>10, <2>1, AppendResponseFacts, NameFacts
       DEF Answer, In, Lines, TypeInv, AnswerInv
  <2>3. Requests(events') \subseteq Requests(events)
    BY <1>0, <2>1, <2>2, TailRequests
  <2>4. QED
    BY <1>3, <2>1, <2>2, <2>3 DEF Fetched, Past, drains
<1>11. CASE Crash
  <2>1. /\ events' = <<>> /\ reading' = {} /\ UNCHANGED <<file, posted, handed, strayed>>
    BY <1>11 DEF Crash
  <2>2. QED
    BY <1>3, <2>1, EmptyLines DEF Fetched, Past, In, Lines
<1>12. CASE CallOnce \/ Mark \/ Clear \/ ChangeDirectory \/ UNCHANGED vars
  <2>1. UNCHANGED <<file, posted, drains, channel, strayed>>
    BY <1>12 DEF CallOnce, Mark, Clear, ChangeDirectory, vars, fates
  <2>2. QED
    BY <1>3, <2>1 DEF Fetched, Past, In, Lines, drains, channel
<1>13. CASE \E f \in FileName : NewlineLands(f)
  <2>1. PICK f \in FileName : NewlineLands(f)
    BY <1>13
  <2>2. In' = In
    BY <2>1, NameFacts DEF NewlineLands, In, Lines, TypeInv, TypeOK, File
  <2>3. UNCHANGED <<posted, drains, channel, strayed>>
    BY <2>1 DEF NewlineLands, fates
  <2>4. QED
    BY <1>3, <2>2, <2>3 DEF Fetched, Past, drains, channel
<1>14. QED
  BY <1>2, <1>4, <1>5, <1>6, <1>7, <1>8, <1>9, <1>10, <1>11, <1>12, <1>13
     DEF Next, UINext, Posting

LEMMA StrayAlways == Spec => []StrayInv
<1>1. Init => StrayInv
  BY StrayInit
<1>2. TypeInv /\ OrderInv /\ StrayInv /\ [Next]_vars => StrayInv'
  BY StrayStep
<1>3. QED
  BY <1>1, <1>2, TypeAlways, OrderAlways, PTL DEF Spec
-----------------------------------------------------------------------------
(* Every request is accounted for: what is in a file or on its way and met   *)
(* no race is readable there, also in what a drainer holds of it.           *)
Whole(A, lines) == A \subseteq raced \cup Accepted(lines)

Held(r) ==
  \/ r \in strayed /\ \E f \in Elsewhere : r \in Requests(Lines(f))
  \/ r \notin strayed /\ r \in Requests(In) \cup Requests(events) \cup Past

Covers(d) ==
  /\ Whole(Requests(Lines(Source(d))), batch[d])
  /\ Whole(Requests(batch[d]), batch[d])

AccountInv ==
  /\ \A f \in Inbox : Whole(Requests(Lines(f)), Lines(f))
  /\ Whole(Requests(events), events)
  /\ \A d \in reading : Covers(d)
  /\ \A r \in Posted : r \in raced \cup counted \cup shown \/ Held(r)

LEMMA AccountInit == Init => AccountInv
<1> SUFFICES ASSUME Init
             PROVE  AccountInv
  OBVIOUS
<1>1. /\ \A f \in Inbox : Lines(f) = <<>>
      /\ events = <<>> /\ reading = {} /\ posted = 0
  BY NameFacts DEF Init, Lines, EmptyFile
<1>2. Posted = {}
  BY <1>1 DEF Posted
<1>3. QED
  BY <1>1, <1>2, EmptyLines DEF AccountInv, Whole

LEMMA AccountPost == ASSUME TypeInv, StrayInv, AccountInv, Posting PROVE AccountInv'
<1>0. PICK r : r = posted + 1
  OBVIOUS
<1>1. PICK f \in Inbox, whole \in BOOLEAN : PostLine(f, whole)
  BY PostingFacts
<1>2. r \in Request /\ posted \in Nat /\ posted' = r
  BY <1>0, <1>1, PostLineFacts, BoundsAssumption DEF TypeInv, TypeOK
<1>3. Posted' = Posted \cup {r} /\ r \notin Posted
  BY <1>0, <1>2 DEF Posted
<1>4. /\ file[f] \in File /\ (file[f].open => file[f].lines # <<>>)
      /\ file'[f] = Put(f, r, whole)
      /\ raced' = raced \cup Spoilt(f, r)
                    \cup (IF \E d \in reading : Source(d) = f THEN {r} ELSE {})
      /\ strayed' = IF f = "inbox" THEN strayed ELSE strayed \cup {r}
  BY <1>0, <1>1, PostLineFacts
<1>5. \A g \in Inbox : g # f => Lines(g)' = Lines(g)
  BY <1>1, PostLineFacts, NameFacts DEF Lines
<1>6. /\ Requests(Lines(f)') = Requests(Lines(f)) \cup {r}
      /\ Accepted(Lines(f)) \cup {r} \subseteq Accepted(Lines(f)') \cup Spoilt(f, r)
  <2>1. LET new == Put(f, r, whole) IN
        /\ Requests(new.lines) = Requests(file[f].lines) \cup {r}
        /\ Accepted(file[f].lines) \cup {r}
             \subseteq Accepted(new.lines) \cup Spoilt(f, r)
        /\ Ordered(file[f].lines) /\ Before(Requests(file[f].lines), {r})
             => Ordered(new.lines)
    BY <1>2, <1>4, PutRequests
  <2>2. QED
    BY <1>4, <2>1 DEF Lines
<1>7. /\ Past' = Past /\ events' = events /\ shown' = shown /\ counted' = counted
      /\ reading' = reading /\ batch' = batch /\ here' = here
  BY PostingFacts DEF channel, drains, session, Past
<1>8. raced \subseteq raced' /\ \A d \in reading : Source(d) = f => r \in raced'
  BY <1>4
<1>9. ASSUME NEW g \in Inbox
      PROVE  Whole(Requests(Lines(g)), Lines(g))'
  <2>1. Requests(Lines(g)) \subseteq raced \cup Accepted(Lines(g))
    BY DEF AccountInv, Whole
  <2>2. CASE g = f
    <3>1. Requests(Lines(g)') \subseteq raced' \cup Accepted(Lines(g)')
      BY <1>4, <1>6, <2>1, <2>2
    <3>2. QED
      BY <3>1 DEF Whole
  <2>3. CASE g # f
    BY <1>5, <1>8, <2>1, <2>3 DEF Whole
  <2>4. QED
    BY <2>2, <2>3
<1>10. ASSUME NEW d \in reading
       PROVE  Covers(d)'
  <2>1. Source(d)' = Source(d) /\ Source(d) \in Inbox
    BY <1>7, SourceFacts DEF Source, TypeInv, TypeOK
  <2>2. /\ Requests(Lines(Source(d))) \subseteq raced \cup Accepted(batch[d])
        /\ Requests(batch[d]) \subseteq raced \cup Accepted(batch[d])
    BY DEF AccountInv, Covers, Whole
  <2>3. Lines(Source(d))' = file'[Source(d)].lines
    BY <2>1 DEF Lines
  <2>4. Requests(file'[Source(d)].lines) \subseteq Requests(Lines(Source(d))) \cup raced'
    <3>1. CASE Source(d) = f
      BY <1>6, <1>8, <3>1 DEF Lines
    <3>2. CASE Source(d) # f
      BY <1>5, <2>1, <3>2 DEF Lines
    <3>3. QED
      BY <3>1, <3>2
  <2>5. QED
    BY <1>7, <1>8, <2>2, <2>3, <2>4 DEF Covers, Whole
<1>11. Whole(Requests(events), events)'
  BY <1>7, <1>8 DEF AccountInv, Whole
<1>12. ASSUME NEW g \in Inbox, NEW x \in Requests(Lines(g))
       PROVE  x \in Requests(Lines(g)')
  BY <1>5, <1>6
<1>13. ASSUME NEW x \in Posted
       PROVE  x \in raced' \cup counted' \cup shown' \/ Held(x)'
  <2>1. x \in strayed' <=> x \in strayed
    BY <1>3, <1>4
  <2>2. Held(x) => Held(x)'
    BY <1>7, <1>12, <2>1, NameFacts DEF Held, In
  <2>3. QED
    BY <1>7, <1>8, <2>2 DEF AccountInv
<1>14. Held(r)'
  <2>1. r \in Requests(Lines(f)')
    BY <1>6
  <2>2. CASE f = "inbox"
    <3>1. r \notin strayed'
      BY <1>3, <1>4, <2>2 DEF StrayInv
    <3>2. QED
      BY <2>1, <2>2, <3>1 DEF Held, In
  <2>3. CASE f # "inbox"
    BY <1>4, <2>1, <2>3, NameFacts DEF Held
  <2>4. QED
    BY <2>2, <2>3
<1>15. QED
  BY <1>3, <1>7, <1>9, <1>10, <1>11, <1>13, <1>14 DEF AccountInv

LEMMA AccountStep ==
  ASSUME TypeInv, OrderInv, StrayInv, AccountInv, [Next]_vars
  PROVE  AccountInv'
<1>0. /\ events \in Seq(Line) /\ handed \in Seq(Request)
      /\ \A d \in Drainer : batch[d] \in Seq(Line) /\ Source(d) \in Inbox
      /\ reading \subseteq Drainer
  BY SourceFacts DEF TypeInv, TypeOK
<1>1. CASE Posting
  BY <1>1, AccountPost
<1>2. ASSUME \A f \in Inbox : Lines(f)' = Lines(f),
             UNCHANGED <<reading, batch, here>>, raced \subseteq raced'
      PROVE  /\ \A f \in Inbox : Whole(Requests(Lines(f)), Lines(f))'
             /\ \A d \in reading' : Covers(d)'
  <2>1. \A d \in reading : Source(d)' = Source(d) /\ Source(d) \in Inbox
    BY <1>0, <1>2 DEF Source
  <2>2. \A d \in reading : Lines(Source(d))' = Lines(Source(d))
    BY <1>2, <2>1 DEF Lines
  <2>3. QED
    BY <1>2, <2>2 DEF AccountInv, Covers, Whole
<1>3. ASSUME \A f \in Inbox : Lines(f)' = Lines(f),
             UNCHANGED <<posted, drains, channel, here, fates>>
      PROVE  AccountInv'
  <2>1. \A r : Held(r)' <=> Held(r)
    BY <1>3, NameFacts DEF Held, In, Past, channel, fates
  <2>2. QED
    BY <1>2, <1>3, <2>1 DEF AccountInv, Whole, Posted, drains, channel, fates
<1>4. ASSUME NEW d \in Drainer, Read(d), UNCHANGED <<events, handed, shown, counted>>
      PROVE  AccountInv'
  <2>1. /\ reading' = reading \cup {d}
        /\ batch' = [batch EXCEPT ![d] = Lines(Source(d))]
        /\ batch'[d] = Lines(Source(d))
        /\ UNCHANGED <<file, here, posted, raced, strayed>>
    BY <1>4 DEF Read, Lines, session, fates, TypeInv, TypeOK
  <2>2. \A f : Lines(f)' = Lines(f)
    BY <2>1 DEF Lines
  <2>3. ASSUME NEW e \in reading'
        PROVE  Covers(e)'
    <3>1. Source(e)' = Source(e) /\ Lines(Source(e))' = Lines(Source(e))
      BY <2>1 DEF Source, Lines
    <3>2. CASE e = d
      BY <1>0, <2>1, <3>1, <3>2 DEF AccountInv, Covers, Whole
    <3>3. CASE e # d
      <4>1. e \in reading /\ batch'[e] = batch[e]
        BY <1>0, <2>1, <3>3 DEF TypeInv, TypeOK
      <4>2. QED
        BY <2>1, <3>1, <4>1 DEF AccountInv, Covers, Whole
    <3>4. QED
      BY <3>2, <3>3
  <2>4. \A r : Held(r)' <=> Held(r)
    BY <1>4, <2>1, <2>2 DEF Held, In, Past
  <2>5. QED
    BY <1>4, <2>1, <2>2, <2>3, <2>4 DEF AccountInv, Whole, Posted
<1>5. ASSUME NEW d \in Drainer, Truncate(d)
      PROVE  /\ d \in reading /\ UNCHANGED <<posted, here, raced, strayed>>
             /\ Lines(Source(d))' = <<>>
             /\ \A f \in Inbox : f # Source(d) => Lines(f)' = Lines(f)
             /\ \A f \in Inbox : Whole(Requests(Lines(f)), Lines(f))'
             /\ \A e \in reading' : Covers(e)'
  <2>1. /\ d \in reading /\ UNCHANGED <<posted, here, raced, strayed>>
        /\ file' = [file EXCEPT ![Source(d)] = EmptyFile]
    BY <1>5 DEF Truncate, session, fates
  <2>2. \A e \in reading' : e \in reading /\ batch'[e] = batch[e]
    BY <1>5 DEF Truncate, TypeInv, TypeOK
  <2>3. \A e : Source(e)' = Source(e)
    BY <2>1 DEF Source
  <2>4. /\ file'[Source(d)].lines = <<>>
        /\ \A f \in Inbox : f # Source(d) => file'[f] = file[f]
    BY <1>0, <2>1, NameFacts DEF EmptyFile, TypeInv, TypeOK
  <2>5. /\ Lines(Source(d))' = <<>>
        /\ \A f \in Inbox : f # Source(d) => Lines(f)' = Lines(f)
    BY <2>3, <2>4 DEF Lines
  <2>6. ASSUME NEW f \in Inbox
        PROVE  /\ Requests(file'[f].lines) \subseteq Requests(Lines(f))
               /\ Whole(Requests(Lines(f)), Lines(f))'
    <3>1. CASE f = Source(d)
      BY <2>4, <3>1, EmptyLines DEF Whole, Lines
    <3>2. CASE f # Source(d)
      BY <2>1, <2>4, <3>2 DEF AccountInv, Whole, Lines
    <3>3. QED
      BY <3>1, <3>2
  <2>7. ASSUME NEW e \in reading'
        PROVE  Covers(e)'
    <3>1. Source(e) \in Inbox /\ Covers(e) /\ batch'[e] = batch[e]
      BY <1>0, <2>2 DEF AccountInv
    <3>2. Lines(Source(e))' = file'[Source(e)].lines
      BY <2>3 DEF Lines
    <3>3. Requests(file'[Source(e)].lines) \subseteq Requests(Lines(Source(e)))
      BY <2>6, <3>1
    <3>4. QED
      BY <2>1, <3>1, <3>2, <3>3 DEF Covers, Whole
  <2>8. QED
    BY <2>1, <2>5, <2>6, <2>7
<1>6. \A s : Accepted(s) \subseteq Requests(s)
  BY DEF Accepted
<1>7. CASE PollerReads
  <2>1. "poller" \in Drainer
    BY DEF Drainer
  <2>2. QED
    BY <1>4, <1>7, <2>1 DEF PollerReads, channel
<1>8. CASE PollerTruncates
  <2>1. "poller" \in Drainer /\ Truncate("poller") /\ Source("poller") = "inbox"
    BY <1>8, SourceFacts DEF PollerTruncates, Drainer, TypeInv
  <2>2. /\ events' = events \o batch["poller"]
        /\ handed' = handed /\ shown' = shown /\ counted' = counted
    BY <1>8 DEF PollerTruncates
  <2>3. /\ Requests(events') = Requests(events) \cup Requests(batch["poller"])
        /\ Accepted(events) \cup Accepted(batch["poller"]) \subseteq Accepted(events')
    BY <1>0, <2>1, <2>2, ConcatRequests
  <2>4. /\ Requests(In) \subseteq raced \cup Accepted(batch["poller"])
        /\ Requests(batch["poller"]) \subseteq raced \cup Accepted(batch["poller"])
    BY <1>5, <2>1 DEF AccountInv, Covers, Whole, In
  <2>5. Whole(Requests(events), events)'
    BY <1>5, <2>1, <2>3, <2>4 DEF AccountInv, Whole
  <2>6. ASSUME NEW r, Held(r), r \notin raced
        PROVE  Held(r)'
    <3>1. CASE r \in strayed
      BY <1>5, <2>1, <2>6, <3>1, NameFacts DEF Held
    <3>2. CASE r \notin strayed
      BY <1>5, <1>6, <2>1, <2>2, <2>3, <2>4, <2>6, <3>2 DEF Held, Past
    <3>3. QED
      BY <3>1, <3>2
  <2>7. QED
    BY <1>5, <2>1, <2>2, <2>5, <2>6 DEF AccountInv, Posted
<1>9. CASE CommandReads
  <2>1. "command" \in Drainer
    BY DEF Drainer
  <2>2. QED
    BY <1>4, <1>9, <2>1 DEF CommandReads
<1>10. CASE CommandTruncates
  <2>1. "command" \in Drainer /\ Truncate("command")
    BY <1>10 DEF CommandTruncates, Drainer
  <2>2. /\ events' = events /\ handed' = handed
        /\ shown \cup counted \subseteq shown' \cup counted'
        /\ Accepted(batch["command"]) \subseteq shown' \cup counted'
    BY <1>10 DEF CommandTruncates
  <2>3. Requests(Lines(Source("command"))) \subseteq raced \cup Accepted(batch["command"])
    BY <1>5, <2>1 DEF AccountInv, Covers, Whole
  <2>4. Whole(Requests(events), events)'
    BY <1>5, <2>1, <2>2 DEF AccountInv, Whole
  <2>5. ASSUME NEW f \in Inbox, NEW r \in Requests(Lines(f))
        PROVE  r \in raced \cup counted' \cup shown' \/ r \in Requests(Lines(f)')
    BY <1>5, <2>1, <2>2, <2>3
  <2>6. ASSUME NEW r, Held(r)
        PROVE  r \in raced' \cup counted' \cup shown' \/ Held(r)'
    <3>1. CASE r \in strayed
      BY <1>5, <2>1, <2>5, <2>6, <3>1, NameFacts DEF Held
    <3>2. CASE r \notin strayed
      BY <1>5, <2>1, <2>2, <2>5, <2>6, <3>2, NameFacts DEF Held, Past, In
    <3>3. QED
      BY <3>1, <3>2
  <2>7. QED
    BY <1>5, <2>1, <2>2, <2>4, <2>6 DEF AccountInv, Posted
<1>11. ASSUME events # <<>>, events' = Tail(events), \A f \in Inbox : Lines(f)' = Lines(f),
              UNCHANGED <<posted, drains, here, shown, counted, handed, strayed>>,
              raced \subseteq raced',
              \A r : Head(events) = {r} => r \in Past
       PROVE  AccountInv'
  <2>1. /\ Requests(events) = Head(events) \cup Requests(Tail(events))
        /\ \A r : r \in Accepted(events) /\ Head(events) # {r} => r \in Accepted(Tail(events))
        /\ Before(Head(events), Requests(Tail(events)))
    BY <1>0, <1>11, TailRequests DEF OrderInv
  <2>2. ASSUME NEW x \in Requests(events), x \notin raced
        PROVE  x \in Past \cup Requests(Tail(events))
    BY <1>6, <1>11, <2>1, <2>2 DEF AccountInv, Whole
  <2>3. ASSUME NEW x \in Requests(Tail(events)), x \notin raced
        PROVE  x \in Accepted(Tail(events))
    <3>1. x \in Accepted(events)
      BY <2>1, <2>3 DEF AccountInv, Whole
    <3>2. x \in Posted
      BY <2>1, <2>3 DEF OrderInv
    <3>3. x \notin Head(events)
      BY <2>1, <2>3, <3>2, BoundsAssumption DEF Before, Posted, TypeInv, TypeOK
    <3>4. QED
      BY <2>1, <3>1, <3>3
  <2>4. Whole(Requests(events), events)'
    BY <1>11, <2>3 DEF Whole
  <2>5. ASSUME NEW r, Held(r), r \notin raced
        PROVE  Held(r)'
    <3>1. CASE r \in strayed
      BY <1>11, <2>5, <3>1, NameFacts DEF Held
    <3>2. CASE r \notin strayed
      BY <1>11, <2>2, <2>5, <3>2, NameFacts DEF Held, Past, In
    <3>3. QED
      BY <3>1, <3>2
  <2>6. QED
    BY <1>2, <1>11, <2>4, <2>5 DEF AccountInv, Posted, drains
<1>12. CASE Reject
  <2>1. /\ events # <<>> /\ events' = Tail(events) /\ ~Sound(Head(events))
        /\ UNCHANGED <<file, posted, drains, here, shown, counted, handed, strayed, raced>>
    BY <1>12 DEF Reject, session, fates
  <2>2. \A r : Head(events) # {r}
    BY <2>1 DEF Sound
  <2>3. QED
    BY <1>11, <2>1, <2>2 DEF Lines
<1>13. CASE HandOver
  <2>1. PICK r \in Request : handed' = Append(handed, r)
    BY <1>13 DEF HandOver
  <2>2. Past \subseteq Past'
    <3>1. \A i \in DOMAIN handed : i \in DOMAIN handed' /\ handed'[i] = handed[i]
      BY <1>0, <2>1
    <3>2. \A x \in Past : x \in Past'
      BY <3>1, ToSetDef DEF Past
    <3>3. QED
      BY <3>2
  <2>3. UNCHANGED <<file, posted, drains, here, events, shown, counted, strayed, raced>>
    BY <1>13 DEF HandOver, session, fates
  <2>4. \A x : Held(x) => Held(x)'
    BY <2>2, <2>3 DEF Held, In, Lines
  <2>5. QED
    BY <1>2, <2>3, <2>4 DEF AccountInv, Whole, Lines, Posted, drains
<1>14. CASE Answer
  <2>1. /\ ui = "answer" /\ events' = Tail(events)
        /\ UNCHANGED <<posted, drains, here, shown, counted, handed, strayed>>
    BY <1>14 DEF Answer, session
  <2>2. /\ \A f \in Inbox : Lines(f)' = Lines(f)
        /\ raced \subseteq raced'
    BY <1>14, <2>1, AppendResponseFacts DEF Answer, Lines
  <2>3. events # <<>> /\ Head(events) = {Last(handed)} /\ handed # <<>>
    BY <2>1 DEF TypeInv, AnswerInv
  <2>4. Last(handed) \in Past
    <3>1. Len(handed) \in DOMAIN handed /\ handed[Len(handed)] = Last(handed)
      BY <1>0, <2>3, LastFacts
    <3>2. QED
      BY <3>1, ToSetDef DEF Past
  <2>5. QED
    BY <1>11, <2>1, <2>2, <2>3, <2>4
<1>15. CASE Crash
  <2>1. /\ events' = <<>> /\ reading' = {} /\ raced' = raced \cup Requests(events)
        /\ UNCHANGED <<file, posted, handed, shown, counted, strayed>>
    BY <1>15 DEF Crash
  <2>2. \A r : Held(r) => r \in raced' \/ Held(r)'
    BY <2>1 DEF Held, In, Lines, Past
  <2>3. QED
    BY <2>1, <2>2, EmptyLines DEF AccountInv, Whole, Lines, Posted
<1>16. CASE CallOnce \/ Mark \/ Clear \/ UNCHANGED vars
  <2>1. UNCHANGED <<file, posted, drains, channel, here, fates>>
    BY <1>16 DEF CallOnce, Mark, Clear, vars, session
  <2>2. QED
    BY <1>3, <2>1 DEF Lines
<1>17. CASE \E f \in FileName : NewlineLands(f)
  <2>1. PICK f \in FileName : NewlineLands(f)
    BY <1>17
  <2>2. \A g \in Inbox : Lines(g)' = Lines(g)
    BY <2>1, NameFacts DEF NewlineLands, Lines, TypeInv, TypeOK, File
  <2>3. UNCHANGED <<posted, drains, channel, here, fates>>
    BY <2>1 DEF NewlineLands, session
  <2>4. QED
    BY <1>3, <2>2, <2>3
<1>18. CASE ChangeDirectory
  <2>1. /\ ui = "keys" /\ UNCHANGED <<file, posted, drains, channel, fates>>
    BY <1>18 DEF ChangeDirectory
  <2>2. reading \subseteq {"poller"}
    BY <1>0, <2>1 DEF OrderInv, Drainer
  <2>3. \A d \in reading : Covers(d)'
    <3>1. Source("poller") = "inbox" /\ Source("poller")' = "inbox"
      BY DEF Source
    <3>2. QED
      BY <2>1, <2>2, <3>1 DEF AccountInv, Covers, Whole, Lines, drains, fates
  <2>4. \A r : Held(r)' <=> Held(r)
    BY <2>1 DEF Held, In, Lines, Past, channel, fates
  <2>5. QED
    BY <2>1, <2>3, <2>4 DEF AccountInv, Whole, Lines, Posted, drains, channel, fates
<1>19. QED
  BY <1>1, <1>7, <1>8, <1>9, <1>10, <1>12, <1>13, <1>14, <1>15, <1>16, <1>17, <1>18
     DEF Next, UINext, Posting

LEMMA AccountAlways == Spec => []AccountInv
<1>1. Init => AccountInv
  BY AccountInit
<1>2. TypeInv /\ OrderInv /\ StrayInv /\ AccountInv /\ [Next]_vars => AccountInv'
  BY AccountStep
<1>3. QED
  BY <1>1, <1>2, TypeAlways, OrderAlways, StrayAlways, PTL DEF Spec

(* At every moment a request that met no race and was not past the limit of  *)
(* a /remote drain is in the polled inbox, on its way, handed over or shown, *)
(* and one posted elsewhere is in an inbox there or shown (drain_requests    *)
(* against its writers, /remote drain, /cd).                                *)
THEOREM RequestsAreAccountedFor == Spec => []NoRequestIsForgotten
<1>1. StrayInv /\ AccountInv => NoRequestIsForgotten
  <2> SUFFICES ASSUME StrayInv, AccountInv, NEW r \in Posted,
                      r \notin raced, r \notin counted, r \notin shown
               PROVE  InOneOf(r)
    BY DEF NoRequestIsForgotten, InOneOf, Posted
  <2>1. Held(r)
    BY DEF AccountInv
  <2>2. CASE r \in strayed
    <3>1. PICK f \in Elsewhere : r \in Requests(Lines(f))
      BY <2>1, <2>2 DEF Held
    <3>2. r \in Accepted(Lines(f))
      BY <3>1, NameFacts DEF AccountInv, Whole
    <3>3. r \notin Past
      BY <2>2 DEF StrayInv, Fetched
    <3>4. QED
      BY <2>2, <3>2, <3>3 DEF InOneOf, Lines, Past
  <2>3. CASE r \notin strayed
    <3>1. r \in Requests(In) => r \in Accepted(In)
      BY NameFacts DEF AccountInv, Whole, In
    <3>2. QED
      BY <2>1, <2>3, <3>1 DEF Held, AccountInv, Whole, InOneOf, In, Lines, Past
  <2>4. QED
    BY <2>2, <2>3
<1>2. QED
  BY <1>1, AccountAlways, StrayAlways, PTL
-----------------------------------------------------------------------------
(* No request rests half done: what was handed over has its answer in the   *)
(* outbox, or the UI is about to write it.                                  *)
DrainsAlone == "command" \in reading => ui = "drain"
BeingAnswered(r) == ui = "answer" /\ Head(events) = {r}
ReplyInv ==
  /\ DrainsAlone
  /\ \A r \in Past : r \in raced \/ r \in Accepted(Out) \/ BeingAnswered(r)

LEMMA ReplyInit == Init => ReplyInv
<1> SUFFICES ASSUME Init
             PROVE  ReplyInv
  OBVIOUS
<1>1. Past = {}
  BY ToSetDef DEF Init, Past
<1>2. QED
  BY <1>1 DEF Init, ReplyInv, DrainsAlone

(* A request that settles stays so; the one being answered is answered by    *)
(* its own step, or races the end of the process.                           *)
LEMMA ReplyStep == ASSUME TypeInv, ReplyInv, [Next]_vars PROVE ReplyInv'
<1>0. /\ events \in Seq(Line) /\ handed \in Seq(Request)
      /\ ui = "answer" => events # <<>> /\ handed # <<>> /\ Head(events) = {Last(handed)}
  BY DEF TypeInv, TypeOK, AnswerInv
<1>1. ASSUME Out' = Out, handed' = handed, raced \subseteq raced',
             ui = "answer" => ui' = "answer" /\ Head(events') = Head(events),
             DrainsAlone'
      PROVE  ReplyInv'
  BY <1>1 DEF ReplyInv, BeingAnswered, Past
<1>2. CASE Posting
  <2>1. PICK f \in Inbox, whole \in BOOLEAN : PostLine(f, whole)
    BY <1>2, PostingFacts
  <2>2. Out' = Out /\ raced \subseteq raced'
    BY <2>1, PostLineFacts, NameFacts DEF Out
  <2>3. UNCHANGED <<drains, channel>>
    BY <1>2, PostingFacts
  <2>4. QED
    BY <1>1, <2>2, <2>3 DEF drains, channel, ReplyInv, DrainsAlone
<1>3. CASE CallOnce \/ Mark \/ Clear \/ ChangeDirectory \/ UNCHANGED vars
  <2>1. UNCHANGED <<file, drains, channel, raced>>
    BY <1>3 DEF CallOnce, Mark, Clear, ChangeDirectory, vars, fates
  <2>2. QED
    BY <1>1, <2>1 DEF drains, channel, ReplyInv, DrainsAlone, Out
<1>4. CASE \E f \in FileName : NewlineLands(f)
  <2>1. Out' = Out
    BY <1>4, NameFacts DEF NewlineLands, Out, TypeInv, TypeOK, File
  <2>2. QED
    BY <1>1, <1>4, <2>1 DEF NewlineLands, drains, channel, fates, ReplyInv, DrainsAlone
<1>5. CASE PollerReads
  <2>1. UNCHANGED <<file, channel, raced>> /\ reading' = reading \cup {"poller"}
    BY <1>5 DEF PollerReads, Read, fates
  <2>2. QED
    BY <1>1, <2>1 DEF channel, ReplyInv, DrainsAlone, Out
<1>6. CASE PollerTruncates
  <2>1. /\ file' = [file EXCEPT ![Source("poller")] = EmptyFile]
        /\ reading' = reading \ {"poller"} /\ events' = events \o batch["poller"]
        /\ UNCHANGED <<ui, handed, raced>>
    BY <1>6 DEF PollerTruncates, Truncate, fates
  <2>2. Out' = Out
    BY <2>1, SourceFacts, NameFacts DEF Out, TypeInv, TypeOK
  <2>3. batch["poller"] \in Seq(Line)
    BY DEF TypeInv, TypeOK, Drainer
  <2>4. ui = "answer" => Head(events') = Head(events)
    <3>1. SUFFICES ASSUME ui = "answer" PROVE Head(events') = Head(events)
      OBVIOUS
    <3>2. events \in Seq(Line) /\ events # <<>> /\ Len(events) \in Nat \ {0}
      BY <1>0, <3>1, TailFacts
    <3>3. /\ events' \in Seq(Line) /\ Len(events') >= 1 /\ events'[1] = events[1]
      BY <2>1, <2>3, <3>2, ConcatFacts
    <3>4. events' # <<>>
      BY <3>3
    <3>5. QED
      BY <3>2, <3>3, <3>4, TailFacts
  <2>5. QED
    BY <1>1, <2>1, <2>2, <2>4 DEF ReplyInv, DrainsAlone
<1>7. CASE CommandReads
  <2>1. /\ ui = "keys" /\ ui' = "drain" /\ UNCHANGED <<file, events, handed, raced>>
    BY <1>7 DEF CommandReads, Read, fates
  <2>2. QED
    BY <1>1, <2>1 DEF Out, DrainsAlone
<1>8. CASE CommandTruncates
  <2>1. /\ file' = [file EXCEPT ![Source("command")] = EmptyFile]
        /\ "command" \in reading /\ reading' = reading \ {"command"}
        /\ UNCHANGED <<events, handed, raced>>
    BY <1>8 DEF CommandTruncates, Truncate, fates
  <2>2. Out' = Out
    BY <2>1, SourceFacts, NameFacts DEF Out, TypeInv, TypeOK
  <2>3. ui = "drain"
    BY <2>1 DEF ReplyInv, DrainsAlone
  <2>4. QED
    BY <1>1, <2>1, <2>2, <2>3 DEF DrainsAlone
<1>9. CASE Reject
  <2>1. /\ ui \in {"keys", "apply"} /\ UNCHANGED <<file, handed, raced, reading>>
    BY <1>9 DEF Reject, drains, fates
  <2>2. QED
    BY <1>1, <2>1 DEF Out, ReplyInv, DrainsAlone
<1>10. CASE HandOver
  <2>1. PICK r \in Request : Head(events) = {r} /\ handed' = Append(handed, r)
    BY <1>10 DEF HandOver
  <2>2. /\ ui \in {"keys", "apply"} /\ ui' = "answer"
        /\ UNCHANGED <<file, events, raced, reading>>
    BY <1>10 DEF HandOver, drains, fates
  <2>3. \A x \in Past' : x \in Past \/ x = r
    <3>1. SUFFICES ASSUME NEW x \in Past' PROVE x \in Past \/ x = r
      OBVIOUS
    <3>2. PICK i \in DOMAIN handed' : handed'[i] = x
      BY <3>1, ToSetDef DEF Past
    <3>3. i \in DOMAIN handed \/ (i = Len(handed) + 1 /\ handed'[i] = r)
      BY <1>0, <2>1, <3>2, AppendFacts
    <3>4. i \in DOMAIN handed => handed'[i] = handed[i]
      BY <1>0, <2>1, AppendFacts
    <3>5. QED
      BY <3>2, <3>3, <3>4, ToSetDef DEF Past
  <2>4. QED
    BY <2>1, <2>2, <2>3 DEF ReplyInv, BeingAnswered, DrainsAlone, Out
<1>11. CASE Answer
  <2> DEFINE r == Last(handed)
             new == Put("outbox", r, FALSE)
  <2>1. /\ ui = "answer" /\ AppendResponse /\ UNCHANGED <<handed, reading>>
    BY <1>11 DEF Answer, drains
  <2>2. /\ r \in Request /\ file'["outbox"] = new
        /\ file["outbox"].open => file["outbox"].lines # <<>>
    BY <2>1, AppendResponseFacts
  <2>3. raced' = raced \cup Spoilt("outbox", r)
    BY <2>1 DEF AppendResponse
  <2>4. Accepted(Out) \cup {r} \subseteq Accepted(Out') \cup raced'
    <3> HIDE DEF r
    <3>1. PICK w \in BOOLEAN : w = FALSE
      OBVIOUS
    <3>2. file["outbox"] \in File
      BY NameFacts DEF TypeInv, TypeOK
    <3>3. LET put == Put("outbox", r, w) IN
          Accepted(file["outbox"].lines) \cup {r}
            \subseteq Accepted(put.lines) \cup Spoilt("outbox", r)
      BY <2>2, <3>2, PutRequests
    <3>4. QED
      BY <2>2, <2>3, <3>1, <3>3 DEF Out
  <2>5. \A x : BeingAnswered(x) => x = r
    BY <1>0, <2>1 DEF BeingAnswered
  <2>6. "command" \notin reading
    BY <2>1 DEF ReplyInv, DrainsAlone
  <2>7. raced \subseteq raced' /\ Past' = Past
    BY <2>1, <2>3 DEF Past
  <2> HIDE DEF r
  <2>8. QED
    BY <2>1, <2>4, <2>5, <2>6, <2>7 DEF ReplyInv, DrainsAlone
<1>12. CASE Crash
  <2>1. /\ raced' = raced \cup Requests(events) /\ reading' = {}
        /\ UNCHANGED <<file, handed>>
    BY <1>12 DEF Crash
  <2>2. \A r : BeingAnswered(r) => r \in Requests(events)
    BY <1>0, TailRequests DEF BeingAnswered
  <2>3. QED
    BY <2>1, <2>2 DEF ReplyInv, DrainsAlone, Past, Out
<1>13. QED
  BY <1>2, <1>3, <1>4, <1>5, <1>6, <1>7, <1>8, <1>9, <1>10, <1>11, <1>12
     DEF Next, UINext, Posting

LEMMA ReplyAlways == Spec => []ReplyInv
<1>1. Init => ReplyInv
  BY ReplyInit
<1>2. TypeInv /\ ReplyInv /\ [Next]_vars => ReplyInv'
  BY ReplyStep
<1>3. QED
  BY <1>1, <1>2, TypeAlways, PTL DEF Spec

(* What is left to do for a request of the polled inbox lies before the      *)
(* poller or the UI; one posted elsewhere lies where only a /remote drain in *)
(* that directory takes it up.                                              *)
HasItsPlace ==
  \A r \in 1..posted :
    \/ Settled(r)
    \/ r \notin strayed /\ r \in Accepted(file["inbox"].lines) \cup Accepted(events)
    \/ /\ r \in strayed /\ r \notin ToSet(handed)
       /\ \E f \in Elsewhere : r \in Accepted(file[f].lines)

(* A request of the polled inbox that is not settled yet is always where it  *)
(* will be taken up: readable in that inbox, or among the events of the UI,  *)
(* the one it is answering included; none is handed over and left without    *)
(* its answer.  One that a command posted after a /cd does rest, readable,   *)
(* in an inbox nobody polls (drain_requests, apply_remote_requests,          *)
(* append_response, execute_remote_command).                                *)
THEOREM NoRequestRests == Spec => []HasItsPlace
<1>1. TypeInv /\ StrayInv /\ AccountInv /\ ReplyInv => HasItsPlace
  <2> SUFFICES ASSUME TypeInv, StrayInv, AccountInv, ReplyInv, NEW r \in 1..posted,
                      r \notin raced, r \notin shown, r \notin counted
               PROVE  \/ r \in Past /\ r \in Accepted(Out)
                      \/ r \notin strayed /\ r \in Accepted(In) \cup Accepted(events)
                      \/ /\ r \in strayed /\ r \notin Past
                         /\ \E f \in Elsewhere : r \in Accepted(Lines(f))
    BY DEF HasItsPlace, Settled, Past, Out, In, Lines
  <2>1. Held(r)
    BY DEF AccountInv, Posted
  <2>2. CASE r \in strayed
    <3>1. PICK f \in Elsewhere : r \in Requests(Lines(f))
      BY <2>1, <2>2 DEF Held
    <3>2. r \in Accepted(Lines(f))
      BY <3>1, NameFacts DEF AccountInv, Whole
    <3>3. QED
      BY <2>2, <3>2 DEF StrayInv, Fetched
  <2>3. CASE r \notin strayed /\ r \in Requests(In) \cup Requests(events)
    BY <2>3, NameFacts DEF AccountInv, Whole, In
  <2>4. CASE r \notin strayed /\ r \in Past
    <3>1. CASE BeingAnswered(r)
      <4>1. events \in Seq(Line) /\ events # <<>>
        BY <3>1 DEF BeingAnswered, TypeInv, TypeOK, AnswerInv
      <4>2. 1 \in DOMAIN events /\ events[1] = {r}
        BY <3>1, <4>1, TailFacts DEF BeingAnswered
      <4>3. QED
        BY <2>4, <4>2, AcceptedDef
    <3>2. QED
      BY <2>4, <3>1 DEF ReplyInv
  <2>5. QED
    BY <2>1, <2>2, <2>3, <2>4 DEF Held
<1>2. QED
  BY <1>1, TypeAlways, StrayAlways, AccountAlways, ReplyAlways, PTL
=============================================================================
