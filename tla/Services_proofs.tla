---------------------------- MODULE Services_proofs ---------------------------
(***************************************************************************)
(* Proofs of what ErrorLog, Comments and Profile say: no line on the       *)
(* console is lost or reported twice, and pages show the comments that     *)
(* there are, and the drafts, the name and the points of an author.        *)
(***************************************************************************)
EXTENDS Comments, ErrorLog, Profile, Sums, SequenceTheorems, FunctionTheorems

-----------------------------------------------------------------------------
(***************************************************************************)
(* Facts about lines in sequences.                                         *)
(***************************************************************************)
LEMMA RangeAppend ==
  ASSUME NEW S, NEW s \in Seq(S), NEW x
  PROVE  Range(Append(s, x)) = Range(s) \cup {x}
<1>1. /\ DOMAIN s = 1..Len(s) /\ Len(s) \in Nat
      /\ DOMAIN Append(s, x) = 1..Len(s) + 1
      /\ Append(s, x)[Len(s) + 1] = x
      /\ \A i \in 1..Len(s) : Append(s, x)[i] = s[i]
  BY AppendProperties
<1>2. \A i \in 1..Len(s) + 1 : i \in 1..Len(s) \/ i = Len(s) + 1
  BY <1>1
<1>3. 1..Len(s) \subseteq 1..Len(s) + 1 /\ Len(s) + 1 \in 1..Len(s) + 1
  BY <1>1
<1> QED BY <1>1, <1>2, <1>3 DEF Range

\* A line after all others keeps the order.
LEMMA InOrderAppend ==
  ASSUME NEW s \in Seq(Nat), NEW x \in Nat, InOrder(s), \A line \in Range(s) : line < x
  PROVE  InOrder(Append(s, x))
<1>1. /\ DOMAIN s = 1..Len(s) /\ Len(s) \in Nat
      /\ DOMAIN Append(s, x) = 1..Len(s) + 1
      /\ Append(s, x)[Len(s) + 1] = x
      /\ \A i \in 1..Len(s) : Append(s, x)[i] = s[i] /\ s[i] \in Nat
  BY AppendProperties
<1>2. \A i \in 1..Len(s) : s[i] < x
  BY <1>1 DEF Range
<1>3. ASSUME NEW i \in 1..Len(s) + 1, NEW j \in 1..Len(s) + 1, i < j
      PROVE  Append(s, x)[i] < Append(s, x)[j]
  <2>1. i \in 1..Len(s)
    BY <1>1, <1>3
  <2>2. j \in 1..Len(s) \/ j = Len(s) + 1
    BY <1>1
  <2>3. CASE j \in 1..Len(s)
    BY <1>1, <1>3, <2>1, <2>3 DEF InOrder
  <2>4. CASE j = Len(s) + 1
    BY <1>1, <1>2, <2>1, <2>4
  <2> QED BY <2>2, <2>3, <2>4
<1> QED BY <1>1, <1>3 DEF InOrder

LEMMA EmptyLines == Range(<<>>) = {} /\ InOrder(<<>>) /\ <<>> \in Seq(Nat)
BY DEF Range, InOrder

\* The lines of the reports, when one is added.
LEMMA SentAppend ==
  ASSUME ErrorLogTyped, NEW s \in Seq(Nat), reports' = Append(reports, s)
  PROVE  Sent' = Sent \cup Range(s)
<1>1. /\ DOMAIN reports = 1..Len(reports) /\ Len(reports) \in Nat
      /\ DOMAIN reports' = 1..Len(reports) + 1
      /\ reports'[Len(reports) + 1] = s
      /\ \A i \in 1..Len(reports) : reports'[i] = reports[i]
  BY AppendProperties DEF ErrorLogTyped
<1>2. \A i \in 1..Len(reports) + 1 : i \in 1..Len(reports) \/ i = Len(reports) + 1
  BY <1>1
<1>3. 1..Len(reports) \subseteq 1..Len(reports) + 1 /\ Len(reports) + 1 \in 1..Len(reports) + 1
  BY <1>1
<1> QED BY <1>1, <1>2, <1>3 DEF Sent

-----------------------------------------------------------------------------
(***************************************************************************)
(* The error log: the inductive invariant.                                 *)
(***************************************************************************)
LEMMA InitLines == ErrorLogInit => LinesInv
<1> SUFFICES ASSUME ErrorLogInit PROVE LinesInv
  OBVIOUS
<1>1. ErrorLogTyped
  BY DEF ErrorLogInit, ErrorLogTyped
<1>2. Sent = {} /\ Range(early) = {} /\ Range(buffer) = {} /\ Range(reports) = {}
  BY EmptyLines DEF ErrorLogInit, Sent
<1>3. 1..lines = {}
  BY DEF ErrorLogInit
<1>4. LinesReportedOnce
  BY <1>2, <1>3, EmptyLines DEF ErrorLogInit, LinesReportedOnce
<1> QED BY <1>1, <1>2, <1>4 DEF ErrorLogInit, LinesInv

\* Steps that neither write nor send: errors are counted where they are.
LEMMA NothingWritten ==
  ASSUME LinesInv, UNCHANGED <<lines, bufferVars, reports>>,
         errors' \in Nat, tracing' \in Nat, untraced' \in Nat,
         errors' = Len(reports) + tracing' + untraced',
         ~loaded' => ~loaded /\ tracing' = 0,
         loaded' /\ ~loaded => buffer = <<>>
  PROVE  LinesInv'
<1>1. ErrorLogTyped'
  BY DEF LinesInv, ErrorLogTyped, bufferVars
<1>2. LinesReportedOnce'
  <2> QED BY DEF LinesInv, LinesReportedOnce, Sent, bufferVars
<1>3. \A line \in Sent', later \in Range(Pending') : line < later
  <2>1. CASE loaded' /\ ~loaded
    <3>1. Range(Pending') = {}
      BY <2>1, EmptyLines DEF Pending, bufferVars
    <3> QED BY <3>1
  <2>2. CASE loaded' <=> loaded
    <3>1. Pending' = Pending /\ Sent' = Sent
      BY <2>2 DEF Sent, Pending, bufferVars
    <3> QED BY <3>1 DEF LinesInv
  <2> QED BY <2>1, <2>2
<1>4. ~loaded' => buffer' = <<>> /\ tracing' = 0
  BY DEF LinesInv, bufferVars
<1> QED BY <1>1, <1>2, <1>3, <1>4 DEF LinesInv

LEMMA LoadServiceInv == ASSUME LinesInv, LoadService PROVE LinesInv'
<1>1. ~loaded /\ buffer = <<>>
  BY DEF LoadService, LinesInv
<1> QED BY <1>1, NothingWritten DEF LoadService, LinesInv, ErrorLogTyped, LinesReportedOnce

LEMMA WriteLineInv == ASSUME LinesInv, WriteLine PROVE LinesInv'
<1> DEFINE line == lines + 1
<1>1. /\ lines \in Nat /\ line \in Nat /\ 1..line = 1..lines \cup {line}
      /\ \A l \in 1..lines : l < line
  BY DEF LinesInv, ErrorLogTyped
<1>2. /\ \A l \in Sent \cup Range(early) \cup Range(buffer) : l < line
      /\ line \notin Sent \cup Range(early) \cup Range(buffer)
  BY <1>1 DEF LinesInv, LinesReportedOnce
<1> HIDE DEF line
<1>3. Sent' = Sent /\ reports' = reports /\ lines' = line
  BY DEF WriteLine, Sent, line
<1>4. /\ Range(early') \cup Range(buffer') = Range(early) \cup Range(buffer) \cup {line}
      /\ Range(early') \cap Range(buffer') = {}
      /\ InOrder(early') /\ InOrder(buffer')
      /\ early' \in Seq(Nat) /\ buffer' \in Seq(Nat)
      /\ ~loaded' => buffer' = <<>> /\ tracing' = 0
      /\ Range(Pending') = Range(Pending) \cup {line}
  <2>1. CASE loaded
    <3>1. /\ loaded' /\ buffer' = Append(buffer, line) /\ early' = early
          /\ buffer \in Seq(Nat) /\ early \in Seq(Nat)
      BY <2>1 DEF WriteLine, LinesInv, ErrorLogTyped, line
    <3>2. Range(buffer') = Range(buffer) \cup {line}
      BY <3>1, RangeAppend
    <3>3. InOrder(buffer) /\ InOrder(early)
      BY DEF LinesInv, LinesReportedOnce
    <3>4. InOrder(buffer')
      BY <1>1, <1>2, <3>1, <3>3, InOrderAppend
    <3>5. buffer' \in Seq(Nat)
      BY <1>1, <3>1
    <3> QED BY <1>2, <2>1, <3>1, <3>2, <3>3, <3>4, <3>5 DEF Pending, LinesInv, LinesReportedOnce
  <2>2. CASE ~loaded
    <3>1. /\ ~loaded' /\ early' = Append(early, line) /\ buffer' = buffer
          /\ buffer \in Seq(Nat) /\ early \in Seq(Nat) /\ buffer = <<>> /\ tracing' = 0
      BY <2>2 DEF WriteLine, LinesInv, ErrorLogTyped, line
    <3>2. Range(early') = Range(early) \cup {line}
      BY <3>1, RangeAppend
    <3>3. InOrder(buffer) /\ InOrder(early)
      BY DEF LinesInv, LinesReportedOnce
    <3>4. InOrder(early')
      BY <1>1, <1>2, <3>1, <3>3, InOrderAppend
    <3>5. early' \in Seq(Nat)
      BY <1>1, <3>1
    <3> QED BY <1>2, <2>2, <3>1, <3>2, <3>3, <3>4, <3>5 DEF Pending, LinesInv, LinesReportedOnce
  <2> QED BY <2>1, <2>2
<1>5. ErrorLogTyped'
  BY <1>1, <1>3, <1>4 DEF WriteLine, LinesInv, ErrorLogTyped
<1>6. LinesReportedOnce'
  <2>1. Sent' \cup Range(early') \cup Range(buffer') = 1..lines'
    BY <1>1, <1>3, <1>4 DEF LinesInv, LinesReportedOnce
  <2>2. Sent' \cap (Range(early') \cup Range(buffer')) = {}
    BY <1>2, <1>3, <1>4 DEF LinesInv, LinesReportedOnce
  <2>3. \A s \in Range(reports') \cup {early', buffer'} : InOrder(s)
    BY <1>3, <1>4 DEF LinesInv, LinesReportedOnce
  <2>4. errors' = Len(reports') + tracing' + untraced'
    BY DEF WriteLine, LinesInv, LinesReportedOnce
  <2> QED BY <1>3, <1>4, <2>1, <2>2, <2>3, <2>4 DEF LinesInv, LinesReportedOnce
<1>7. \A l \in Sent', later \in Range(Pending') : l < later
  BY <1>2, <1>3, <1>4 DEF LinesInv
<1> QED BY <1>4, <1>5, <1>6, <1>7 DEF LinesInv

\* What is pending is sent, and no longer pending; one error more has its report.
LEMMA SendInv ==
  ASSUME LinesInv, reports' = Append(reports, Pending), UNCHANGED <<loaded, lines, untraced>>,
         IF loaded THEN buffer' = <<>> /\ early' = early ELSE early' = <<>> /\ buffer' = buffer,
         errors' \in Nat, tracing' \in Nat, ~loaded => tracing' = 0,
         untraced' \in Nat,
         errors' = Len(reports) + 1 + tracing' + untraced'
  PROVE  LinesInv'
<1>1. /\ early \in Seq(Nat) /\ buffer \in Seq(Nat) /\ Pending \in Seq(Nat)
      /\ InOrder(early) /\ InOrder(buffer) /\ InOrder(Pending)
      /\ ~loaded => buffer = <<>>
      /\ early' \in Seq(Nat) /\ buffer' \in Seq(Nat) /\ InOrder(early') /\ InOrder(buffer')
  BY EmptyLines DEF LinesInv, ErrorLogTyped, LinesReportedOnce, Pending
<1>2. Sent' = Sent \cup Range(Pending)
  BY <1>1, SentAppend DEF LinesInv
<1>3. /\ Range(Pending') = {}
      /\ Range(early') \cup Range(buffer') \cup Range(Pending) = Range(early) \cup Range(buffer)
      /\ Range(Pending) \cap (Range(early') \cup Range(buffer')) = {}
      /\ Range(early') \cap Range(buffer') = {}
      /\ ~loaded' => buffer' = <<>>
  BY <1>1, EmptyLines DEF Pending, LinesInv, LinesReportedOnce
<1>4. /\ reports \in Seq(Seq(Nat)) /\ reports' \in Seq(Seq(Nat))
      /\ DOMAIN reports = 1..Len(reports) /\ Len(reports) \in Nat
      /\ Len(reports') = Len(reports) + 1
      /\ DOMAIN reports' = 1..Len(reports) + 1
      /\ reports'[Len(reports) + 1] = Pending
      /\ \A i \in 1..Len(reports) : reports'[i] = reports[i]
  <2>1. reports \in Seq(Seq(Nat))
    BY DEF LinesInv, ErrorLogTyped
  <2>2. Append(reports, Pending) \in Seq(Seq(Nat))
    BY <1>1, <2>1
  <2>3. ASSUME NEW s \in Seq(Seq(Nat)), NEW x \in Seq(Nat)
        PROVE  /\ DOMAIN s = 1..Len(s) /\ Len(s) \in Nat
               /\ Len(Append(s, x)) = Len(s) + 1
               /\ DOMAIN Append(s, x) = 1..Len(s) + 1
               /\ Append(s, x)[Len(s) + 1] = x
               /\ \A i \in 1..Len(s) : Append(s, x)[i] = s[i]
    BY AppendProperties
  <2> QED BY <1>1, <2>1, <2>2, <2>3
<1>5. ErrorLogTyped'
  BY <1>1, <1>4 DEF LinesInv, ErrorLogTyped
<1>6. LinesReportedOnce'
  <2>1. Sent' \cup Range(early') \cup Range(buffer') = 1..lines'
    BY <1>2, <1>3 DEF LinesInv, LinesReportedOnce
  <2>2. Sent' \cap (Range(early') \cup Range(buffer')) = {}
    BY <1>2, <1>3 DEF LinesInv, LinesReportedOnce
  <2>3. \A s \in Range(reports') \cup {early', buffer'} : InOrder(s)
    <3>1. Range(reports') = Range(reports) \cup {Pending}
      BY <1>4, RangeAppend
    <3> QED BY <1>1, <3>1 DEF LinesInv, LinesReportedOnce
  <2>4. ASSUME NEW i \in DOMAIN reports', NEW j \in DOMAIN reports', i < j,
               NEW line \in Range(reports'[i]), NEW later \in Range(reports'[j])
        PROVE  line < later
    <3>1. i \in 1..Len(reports) /\ (j \in 1..Len(reports) \/ j = Len(reports) + 1)
      BY <1>4, <2>4
    <3>2. CASE j \in 1..Len(reports)
      BY <1>4, <2>4, <3>1, <3>2 DEF LinesInv, LinesReportedOnce
    <3>3. CASE j = Len(reports) + 1
      <4>1. line \in Sent /\ later \in Range(Pending)
        BY <1>4, <2>4, <3>1, <3>3 DEF Sent
      <4> QED BY <4>1 DEF LinesInv
    <3> QED BY <3>1, <3>2, <3>3
  <2>5. errors' = Len(reports') + tracing' + untraced'
    BY <1>4
  <2> QED BY <1>3, <2>1, <2>2, <2>3, <2>4, <2>5 DEF LinesReportedOnce
<1> QED BY <1>3, <1>5, <1>6 DEF LinesInv

LEMMA LinesStep == LinesInv /\ [ErrorLogNext]_errorLogVars => LinesInv'
<1> SUFFICES ASSUME LinesInv, [ErrorLogNext]_errorLogVars PROVE LinesInv'
  OBVIOUS
<1>0. /\ errors = Len(reports) + tracing + untraced /\ Len(reports) \in Nat
      /\ errors \in Nat /\ tracing \in Nat /\ untraced \in Nat
      /\ ~loaded => buffer = <<>> /\ tracing = 0
  BY DEF LinesInv, ErrorLogTyped, LinesReportedOnce
<1>1. CASE LoadService
  BY <1>1, LoadServiceInv
<1>2. CASE WriteLine
  BY <1>2, WriteLineInv
<1>3. CASE Exception \/ StackFails
  <2>1. /\ loaded /\ loaded' /\ errors' \in Nat /\ tracing' \in Nat /\ untraced' \in Nat
        /\ errors' = Len(reports) + tracing' + untraced'
        /\ UNCHANGED <<lines, bufferVars, reports>>
    BY <1>0, <1>3 DEF Exception, StackFails
  <2> QED BY <2>1, NothingWritten
<1>4. ASSUME NEW c \in Call, EarlyError(c) PROVE LinesInv'
  BY <1>0, <1>4, SendInv DEF EarlyError, SendError, Pending
<1>5. ASSUME NEW c \in Call, UncaughtError(c) PROVE LinesInv'
  BY <1>0, <1>5, SendInv DEF UncaughtError, SendError, Pending
<1>6. ASSUME NEW c \in Call, StackArrives(c) PROVE LinesInv'
  BY <1>0, <1>6, SendInv DEF StackArrives, SendError, Pending
<1>7. CASE \E c \in Call : ReportArrives(c) \/ ReportFails(c)
  BY <1>0, <1>7, NothingWritten DEF ReportArrives, ReportFails
<1>8. CASE UNCHANGED errorLogVars
  BY <1>0, <1>8, NothingWritten DEF errorLogVars
<1> QED BY <1>1, <1>2, <1>3, <1>4, <1>5, <1>6, <1>7, <1>8 DEF ErrorLogNext

\* For any number of calls, lines and errors, before and after the service takes over:
\* every line is in exactly one report or buffer, the reports are in the order of
\* writing, and no error is forgotten.
THEOREM LinesReportedOnceCorrect == ErrorLogSpec => []LinesReportedOnce
<1>1. ErrorLogSpec => []LinesInv
  BY InitLines, LinesStep, PTL DEF ErrorLogSpec
<1>2. LinesInv => LinesReportedOnce
  BY DEF LinesInv
<1> QED BY <1>1, <1>2, PTL

-----------------------------------------------------------------------------
(***************************************************************************)
(* Comments: the inductive invariant, while the user is patient.           *)
(***************************************************************************)

\* A comment is being created; and one that the page has not heard of.
Creating == \E c \in Call : UnderWay(c, "create")
Created(c) == Succeeded(c, "create")

\* The types of the comments, the pages and the calls.
CommentsTyped ==
    /\ call \in [Call -> {None} \cup FetchCall \cup CreateCall \cup EditCall]
    /\ thread \in Seq(Stored) /\ comment \in Seq(Shown) /\ view \in Seq(View)
    /\ node \in [there : BOOLEAN, arranged : BOOLEAN]

\* What a call is for is there, and an edit is of the comment it names.
CallsPlaced ==
    \A c \in Call :
        /\ UnderWay(c, "comments") => call[c].view \in DOMAIN view
        /\ UnderWay(c, "create") =>
            IF call[c].object = None THEN call[c].view \in DOMAIN view
                                     ELSE call[c].object \in DOMAIN comment
        /\ UnderWay(c, "edit") =>
            call[c].object \in DOMAIN comment /\ comment[call[c].object].id = call[c].id

\* Fetches are not mixed with anything, and a comment is edited once at a time.
CallsApart ==
    \A c, d \in Call :
        /\ UnderWay(c, "comments") /\ call[d] # None => call[d].task = "comments"
        /\ UnderWay(c, "edit") /\ UnderWay(d, "edit") /\ call[c].id = call[d].id => c = d

\* A fetch that is answered has what there is.
Fetched == \A c \in Call : Succeeded(c, "comments") => call[c].reply.data = thread

\* A comment that the page has not heard of is there, as it was written, and nowhere else.
CreatedOnce ==
    /\ \A c, d \in Call : Created(c) /\ Created(d) /\ call[c].reply.id = call[d].reply.id => c = d
    /\ \A c \in Call : Created(c) =>
        /\ call[c].reply.id \in DOMAIN thread
        /\ thread[call[c].reply.id].parent = call[c].id
        /\ thread[call[c].reply.id].body = call[c].body
        /\ \A o \in DOMAIN comment : comment[o].id # call[c].reply.id

\* Before the comments are arranged none is shown, and what was fetched is what there is.
NotArranged ==
    ~node.arranged =>
        /\ comment = <<>>
        /\ \A v \in DOMAIN view : view[v].data # None =>
            /\ view[v].data = IF Creating THEN <<>> ELSE thread
            /\ view[v].node => view[v].data = <<>>

\* No comment is missing on the page but those it has not heard of.
Complete ==
    node.arranged \/ Creating =>
        \A i \in DOMAIN thread :
            \/ \E o \in DOMAIN comment : comment[o].id = i
            \/ \E c \in Call : Created(c) /\ call[c].reply.id = i

\* Each object is one comment, in its place, and as it is unless the page has not heard of
\* its edit.
Objects ==
    /\ \A o, p \in DOMAIN comment : comment[o].id = comment[p].id => o = p
    /\ \A o \in DOMAIN comment :
        /\ comment[o].id \in DOMAIN thread
        /\ comment[o].parent = thread[comment[o].id].parent
        /\ \/ comment[o].body = thread[comment[o].id].body
           \/ \E c \in Call : Succeeded(c, "edit") /\ call[c].id = comment[o].id
    /\ \A c \in Call : Succeeded(c, "edit") => thread[call[c].id].body = call[c].body

\* The inductive invariant.
CommentsInv ==
    /\ CommentsTyped /\ CallsPlaced /\ CallsApart /\ Fetched /\ CreatedOnce
    /\ NotArranged /\ Complete /\ Objects

-----------------------------------------------------------------------------
(***************************************************************************)
(* Comments: facts about calls, and what most steps keep.                  *)
(***************************************************************************)

\* A call is of one kind.
LEMMA KindFacts ==
  ASSUME CommentsTyped, NEW c \in Call, call[c] # None
  PROVE  /\ call[c].task \in {"comments", "create", "edit"}
         /\ call[c].task = "comments" => call[c] \in FetchCall
         /\ call[c].task = "create" => call[c] \in CreateCall
         /\ call[c].task = "edit" => call[c] \in EditCall
BY DEF CommentsTyped, FetchCall, CreateCall, EditCall

\* The calls there may be.
AllCalls == {None} \cup FetchCall \cup CreateCall \cup EditCall

\* A call that is sent.
LEMMA NewCall ==
  ASSUME CommentsTyped, NEW c \in Call, NEW request \in FetchCall \cup CreateCall \cup EditCall,
         Send(c, request)
  PROVE  /\ call' \in [Call -> AllCalls]
         /\ call[c] = None /\ call'[c] = request /\ request # None
         /\ \A d \in Call \ {c} : call'[d] = call[d]
<1>1. request # None
  BY NoneIsNothing
<1> QED BY <1>1 DEF CommentsTyped, Send, AllCalls

\* A call that is done is gone.
LEMMA CallDone ==
  ASSUME CommentsTyped, NEW c \in Call, Done(c)
  PROVE  /\ call' \in [Call -> AllCalls]
         /\ call'[c] = None
         /\ \A d \in Call \ {c} : call'[d] = call[d]
BY DEF CommentsTyped, Done, AllCalls

\* What a call says, whatever is answered.
Says(c) ==
    /\ call'[c] # None /\ call'[c].task = call[c].task /\ call'[c].view = call[c].view
    /\ call[c].task \in {"create", "edit"} =>
        /\ call'[c].id = call[c].id /\ call'[c].object = call[c].object
        /\ call'[c].body = call[c].body

\* A call keeps what it says when it is answered or lost.
LEMMA CallAnswered ==
  ASSUME CommentsTyped, NEW c \in Call, call[c] # None, NEW reply, Reply(c, reply),
         \/ reply = Refusal
         \/ call[c].task = "comments" /\ reply \in [ok : {TRUE}, data : Seq(Stored)]
         \/ call[c].task = "create" /\ reply \in [ok : {TRUE}, id : Nat]
         \/ call[c].task = "edit" /\ reply = [ok |-> TRUE]
  PROVE  /\ call' \in [Call -> AllCalls]
         /\ Says(c) /\ call'[c].reply = reply /\ reply # None
         /\ \A d \in Call \ {c} : call'[d] = call[d]
<1>1. /\ call'[c] = [call[c] EXCEPT !.reply = reply]
      /\ \A d \in Call \ {c} : call'[d] = call[d]
      /\ call' \in [Call -> AllCalls \cup {call'[c]}]
  BY DEF CommentsTyped, Reply, AllCalls
<1>2. Refusal \in [ok : BOOLEAN] /\ [ok |-> TRUE] \in [ok : BOOLEAN]
  BY DEF Refusal
<1>3. reply # None
  BY <1>2, NoneIsNothing
<1>4. /\ call'[c] \in AllCalls \ {None}
      /\ call'[c].task = call[c].task /\ call'[c].view = call[c].view
      /\ call'[c].reply = reply
      /\ call[c].task \in {"create", "edit"} =>
            /\ call'[c].id = call[c].id /\ call'[c].object = call[c].object
            /\ call'[c].body = call[c].body
  <2>1. CASE call[c] \in FetchCall
    <3>1. call[c].task = "comments"
      BY <2>1 DEF FetchCall
    <3>2. call'[c] \in FetchCall
      BY <1>1, <2>1, <3>1 DEF FetchCall
    <3>3. /\ call'[c].task = call[c].task /\ call'[c].view = call[c].view
          /\ call'[c].reply = reply
      BY <1>1, <2>1 DEF FetchCall
    <3> QED BY <3>1, <3>2, <3>3, NoneIsNothing DEF AllCalls
  <2>2. CASE call[c] \in CreateCall
    <3>1. call[c].task = "create"
      BY <2>2 DEF CreateCall
    <3>2. call'[c] \in CreateCall
      BY <1>1, <2>2, <3>1 DEF CreateCall
    <3>3. /\ call'[c].task = call[c].task /\ call'[c].view = call[c].view
          /\ call'[c].reply = reply /\ call'[c].id = call[c].id
          /\ call'[c].object = call[c].object /\ call'[c].body = call[c].body
      BY <1>1, <2>2 DEF CreateCall
    <3> QED BY <3>2, <3>3, NoneIsNothing DEF AllCalls
  <2>3. CASE call[c] \in EditCall
    <3>1. call[c].task = "edit"
      BY <2>3 DEF EditCall
    <3>2. call'[c] \in EditCall
      BY <1>1, <2>3, <3>1 DEF EditCall
    <3>3. /\ call'[c].task = call[c].task /\ call'[c].view = call[c].view
          /\ call'[c].reply = reply /\ call'[c].id = call[c].id
          /\ call'[c].object = call[c].object /\ call'[c].body = call[c].body
      BY <1>1, <2>3 DEF EditCall
    <3> QED BY <3>2, <3>3, NoneIsNothing DEF AllCalls
  <2> QED BY <2>1, <2>2, <2>3 DEF CommentsTyped
<1> QED BY <1>1, <1>3, <1>4 DEF Says

\* The kinds of calls that a patient user has under way.
LEMMA ApartNext ==
  ASSUME CommentsPatiently, call' \in [Call -> AllCalls]
  PROVE  CallsApart'
<1>1. ASSUME NEW c \in Call, NEW d \in Call, UnderWay(c, "comments")', call'[d] # None
      PROVE  call'[d].task = "comments"
  BY <1>1 DEF CommentsPatiently, Together, Writes, UnderWay
<1>2. ASSUME NEW c \in Call, NEW d \in Call, UnderWay(c, "edit")', UnderWay(d, "edit")',
             call'[c].id = call'[d].id
      PROVE  c = d
  BY <1>2 DEF CommentsPatiently, Together, UnderWay
<1> QED BY <1>1, <1>2 DEF CallsApart

\* A step that adds nothing to the comments, on the page or of the server.
SameComments ==
    /\ thread' = thread /\ node'.arranged = node.arranged
    /\ DOMAIN comment' = DOMAIN comment
    /\ \A o \in DOMAIN comment :
        comment'[o].id = comment[o].id /\ comment'[o].parent = comment[o].parent
        /\ comment'[o].body = comment[o].body
    /\ DOMAIN view \subseteq DOMAIN view'
    /\ \A v \in DOMAIN view' :
        \/ v \in DOMAIN view /\ view'[v].data = view[v].data /\ view'[v].node = view[v].node
        \/ view'[v].data = None
        \/ /\ view'[v].data = IF Creating' THEN <<>> ELSE thread
           /\ view'[v].node => view'[v].data = <<>>
        \/ node.arranged

\* A call that goes on has been there and says what it said.
Goes(c) == call[c] # None /\ Says(c)

\* No comment is created or edited.
SameCalls ==
    \A c \in Call :
        \/ call'[c] = None /\ ~Created(c) /\ ~Succeeded(c, "edit")
        \/ Goes(c) /\ call'[c].reply = call[c].reply
        \/ call'[c] # None /\ ~Created(c) /\ ~Succeeded(c, "edit")
           /\ (call'[c].reply \in {None, Refusal} \/ call'[c].task = "comments")

\* Then what the page has not heard of is the same.
LEMMA CreatedFacts ==
  ASSUME SameCalls, NEW c \in Call
  PROVE  /\ Created(c)' <=> Created(c)
         /\ Succeeded(c, "edit")' <=> Succeeded(c, "edit")
         /\ Created(c) => /\ call'[c].reply.id = call[c].reply.id /\ call'[c].id = call[c].id
                          /\ call'[c].body = call[c].body
         /\ Succeeded(c, "edit") => call'[c].id = call[c].id /\ call'[c].body = call[c].body
<1>1. CASE call'[c] = None /\ ~Created(c) /\ ~Succeeded(c, "edit")
  BY <1>1 DEF Created, Succeeded, Replied, UnderWay
<1>2. CASE Goes(c) /\ call'[c].reply = call[c].reply
  BY <1>2 DEF Goes, Says, Created, Succeeded, Replied, UnderWay
<1>3. CASE /\ call'[c] # None /\ ~Created(c) /\ ~Succeeded(c, "edit")
           /\ call'[c].reply \in {None, Refusal} \/ call'[c].task = "comments"
  BY <1>3 DEF Created, Succeeded, Replied, UnderWay, Refusal
<1> QED BY <1>1, <1>2, <1>3 DEF SameCalls

\* A step of neither kind keeps the invariant.
LEMMA KeepsComments ==
  ASSUME CommentsInv, SameComments, SameCalls, CommentsTyped', CallsPlaced', CallsApart', Fetched',
         node.arranged \/ thread = <<>> \/ (Creating' <=> Creating)
  PROVE  CommentsInv'
<1>1. CreatedOnce'
  <2>1. ASSUME NEW c \in Call, NEW d \in Call, Created(c)', Created(d)', call'[c].reply.id = call'[d].reply.id
        PROVE  c = d
    BY <2>1, CreatedFacts DEF CommentsInv, CreatedOnce
  <2>2. ASSUME NEW c \in Call, Created(c)'
        PROVE  /\ call'[c].reply.id \in DOMAIN thread'
               /\ thread'[call'[c].reply.id].parent = call'[c].id
               /\ thread'[call'[c].reply.id].body = call'[c].body
               /\ \A o \in DOMAIN comment' : comment'[o].id # call'[c].reply.id
    BY <2>2, CreatedFacts DEF CommentsInv, CreatedOnce, SameComments
  <2> QED BY <2>1, <2>2 DEF CreatedOnce
<1>2. NotArranged'
  <2> SUFFICES ASSUME ~node.arranged
               PROVE  /\ comment' = <<>>
                      /\ \A v \in DOMAIN view' : view'[v].data # None =>
                            /\ view'[v].data = IF Creating' THEN <<>> ELSE thread
                            /\ view'[v].node => view'[v].data = <<>>
    BY DEF NotArranged, SameComments
  <2>1. comment = <<>> /\ DOMAIN comment' = {} /\ comment' \in Seq(Shown)
    BY DEF CommentsInv, NotArranged, SameComments, CommentsTyped
  <2>2. comment' = <<>>
    BY <2>1, EmptySeq
  <2>3. ASSUME NEW v \in DOMAIN view', view'[v].data # None
        PROVE  /\ view'[v].data = IF Creating' THEN <<>> ELSE thread
               /\ view'[v].node => view'[v].data = <<>>
    <3>1. CASE v \in DOMAIN view /\ view'[v].data = view[v].data /\ view'[v].node = view[v].node
      BY <2>3, <3>1 DEF CommentsInv, NotArranged
    <3> QED BY <2>3, <3>1 DEF SameComments
  <2> QED BY <2>2, <2>3
<1>3. Complete'
  <2>1. CASE node.arranged \/ Creating
    BY <2>1, CreatedFacts DEF CommentsInv, Complete, SameComments
  <2>2. CASE ~node.arranged /\ ~Creating
    BY <2>2 DEF CommentsInv, Complete, SameComments
  <2> QED BY <2>1, <2>2
<1>4. Objects'
  <2>1. ASSUME NEW o \in DOMAIN comment'
        PROVE  /\ comment'[o].id \in DOMAIN thread'
               /\ comment'[o].parent = thread'[comment'[o].id].parent
               /\ \/ comment'[o].body = thread'[comment'[o].id].body
                  \/ \E c \in Call : Succeeded(c, "edit")' /\ call'[c].id = comment'[o].id
    BY CreatedFacts DEF CommentsInv, Objects, SameComments
  <2>2. \A o, p \in DOMAIN comment' : comment'[o].id = comment'[p].id => o = p
    BY DEF CommentsInv, Objects, SameComments
  <2>3. \A c \in Call : Succeeded(c, "edit")' => thread'[call'[c].id].body = call'[c].body
    BY CreatedFacts DEF CommentsInv, Objects, SameComments
  <2> QED BY <2>1, <2>2, <2>3 DEF Objects
<1> QED BY <1>1, <1>2, <1>3, <1>4 DEF CommentsInv


\* A step of one call that neither creates nor edits, or no longer does.
LEMMA OneCallChanges ==
  ASSUME NEW c \in Call, \A d \in Call \ {c} : call'[d] = call[d],
         ~Created(c), ~Succeeded(c, "edit"),
         call'[c] # None =>
            \/ call'[c].reply \in {None, Refusal}
            \/ call'[c].task = "comments"
            \/ Says(c) /\ call[c] # None /\ call'[c].reply = call[c].reply
  PROVE  SameCalls
<1>1. ASSUME NEW d \in Call, d # c
      PROVE  \/ call'[d] = None /\ ~Created(d) /\ ~Succeeded(d, "edit")
             \/ Goes(d) /\ call'[d].reply = call[d].reply
  <2>1. call'[d] = call[d]
    BY <1>1
  <2>2. CASE call[d] = None
    BY <2>1, <2>2 DEF Created, Succeeded, Replied, UnderWay
  <2>3. CASE call[d] # None
    BY <2>1, <2>3 DEF Goes, Says
  <2> QED BY <2>2, <2>3
<1> QED BY <1>1 DEF SameCalls, Goes

\* The calls that go on are where they were.
LEMMA PlacedNext ==
  ASSUME CallsPlaced, DOMAIN view \subseteq DOMAIN view', DOMAIN comment \subseteq DOMAIN comment',
         \A o \in DOMAIN comment : comment'[o].id = comment[o].id,
         \A c \in Call : call'[c] # None =>
            \/ Goes(c)
            \/ /\ call'[c].task = "comments" => call'[c].view \in DOMAIN view'
               /\ call'[c].task = "create" =>
                    IF call'[c].object = None THEN call'[c].view \in DOMAIN view'
                                              ELSE call'[c].object \in DOMAIN comment'
               /\ call'[c].task = "edit" =>
                    /\ call'[c].object \in DOMAIN comment'
                    /\ comment'[call'[c].object].id = call'[c].id
  PROVE  CallsPlaced'
<1> SUFFICES ASSUME NEW c \in Call, call'[c] # None
             PROVE  /\ call'[c].task = "comments" => call'[c].view \in DOMAIN view'
                    /\ call'[c].task = "create" =>
                        IF call'[c].object = None THEN call'[c].view \in DOMAIN view'
                                                  ELSE call'[c].object \in DOMAIN comment'
                    /\ call'[c].task = "edit" =>
                        /\ call'[c].object \in DOMAIN comment'
                        /\ comment'[call'[c].object].id = call'[c].id
  BY DEF CallsPlaced, UnderWay
<1>1. CASE Goes(c)
  BY <1>1 DEF Goes, Says, CallsPlaced, UnderWay
<1> QED BY <1>1

\* While nothing is written, what is fetched is what there is.
LEMMA FetchedNext ==
  ASSUME Fetched, thread' = thread,
         \A c \in Call : call'[c] # None =>
            \/ Goes(c) /\ call'[c].reply = call[c].reply
            \/ call'[c].reply \in {None, Refusal}
            \/ call'[c].task = "comments" => call'[c].reply.data = thread
  PROVE  Fetched'
<1> SUFFICES ASSUME NEW c \in Call, Succeeded(c, "comments")' PROVE call'[c].reply.data = thread'
  BY DEF Fetched
<1>1. call'[c] # None /\ call'[c].task = "comments" /\ ~(call'[c].reply \in {None, Refusal})
  BY DEF Succeeded, Replied, UnderWay, Refusal
<1>2. CASE Goes(c) /\ call'[c].reply = call[c].reply
  <2>1. Succeeded(c, "comments")
    BY <1>1, <1>2 DEF Goes, Says, Succeeded, Replied, UnderWay
  <2> QED BY <1>2, <2>1 DEF Fetched
<1> QED BY <1>1, <1>2

\* Calls that nothing happens to.
LEMMA StaysCall ==
  ASSUME NEW c \in Call, \A d \in Call \ {c} : call'[d] = call[d]
  PROVE  \A d \in Call : d # c /\ call'[d] # None => Goes(d) /\ call'[d].reply = call[d].reply
BY DEF Goes, Says

-----------------------------------------------------------------------------
(***************************************************************************)
(* Comments: pages and forms, and what is sent.                            *)
(***************************************************************************)

\* Pages, forms and flags, while no call changes.
LEMMA PagesInv ==
  ASSUME CommentsInv, SameComments, UNCHANGED call, comment' \in Seq(Shown), view' \in Seq(View),
         node' \in [there : BOOLEAN, arranged : BOOLEAN]
  PROVE  CommentsInv'
<1>1. \A c \in Call : call'[c] = call[c]
  OBVIOUS
<1>2. ASSUME NEW c \in Call PROVE call'[c] = None \/ Goes(c)
  BY <1>1 DEF Goes, Says
<1>3. SameCalls
  <2> SUFFICES ASSUME NEW c \in Call
               PROVE  \/ call'[c] = None /\ ~Created(c) /\ ~Succeeded(c, "edit")
                      \/ Goes(c) /\ call'[c].reply = call[c].reply
    BY DEF SameCalls
  <2> QED BY <1>1, <1>2 DEF Created, Succeeded, Replied, UnderWay
<1>4. CommentsTyped'
  BY DEF CommentsInv, CommentsTyped, SameComments
<1>5. CallsPlaced'
  BY <1>2, PlacedNext DEF CommentsInv, SameComments
<1>6. CallsApart'
  BY DEF CommentsInv, CallsApart, UnderWay
<1>7. Fetched'
  BY <1>1, <1>2, FetchedNext DEF CommentsInv, SameComments
<1>8. Creating' <=> Creating
  BY DEF Creating, UnderWay
<1> QED BY <1>3, <1>4, <1>5, <1>6, <1>7, <1>8, KeepsComments

\* The view that is open, and what is known of the card.
LEMMA ViewFacts ==
  ASSUME CommentsTyped
  PROVE  /\ DOMAIN view = 1..Len(view) /\ Len(view) \in Nat
         /\ \A v \in DOMAIN view : view[v] \in View
         /\ view # <<>> => Latest \in DOMAIN view
         /\ DOMAIN comment = 1..Len(comment) /\ Len(comment) \in Nat
         /\ \A o \in DOMAIN comment : comment[o] \in Shown
         /\ DOMAIN thread = 1..Len(thread) /\ Len(thread) \in Nat
         /\ \A i \in DOMAIN thread : thread[i] \in Stored
<1>1. view # <<>> => Len(view) # 0
  BY EmptySeq DEF CommentsTyped
<1> QED BY <1>1 DEF CommentsTyped, Latest

\* The page is left, or the form at the top opened or closed.
LEMMA LeaveInv ==
  ASSUME CommentsInv, LeaveComments \/ EditTopLevel
  PROVE  CommentsInv'
<1>1. /\ Latest \in DOMAIN view /\ view[Latest] \in View
      /\ UNCHANGED <<call, thread, node, comment>>
      /\ view' = [view EXCEPT ![Latest] = view'[Latest]]
      /\ view'[Latest] \in View
      /\ view'[Latest].data = view[Latest].data /\ view'[Latest].node = view[Latest].node
  <2>1. Latest \in DOMAIN view /\ view[Latest] \in View
    BY ViewFacts DEF CommentsInv, LeaveComments, EditTopLevel, Reading, Viewing
  <2>2. CASE LeaveComments
    <3>1. view'[Latest] = [view[Latest] EXCEPT !.open = FALSE]
      BY <2>1, <2>2 DEF LeaveComments
    <3>2. /\ view'[Latest] \in View
          /\ view'[Latest].data = view[Latest].data /\ view'[Latest].node = view[Latest].node
      BY <2>1, <3>1 DEF View
    <3> QED BY <2>1, <2>2, <3>1, <3>2 DEF LeaveComments
  <2>3. CASE EditTopLevel
    <3>1. view'[Latest] = [view[Latest] EXCEPT !.editingTopLevel = ~view[Latest].editingTopLevel]
      BY <2>1, <2>3 DEF EditTopLevel, SetTopLevel
    <3>2. /\ view'[Latest] \in View
          /\ view'[Latest].data = view[Latest].data /\ view'[Latest].node = view[Latest].node
      BY <2>1, <3>1 DEF View
    <3> QED BY <2>1, <2>3, <3>1, <3>2 DEF EditTopLevel, SetTopLevel
  <2> QED BY <2>2, <2>3
<1>2. view' \in Seq(View) /\ DOMAIN view' = DOMAIN view
      /\ \A v \in DOMAIN view : v # Latest => view'[v] = view[v]
  BY <1>1 DEF CommentsInv, CommentsTyped
<1>3. SameComments
  BY <1>1, <1>2 DEF SameComments
<1> QED BY <1>1, <1>2, <1>3, PagesInv DEF CommentsInv, CommentsTyped

\* A form at a comment is opened or closed.
LEMMA FlagsInv ==
  ASSUME CommentsInv, NEW o \in DOMAIN comment, WriteReply(o) \/ EditComment(o)
  PROVE  CommentsInv'
<1>1. comment[o] \in Shown
  BY ViewFacts DEF CommentsInv
<1>2. /\ UNCHANGED <<call, thread, node, view>>
      /\ comment' = [comment EXCEPT ![o] = comment'[o]]
      /\ \/ comment'[o] = [comment[o] EXCEPT !.writingReply = ~comment[o].writingReply]
         \/ comment'[o] = [comment[o] EXCEPT !.editing = ~comment[o].editing]
  BY DEF WriteReply, EditComment, SetObject
<1>3. /\ comment'[o] \in Shown
      /\ comment'[o].id = comment[o].id /\ comment'[o].parent = comment[o].parent
      /\ comment'[o].body = comment[o].body
  BY <1>1, <1>2 DEF Shown
<1>4. /\ comment' \in Seq(Shown) /\ DOMAIN comment' = DOMAIN comment
      /\ \A p \in DOMAIN comment : p # o => comment'[p] = comment[p]
  <2>1. comment \in Seq(Shown) /\ o \in 1..Len(comment)
    BY ViewFacts DEF CommentsInv, CommentsTyped
  <2> QED BY <1>2, <1>3, <2>1, ExceptSeq
<1>5. SameComments
  BY <1>2, <1>3, <1>4 DEF SameComments
<1> QED BY <1>2, <1>4, <1>5, PagesInv DEF CommentsInv, CommentsTyped

\* A page is opened, and asks for the comments if the card has none.
LEMMA OpenInv ==
  ASSUME CommentsInv, CommentsPatiently, NEW c \in Call, OpenComments(c)
  PROVE  CommentsInv'
<1> DEFINE new == [open |-> TRUE, node |-> node.there, data |-> None, editingTopLevel |-> FALSE]
<1>1. new \in View
  BY DEF CommentsInv, CommentsTyped, View
<1>2. /\ UNCHANGED <<thread, node, comment>> /\ view' = Append(view, new)
      /\ view \in Seq(View) /\ Latest = Len(view)
  BY DEF OpenComments, CommentsInv, CommentsTyped, Latest
<1>3. /\ view' \in Seq(View) /\ DOMAIN view = 1..Len(view) /\ Len(view) \in Nat
      /\ DOMAIN view' = 1..Len(view) + 1
      /\ view'[Len(view) + 1] = new
      /\ \A v \in 1..Len(view) : view'[v] = view[v]
  BY <1>1, <1>2, AppendProperties
<1>4. SameComments
  <2>1. \A v \in DOMAIN view' : v \in DOMAIN view \/ v = Len(view) + 1
    BY <1>3
  <2>2. DOMAIN view \subseteq DOMAIN view'
    BY <1>3
  <2> QED BY <1>2, <1>3, <2>1, <2>2 DEF SameComments
<1>5. CASE UNCHANGED call
  BY <1>2, <1>3, <1>4, <1>5, PagesInv DEF CommentsInv, CommentsTyped
<1>6. CASE Send(c, [task |-> "comments", view |-> Latest + 1, reply |-> None])
  <2> DEFINE request == [task |-> "comments", view |-> Latest + 1, reply |-> None]
  <2>1. request \in FetchCall
    BY <1>2, <1>3 DEF FetchCall
  <2>2. /\ call' \in [Call -> AllCalls] /\ call[c] = None /\ call'[c] = request
        /\ \A d \in Call \ {c} : call'[d] = call[d]
    BY <1>6, <2>1, NewCall DEF CommentsInv
  <2>3. ~Created(c) /\ ~Succeeded(c, "edit") /\ call'[c].reply = None
        /\ call'[c].task = "comments" /\ call'[c].view = Len(view) + 1
    BY <1>2, <2>2 DEF Created, Succeeded, Replied, UnderWay
  <2> HIDE DEF request
  <2>4. SameCalls
    <3>1. call'[c].reply \in {None, Refusal}
      BY <2>3
    <3> QED BY <2>2, <2>3, <3>1, OneCallChanges
  <2>5. CommentsTyped'
    BY <1>2, <1>3, <2>2 DEF CommentsInv, CommentsTyped, AllCalls
  <2>6. CallsPlaced'
    <3>1. Len(view) + 1 \in DOMAIN view'
      BY <1>3
    <3> QED BY <1>2, <1>4, <2>2, <2>3, <3>1, StaysCall, PlacedNext DEF CommentsInv, SameComments
  <2>7. CallsApart'
    BY <2>2, ApartNext
  <2>8. Fetched'
    BY <1>2, <2>2, <2>3, StaysCall, FetchedNext DEF CommentsInv
  <2>9. Creating' <=> Creating
    BY <2>2, <2>3 DEF Creating, UnderWay
  <2> QED BY <1>4, <2>4, <2>5, <2>6, <2>7, <2>8, <2>9, KeepsComments
<1> QED BY <1>5, <1>6 DEF OpenComments

\* A step of one call, of which only the calls are told.
LEMMA CallsInv ==
  ASSUME CommentsInv, CommentsPatiently, UNCHANGED <<thread, node, comment, view>>,
         call' \in [Call -> AllCalls],
         NEW c \in Call, \A d \in Call \ {c} : call'[d] = call[d],
         ~Created(c), ~Succeeded(c, "edit"),
         call'[c] # None =>
            \/ call'[c].reply \in {None, Refusal}
            \/ call'[c].task = "comments" /\ call'[c].reply.data = thread
            \/ Says(c) /\ call[c] # None /\ call'[c].reply = call[c].reply,
         call'[c] # None /\ ~Goes(c) =>
            /\ call'[c].task = "comments" => call'[c].view \in DOMAIN view
            /\ call'[c].task = "create" =>
                 IF call'[c].object = None THEN call'[c].view \in DOMAIN view
                                           ELSE call'[c].object \in DOMAIN comment
            /\ call'[c].task = "edit" =>
                 /\ call'[c].object \in DOMAIN comment
                 /\ comment[call'[c].object].id = call'[c].id,
         node.arranged \/ thread = <<>> \/ (Creating' <=> Creating)
  PROVE  CommentsInv'
<1>1. SameComments
  BY DEF SameComments
<1>2. SameCalls
  BY OneCallChanges
<1>3. CommentsTyped'
  BY DEF CommentsInv, CommentsTyped, AllCalls
<1>4. \A d \in Call : d # c /\ call'[d] # None => Goes(d) /\ call'[d].reply = call[d].reply
  BY StaysCall
<1>5. CallsPlaced'
  BY <1>4, PlacedNext DEF CommentsInv
<1>6. CallsApart'
  BY ApartNext
<1>7. Fetched'
  <2>1. ASSUME NEW d \in Call, call'[d] # None
        PROVE  \/ Goes(d) /\ call'[d].reply = call[d].reply
               \/ call'[d].reply \in {None, Refusal}
               \/ call'[d].task = "comments" => call'[d].reply.data = thread
    BY <1>4, <2>1 DEF Goes
  <2> QED BY <2>1, FetchedNext DEF CommentsInv
<1> QED BY <1>1, <1>2, <1>3, <1>5, <1>6, <1>7, KeepsComments

\* Before anything is written, nothing is there.
LEMMA NothingThere ==
  ASSUME CommentsInv, CommentsPatiently, ~node.arranged, Reading,
         NEW c \in Call, call[c] = None, Writes(c)
  PROVE  comment = <<>> /\ (thread = <<>> \/ Creating)
<1>1. view[Latest].data # None /\ view[Latest].node /\ Latest \in DOMAIN view
  BY ViewFacts DEF CommentsPatiently, Reading, Viewing, CommentsInv
<1> QED BY <1>1 DEF CommentsInv, NotArranged

\* A comment, a reply or an edit is sent.
LEMMA SaveInv ==
  ASSUME CommentsInv, CommentsPatiently, NEW c \in Call, NEW body \in Text,
         \/ SaveComment(c, body)
         \/ \E o \in DOMAIN comment : SaveReply(c, o, body) \/ SaveEdit(c, o, body)
  PROVE  CommentsInv'
<1>1. PICK request :
        /\ Send(c, request) /\ Reading /\ UNCHANGED <<thread, node, comment, view>>
        /\ \/ request = Writing("create", CardId, None, body)
           \/ \E o \in DOMAIN comment :
                \/ request = Writing("create", comment[o].id, o, body)
                \/ request = Writing("edit", comment[o].id, o, body)
  BY DEF SaveComment, SaveReply, SaveEdit, CommentShown
<1>2. /\ Latest \in DOMAIN view /\ Latest \in Nat
      /\ \A o \in DOMAIN comment : comment[o].id \in Nat /\ o \in Nat /\ o # None
  <2>1. Latest \in DOMAIN view
    BY <1>1, ViewFacts DEF CommentsInv, Reading, Viewing
  <2>2. \A o \in DOMAIN comment : comment[o].id \in Nat
    BY ViewFacts DEF CommentsInv, Shown
  <2>3. \A o \in DOMAIN comment : o \in Nat /\ o # None
    <3>1. None \notin Nat
      BY NoneIsNothing
    <3>2. \A o \in DOMAIN comment : o \in Nat
      BY ViewFacts DEF CommentsInv
    <3> QED BY <3>1, <3>2
  <2>4. Latest \in Nat
    BY <2>1, ViewFacts DEF CommentsInv
  <2> QED BY <2>1, <2>2, <2>3, <2>4
<1> DEFINE Right(r) ==
            /\ r \in CreateCall \cup EditCall
            /\ r.reply = None
            /\ r.task = "create" \/ r.task = "edit"
            /\ r.task = "create" =>
                 IF r.object = None THEN r.view \in DOMAIN view ELSE r.object \in DOMAIN comment
            /\ r.task = "edit" => r.object \in DOMAIN comment /\ comment[r.object].id = r.id
<1>3. Right(request)
  <2>1. ASSUME request = Writing("create", CardId, None, body) PROVE Right(request)
    <3>1. request \in CreateCall
      BY <1>2, <2>1 DEF Writing, CreateCall, Id
    <3> QED BY <1>2, <2>1, <3>1 DEF Writing
  <2>2. ASSUME NEW o \in DOMAIN comment, request = Writing("create", comment[o].id, o, body)
        PROVE  Right(request)
    <3>1. request \in CreateCall
      BY <1>2, <2>2 DEF Writing, CreateCall, Id
    <3> QED BY <1>2, <2>2, <3>1 DEF Writing
  <2>3. ASSUME NEW o \in DOMAIN comment, request = Writing("edit", comment[o].id, o, body)
        PROVE  Right(request)
    <3>1. request \in EditCall
      BY <1>2, <2>3 DEF Writing, EditCall, Id
    <3> QED BY <1>2, <2>3, <3>1 DEF Writing
  <2> HIDE DEF Right
  <2> QED BY <1>1, <2>1, <2>2, <2>3
<1>4. /\ call' \in [Call -> AllCalls] /\ call[c] = None /\ call'[c] = request /\ request # None
      /\ \A d \in Call \ {c} : call'[d] = call[d]
  BY <1>1, <1>3, NewCall DEF CommentsInv
<1>5. ~Created(c) /\ ~Succeeded(c, "edit") /\ Writes(c)
  BY <1>3, <1>4 DEF Created, Succeeded, Replied, UnderWay, Writes
<1>6. node.arranged \/ thread = <<>> \/ (Creating' <=> Creating)
  <2>1. CASE ~node.arranged
    <3>1. comment = <<>> /\ (thread = <<>> \/ Creating)
      BY <1>1, <1>4, <1>5, <2>1, NothingThere
    <3>2. CASE Creating
      <4>1. PICK d \in Call : UnderWay(d, "create")
        BY <3>2 DEF Creating
      <4>2. UnderWay(d, "create")'
        BY <1>4, <4>1 DEF UnderWay
      <4> QED BY <3>2, <4>2 DEF Creating
    <3> QED BY <3>1, <3>2
  <2> QED BY <2>1
<1>7. call'[c].reply \in {None, Refusal}
  BY <1>3, <1>4
<1> QED BY <1>1, <1>3, <1>4, <1>5, <1>6, <1>7, CallsInv

\* The last comment that was to be created is not: then there is none.
LEMMA FailedFacts ==
  ASSUME CommentsInv, NEW c \in Call, call[c] # None, ~Created(c), ~node.arranged,
         \A d \in Call \ {c} : call'[d] = call[d],
         UnderWay(c, "create")' => UnderWay(c, "create")
  PROVE  thread = <<>> \/ (Creating' <=> Creating)
<1>1. CASE Creating /\ ~Creating'
  <2>1. \A d \in Call : ~Created(d)
    BY <1>1 DEF Creating, Created, Succeeded, Replied, UnderWay
  <2>2. comment = <<>>
    BY DEF CommentsInv, NotArranged
  <2>3. DOMAIN thread = {}
    BY <1>1, <2>1, <2>2 DEF CommentsInv, Complete
  <2> QED BY <2>3, EmptySeq DEF CommentsInv, CommentsTyped
<1>2. CASE Creating' /\ ~Creating
  BY <1>2 DEF Creating, UnderWay
<1> QED BY <1>1, <1>2

\* A toast, and nothing else.
LEMMA FailsInv ==
  ASSUME CommentsInv, CommentsPatiently, NEW c \in Call, NEW task, CommentFails(c, task)
  PROVE  CommentsInv'
<1>1. /\ call[c] # None /\ ~Created(c) /\ ~Succeeded(c, "edit") /\ Done(c)
      /\ UNCHANGED <<thread, node, comment, view>>
  BY DEF CommentFails, Failed, Created, Succeeded, Replied, UnderWay
<1>2. /\ call' \in [Call -> AllCalls] /\ call'[c] = None
      /\ \A d \in Call \ {c} : call'[d] = call[d]
  BY <1>1, CallDone DEF CommentsInv
<1>3. ~UnderWay(c, "create")'
  BY <1>2 DEF UnderWay
<1>4. node.arranged \/ thread = <<>> \/ (Creating' <=> Creating)
  BY <1>1, <1>2, <1>3, FailedFacts
<1> QED BY <1>1, <1>2, <1>4, CallsInv

\* A call is lost before the server has it.
LEMMA LoseInv ==
  ASSUME CommentsInv, CommentsPatiently, NEW c \in Call, LoseWriting(c)
  PROVE  CommentsInv'
<1>1. /\ call[c] # None /\ call[c].reply # Refusal /\ Reply(c, Refusal)
      /\ UNCHANGED <<thread, node, comment, view>>
  BY DEF LoseWriting, Lose
<1>2. /\ call' \in [Call -> AllCalls] /\ Says(c) /\ call'[c].reply = Refusal
      /\ \A d \in Call \ {c} : call'[d] = call[d]
  BY <1>1, CallAnswered DEF CommentsInv
<1>3. call[c].reply = None
  BY <1>1, <1>2 DEF CommentsPatiently, LostUnserved, Fails, Says
<1>4. ~Created(c) /\ ~Succeeded(c, "edit")
  BY <1>3 DEF Created, Succeeded, Replied
<1>5. Goes(c) /\ call'[c].reply \in {None, Refusal}
  BY <1>1, <1>2 DEF Goes
<1>6. Creating' <=> Creating
  <2>1. \A d \in Call : UnderWay(d, "create")' <=> UnderWay(d, "create")
    BY <1>1, <1>2 DEF Says, UnderWay
  <2> QED BY <2>1 DEF Creating
<1> QED BY <1>1, <1>2, <1>4, <1>5, <1>6, CallsInv

-----------------------------------------------------------------------------
(***************************************************************************)
(* Comments: the server.                                                   *)
(***************************************************************************)

\* The server sends the comments.
LEMMA ServeCommentsInv ==
  ASSUME CommentsInv, CommentsPatiently, NEW c \in Call, ServeComments(c)
  PROVE  CommentsInv'
<1> DEFINE reply == [ok |-> TRUE, data |-> thread]
<1>1. /\ call[c] # None /\ call[c].task = "comments" /\ call[c].reply = None
      /\ Reply(c, reply) /\ UNCHANGED <<thread, node, comment, view>>
  BY DEF ServeComments, Asked, UnderWay
<1>2. reply \in [ok : {TRUE}, data : Seq(Stored)] /\ reply.data = thread
  BY DEF CommentsInv, CommentsTyped
<1> HIDE DEF reply
<1>3. /\ call' \in [Call -> AllCalls] /\ Says(c) /\ call'[c].reply = reply
      /\ \A d \in Call \ {c} : call'[d] = call[d]
  BY <1>1, <1>2, CallAnswered DEF CommentsInv
<1>4. ~Created(c) /\ ~Succeeded(c, "edit")
  BY <1>1 DEF Created, Succeeded, Replied
<1>5. Goes(c) /\ call'[c].task = "comments" /\ call'[c].reply.data = thread
  BY <1>1, <1>2, <1>3 DEF Goes, Says
<1>6. Creating' <=> Creating
  <2>1. \A d \in Call : UnderWay(d, "create")' <=> UnderWay(d, "create")
    BY <1>1, <1>3 DEF Says, UnderWay
  <2> QED BY <2>1 DEF Creating
<1> QED BY <1>1, <1>3, <1>4, <1>5, <1>6, CallsInv

\* The server stores a comment the page has not heard of.
LEMMA ServeCreateInv ==
  ASSUME CommentsInv, CommentsPatiently, NEW c \in Call, ServeCreate(c)
  PROVE  CommentsInv'
<1> DEFINE new == [parent |-> call[c].id, author |-> Writer, body |-> call[c].body]
           n == Len(thread) + 1
           reply == [ok |-> TRUE, id |-> n]
<1>1. /\ call[c] # None /\ call[c].task = "create" /\ call[c].reply = None
      /\ Reply(c, reply) /\ thread' = Append(thread, new) /\ UNCHANGED <<node, comment, view>>
  BY DEF ServeCreate, Asked, UnderWay
<1>2. call[c] \in CreateCall
  BY <1>1, KindFacts DEF CommentsInv
<1>3. /\ new \in Stored /\ new.parent = call[c].id /\ new.body = call[c].body
      /\ reply \in [ok : {TRUE}, id : Nat] /\ reply.ok /\ reply.id = n
  <2>1. n \in Nat
    BY ViewFacts DEF CommentsInv
  <2> QED BY <1>2, <2>1 DEF CreateCall, Stored
<1>4. /\ thread' \in Seq(Stored) /\ DOMAIN thread = 1..Len(thread) /\ Len(thread) \in Nat
      /\ DOMAIN thread' = 1..n /\ thread'[n] = new
      /\ \A i \in 1..Len(thread) : thread'[i] = thread[i]
  BY <1>1, <1>3, AppendProperties DEF CommentsInv, CommentsTyped
<1>5. /\ DOMAIN thread' = DOMAIN thread \cup {n} /\ n \notin DOMAIN thread
      /\ \A i \in DOMAIN thread : thread'[i] = thread[i]
  BY <1>4
<1> HIDE DEF new, n, reply
<1>6. /\ call' \in [Call -> AllCalls] /\ Says(c) /\ call'[c].reply = reply /\ reply # None
      /\ \A d \in Call \ {c} : call'[d] = call[d]
  BY <1>1, <1>3, CallAnswered DEF CommentsInv
<1>7. /\ \A d \in Call : call'[d] # None => Goes(d)
      /\ \A d \in Call : d # c /\ call'[d] # None => call'[d].reply = call[d].reply
  BY <1>1, <1>6 DEF Goes, Says
<1>8. CommentsTyped'
  BY <1>1, <1>4, <1>6 DEF CommentsInv, CommentsTyped, AllCalls
<1>9. CallsPlaced'
  BY <1>1, <1>7, PlacedNext DEF CommentsInv
<1>10. CallsApart'
  BY <1>6, ApartNext
<1>11. Fetched'
  <2>1. \A d \in Call : ~UnderWay(d, "comments")
    BY <1>1 DEF CommentsInv, CallsApart, UnderWay
  <2>2. \A d \in Call : ~UnderWay(d, "comments")'
    BY <1>7, <2>1 DEF Goes, Says, UnderWay
  <2> QED BY <2>2 DEF Fetched, Succeeded, Replied
<1>12. /\ ~Created(c) /\ Created(c)' /\ call'[c].reply.id = n
       /\ call'[c].id = call[c].id /\ call'[c].body = call[c].body
       /\ UnderWay(c, "create") /\ UnderWay(c, "create")'
       /\ ~Succeeded(c, "edit") /\ ~Succeeded(c, "edit")'
  BY <1>1, <1>3, <1>6 DEF Says, Created, Succeeded, Replied, UnderWay
<1>13. ASSUME NEW d \in Call, d # c
       PROVE  /\ Created(d)' <=> Created(d)
              /\ Succeeded(d, "edit")' <=> Succeeded(d, "edit")
              /\ call'[d] = call[d]
  BY <1>6, <1>13 DEF Created, Succeeded, Replied, UnderWay
<1>14. CreatedOnce'
  <2>1. ASSUME NEW d \in Call, Created(d)', d # c
        PROVE  /\ call'[d].reply.id \in DOMAIN thread /\ call'[d].reply.id # n
               /\ thread'[call'[d].reply.id].parent = call'[d].id
               /\ thread'[call'[d].reply.id].body = call'[d].body
               /\ \A o \in DOMAIN comment : comment[o].id # call'[d].reply.id
    BY <1>5, <1>13, <2>1 DEF CommentsInv, CreatedOnce
  <2>2. \A o \in DOMAIN comment : comment[o].id # n
    BY <1>5 DEF CommentsInv, Objects
  <2>3. ASSUME NEW d \in Call, NEW e \in Call, Created(d)', Created(e)',
               call'[d].reply.id = call'[e].reply.id
        PROVE  d = e
    <3>1. CASE d # c /\ e # c
      BY <1>13, <2>3, <3>1 DEF CommentsInv, CreatedOnce
    <3> QED BY <1>12, <2>1, <2>3, <3>1
  <2>4. ASSUME NEW d \in Call, Created(d)'
        PROVE  /\ call'[d].reply.id \in DOMAIN thread'
               /\ thread'[call'[d].reply.id].parent = call'[d].id
               /\ thread'[call'[d].reply.id].body = call'[d].body
               /\ \A o \in DOMAIN comment' : comment'[o].id # call'[d].reply.id
    <3>1. CASE d = c
      BY <1>1, <1>3, <1>4, <1>5, <1>12, <2>2, <3>1
    <3>2. CASE d # c
      BY <1>1, <1>5, <2>1, <2>4, <3>2
    <3> QED BY <3>1, <3>2
  <2> QED BY <2>3, <2>4 DEF CreatedOnce
<1>15. Creating /\ Creating'
  BY <1>12 DEF Creating
<1>16. NotArranged'
  BY <1>1, <1>15 DEF CommentsInv, NotArranged
<1>17. Complete'
  <2> SUFFICES ASSUME NEW i \in DOMAIN thread'
               PROVE  \/ \E o \in DOMAIN comment : comment[o].id = i
                      \/ \E d \in Call : Created(d)' /\ call'[d].reply.id = i
    BY <1>1 DEF Complete
  <2>1. CASE i = n
    BY <1>12, <2>1
  <2>2. CASE i \in DOMAIN thread
    <3>1. \/ \E o \in DOMAIN comment : comment[o].id = i
          \/ \E d \in Call : Created(d) /\ call[d].reply.id = i
      BY <1>15, <2>2 DEF CommentsInv, Complete
    <3> QED BY <1>12, <1>13, <3>1
  <2> QED BY <1>5, <2>1, <2>2
<1>18. Objects'
  <2>1. \A o, p \in DOMAIN comment' : comment'[o].id = comment'[p].id => o = p
    BY <1>1 DEF CommentsInv, Objects
  <2>2. ASSUME NEW o \in DOMAIN comment'
        PROVE  /\ comment'[o].id \in DOMAIN thread'
               /\ comment'[o].parent = thread'[comment'[o].id].parent
               /\ \/ comment'[o].body = thread'[comment'[o].id].body
                  \/ \E d \in Call : Succeeded(d, "edit")' /\ call'[d].id = comment'[o].id
    BY <1>1, <1>5, <1>12, <1>13 DEF CommentsInv, Objects
  <2>3. ASSUME NEW d \in Call, Succeeded(d, "edit")'
        PROVE  thread'[call'[d].id].body = call'[d].body
    <3>1. Succeeded(d, "edit") /\ call'[d] = call[d]
      BY <1>12, <1>13, <2>3
    <3>2. call[d].id \in DOMAIN thread
      BY <3>1 DEF CommentsInv, CallsPlaced, Objects, Succeeded, Replied
    <3> QED BY <1>5, <3>1, <3>2 DEF CommentsInv, Objects
  <2> QED BY <2>1, <2>2, <2>3 DEF Objects
<1> QED BY <1>8, <1>9, <1>10, <1>11, <1>14, <1>16, <1>17, <1>18 DEF CommentsInv

\* The server stores an edit, or refuses it.
LEMMA ServeEditInv ==
  ASSUME CommentsInv, CommentsPatiently, NEW c \in Call, ServeEdit(c)
  PROVE  CommentsInv'
<1> DEFINE id == call[c].id
<1>1. /\ call[c] # None /\ call[c].task = "edit" /\ call[c].reply = None
      /\ UNCHANGED <<node, comment, view>>
      /\ \/ /\ Reply(c, Refusal) /\ UNCHANGED thread
         \/ /\ Reply(c, [ok |-> TRUE])
            /\ thread' = [thread EXCEPT ![id] = [thread[id] EXCEPT !.body = call[c].body]]
  BY DEF ServeEdit, Asked, UnderWay
<1>2. call[c] \in EditCall
  BY <1>1, KindFacts DEF CommentsInv
<1>3. ~Created(c) /\ ~Succeeded(c, "edit") /\ UnderWay(c, "edit")
  BY <1>1 DEF Created, Succeeded, Replied, UnderWay
<1>4. PICK o \in DOMAIN comment : comment[o].id = id
  BY <1>3 DEF CommentsInv, CallsPlaced
<1>5. node.arranged
  BY <1>4 DEF CommentsInv, NotArranged
<1>6. id \in DOMAIN thread /\ thread[id] \in Stored /\ call[c].body \in Text
  BY <1>2, <1>4, ViewFacts DEF CommentsInv, Objects, EditCall
<1>7. CASE Reply(c, Refusal) /\ UNCHANGED thread
  <2>1. /\ call' \in [Call -> AllCalls] /\ Says(c) /\ call'[c].reply = Refusal
        /\ \A d \in Call \ {c} : call'[d] = call[d]
    BY <1>1, <1>7, CallAnswered DEF CommentsInv
  <2>2. Goes(c)
    BY <1>1, <2>1 DEF Goes
  <2> QED BY <1>1, <1>3, <1>5, <1>7, <2>1, <2>2, CallsInv
<1>8. CASE /\ Reply(c, [ok |-> TRUE])
           /\ thread' = [thread EXCEPT ![id] = [thread[id] EXCEPT !.body = call[c].body]]
  <2>1. /\ call' \in [Call -> AllCalls] /\ Says(c) /\ call'[c].reply = [ok |-> TRUE]
        /\ call'[c].reply # None /\ \A d \in Call \ {c} : call'[d] = call[d]
    BY <1>1, <1>8, CallAnswered DEF CommentsInv
  <2>2. /\ DOMAIN thread' = DOMAIN thread
        /\ thread'[id] = [thread[id] EXCEPT !.body = call[c].body]
        /\ \A i \in DOMAIN thread : i # id => thread'[i] = thread[i]
    BY <1>6, <1>8, ViewFacts DEF CommentsInv
  <2>3. /\ thread'[id] \in Stored /\ thread'[id].body = call[c].body
        /\ thread'[id].parent = thread[id].parent
    BY <1>6, <2>2 DEF Stored
  <2>4. thread' \in Seq(Stored)
    <3>1. thread \in Seq(Stored) /\ id \in 1..Len(thread)
      BY <1>6, ViewFacts DEF CommentsInv, CommentsTyped
    <3>2. thread' = [thread EXCEPT ![id] = thread'[id]]
      BY <1>8, <2>2
    <3> QED BY <2>3, <3>1, <3>2, ExceptSeq
  <2> HIDE DEF id
  <2>5. \A d \in Call : call'[d] # None => Goes(d)
    BY <1>1, <2>1 DEF Goes, Says
  <2>6. CommentsTyped'
    BY <1>1, <2>1, <2>4 DEF CommentsInv, CommentsTyped, AllCalls
  <2>7. CallsPlaced'
    BY <1>1, <2>5, PlacedNext DEF CommentsInv
  <2>8. CallsApart'
    BY <2>1, ApartNext
  <2>9. Fetched'
    <3>1. \A d \in Call : ~UnderWay(d, "comments")
      BY <1>1 DEF CommentsInv, CallsApart, UnderWay
    <3>2. \A d \in Call : ~UnderWay(d, "comments")'
      BY <2>5, <3>1 DEF Goes, Says, UnderWay
    <3> QED BY <3>2 DEF Fetched, Succeeded, Replied
  <2>10. /\ ~Created(c)' /\ Succeeded(c, "edit")' /\ call'[c].id = id
         /\ call'[c].body = call[c].body
    BY <1>1, <2>1 DEF Says, Created, Succeeded, Replied, UnderWay, id
  <2>11. ASSUME NEW d \in Call, d # c
         PROVE  /\ Created(d)' <=> Created(d)
                /\ Succeeded(d, "edit")' <=> Succeeded(d, "edit")
                /\ call'[d] = call[d]
    BY <2>1, <2>11 DEF Created, Succeeded, Replied, UnderWay
  <2>12. CreatedOnce'
    <3>1. ASSUME NEW d \in Call, Created(d)'
          PROVE  /\ Created(d) /\ call'[d] = call[d] /\ call[d].reply.id # id
                 /\ call[d].reply.id \in DOMAIN thread
                 /\ thread'[call[d].reply.id] = thread[call[d].reply.id]
      <4>1. Created(d) /\ call'[d] = call[d]
        BY <2>10, <2>11, <3>1
      <4>2. call[d].reply.id # id /\ call[d].reply.id \in DOMAIN thread
        BY <1>4, <4>1 DEF CommentsInv, CreatedOnce
      <4> QED BY <2>2, <4>1, <4>2
    <3> QED BY <1>1, <2>2, <3>1 DEF CommentsInv, CreatedOnce
  <2>13. NotArranged'
    BY <1>1, <1>5 DEF NotArranged
  <2>14. Complete'
    BY <1>1, <1>3, <1>5, <2>2, <2>10, <2>11 DEF CommentsInv, Complete
  <2>15. Objects'
    <3>1. \A p, q \in DOMAIN comment' : comment'[p].id = comment'[q].id => p = q
      BY <1>1 DEF CommentsInv, Objects
    <3>2. ASSUME NEW p \in DOMAIN comment'
          PROVE  /\ comment'[p].id \in DOMAIN thread'
                 /\ comment'[p].parent = thread'[comment'[p].id].parent
                 /\ \/ comment'[p].body = thread'[comment'[p].id].body
                    \/ \E d \in Call : Succeeded(d, "edit")' /\ call'[d].id = comment'[p].id
      <4>1. /\ comment[p].id \in DOMAIN thread /\ comment'[p] = comment[p]
            /\ comment[p].parent = thread[comment[p].id].parent
            /\ \/ comment[p].body = thread[comment[p].id].body
               \/ \E d \in Call : Succeeded(d, "edit") /\ call[d].id = comment[p].id
        BY <1>1 DEF CommentsInv, Objects
      <4>2. CASE comment[p].id = id
        BY <2>2, <2>3, <2>10, <4>1, <4>2
      <4>3. CASE comment[p].id # id
        BY <1>3, <2>2, <2>11, <4>1, <4>3
      <4> QED BY <4>2, <4>3
    <3>3. ASSUME NEW d \in Call, Succeeded(d, "edit")'
          PROVE  thread'[call'[d].id].body = call'[d].body
      <4>1. CASE d = c
        BY <2>3, <2>10, <4>1
      <4>2. CASE d # c
        <5>1. Succeeded(d, "edit") /\ call'[d] = call[d] /\ UnderWay(d, "edit")
          BY <2>11, <3>3, <4>2 DEF Succeeded, Replied
        <5>2. call[d].id \in DOMAIN thread
          BY <5>1 DEF CommentsInv, CallsPlaced, Objects
        <5>3. call[d].id # id
          BY <1>3, <4>2, <5>1 DEF CommentsInv, CallsApart, id
        <5> QED BY <2>2, <5>1, <5>2, <5>3 DEF CommentsInv, Objects
      <4> QED BY <4>1, <4>2
    <3> QED BY <3>1, <3>2, <3>3 DEF Objects
  <2> QED BY <2>6, <2>7, <2>8, <2>9, <2>12, <2>13, <2>14, <2>15 DEF CommentsInv
<1> QED BY <1>1, <1>7, <1>8

-----------------------------------------------------------------------------
(***************************************************************************)
(* Comments: what arrives.                                                 *)
(***************************************************************************)

\* What TryArrangeData makes of the comments of the server.
LEMMA ArrangedInv ==
  ASSUME CommentsInv, UNCHANGED thread, comment' = Arranged(thread),
         node' = [there |-> TRUE, arranged |-> TRUE],
         view' \in Seq(View), DOMAIN view' = DOMAIN view,
         call' \in [Call -> AllCalls],
         \A c \in Call : call'[c] # None => call'[c] = call[c] /\ call'[c].task = "comments"
  PROVE  CommentsInv'
<1>1. \A c \in Call : /\ ~UnderWay(c, "create")' /\ ~UnderWay(c, "edit")'
                      /\ ~Created(c)' /\ ~Succeeded(c, "edit")'
  BY DEF UnderWay, Created, Succeeded, Replied
<1>2. /\ DOMAIN comment' = DOMAIN thread
      /\ \A i \in DOMAIN thread : comment'[i] = Object(i, thread[i].body, thread[i].author,
                                                       thread[i].parent)
  BY DEF Arranged
<1>3. ASSUME NEW i \in DOMAIN thread
      PROVE  /\ comment'[i] \in Shown /\ comment'[i].id = i
             /\ comment'[i].body = thread[i].body /\ comment'[i].parent = thread[i].parent
  <2> DEFINE old == thread[i]
  <2>1. old \in Stored /\ i \in Nat
    BY ViewFacts DEF CommentsInv
  <2>2. old.body \in Text /\ old.author \in {Writer, None} /\ old.parent \in Id
    BY <2>1 DEF Stored
  <2>3. comment'[i] = Object(i, old.body, old.author, old.parent)
    BY <1>2
  <2> HIDE DEF old
  <2>4. /\ comment'[i] \in Shown /\ comment'[i].id = i
        /\ comment'[i].body = old.body /\ comment'[i].parent = old.parent
    BY <2>1, <2>2, <2>3 DEF Object, Shown
  <2> QED BY <2>4 DEF old
<1>4. comment' \in Seq(Shown)
  <2>1. /\ comment' = [i \in 1..Len(thread) |->
                            Object(i, thread[i].body, thread[i].author, thread[i].parent)]
        /\ Len(thread) \in Nat /\ DOMAIN thread = 1..Len(thread)
    BY ViewFacts DEF CommentsInv, Arranged
  <2>2. \A i \in 1..Len(thread) :
            Object(i, thread[i].body, thread[i].author, thread[i].parent) \in Shown
    BY <1>2, <1>3, <2>1
  <2> QED BY <2>1, <2>2
<1>5. CommentsTyped'
  BY <1>4 DEF CommentsInv, CommentsTyped, AllCalls
<1>6. CallsPlaced'
  BY <1>1 DEF CommentsInv, CallsPlaced, UnderWay
<1>7. CallsApart'
  BY <1>1 DEF CallsApart, UnderWay
<1>8. Fetched'
  BY DEF CommentsInv, Fetched, Succeeded, Replied, UnderWay
<1>9. CreatedOnce' /\ NotArranged'
  BY <1>1 DEF CreatedOnce, NotArranged
<1>10. Complete'
  BY <1>2, <1>3 DEF Complete
<1>11. Objects'
  BY <1>1, <1>2, <1>3 DEF Objects
<1> QED BY <1>5, <1>6, <1>7, <1>8, <1>9, <1>10, <1>11 DEF CommentsInv

\* The card arrives on the page, before or after its comments.
LEMMA NodeArrivesInv ==
  ASSUME CommentsInv, NodeArrives
  PROVE  CommentsInv'
<1>1. /\ Latest \in DOMAIN view /\ view[Latest] \in View /\ UNCHANGED <<call, thread>>
      /\ view' = [view EXCEPT ![Latest] = [view[Latest] EXCEPT !.node = TRUE]]
      /\ TryArrangeData(Latest)
  BY ViewFacts DEF CommentsInv, NodeArrives, Viewing
<1>2. /\ view'[Latest] = [view[Latest] EXCEPT !.node = TRUE]
      /\ DOMAIN view' = DOMAIN view
      /\ \A v \in DOMAIN view : v # Latest => view'[v] = view[v]
  BY <1>1, ViewFacts DEF CommentsInv
<1>3. /\ view'[Latest] \in View /\ view'[Latest].data = view[Latest].data
      /\ view'[Latest].node = TRUE
  BY <1>1, <1>2 DEF View
<1>4. view' \in Seq(View)
  <2>1. view \in Seq(View) /\ Latest \in 1..Len(view) /\ view' = [view EXCEPT ![Latest] = view'[Latest]]
    BY <1>1, <1>2, ViewFacts DEF CommentsInv, CommentsTyped
  <2> QED BY <1>3, <2>1, ExceptSeq
<1>5. CASE view[Latest].data # None /\ ~node.arranged /\ view[Latest].data # <<>>
  <2>1. ~Creating /\ view[Latest].data = thread /\ comment = <<>>
    BY <1>1, <1>5 DEF CommentsInv, NotArranged
  <2>2. node' = [there |-> TRUE, arranged |-> TRUE] /\ comment' = Arranged(thread)
    BY <1>1, <1>3, <1>5, <2>1 DEF TryArrangeData
  <2>3. ASSUME NEW c \in Call, call'[c] # None
        PROVE  call'[c] = call[c] /\ call'[c].task = "comments"
    <3>1. ~UnderWay(c, "create") /\ ~UnderWay(c, "edit")
      BY <2>1, EmptySeq DEF Creating, CommentsInv, CallsPlaced
    <3>2. call'[c] = call[c] /\ call[c].task \in {"comments", "create", "edit"}
      BY <1>1, <2>3, KindFacts DEF CommentsInv
    <3> QED BY <2>3, <3>1, <3>2 DEF UnderWay
  <2>4. call' \in [Call -> AllCalls]
    BY <1>1 DEF CommentsInv, CommentsTyped, AllCalls
  <2> QED BY <1>1, <1>2, <1>4, <2>2, <2>3, <2>4, ArrangedInv
<1>6. CASE ~(view[Latest].data # None /\ ~node.arranged /\ view[Latest].data # <<>>)
  <2>1. comment' = comment /\ node' = [node EXCEPT !.there = view'[Latest].node \/ node.there]
    BY <1>1, <1>3, <1>6 DEF TryArrangeData
  <2>2. node' \in [there : BOOLEAN, arranged : BOOLEAN] /\ node'.arranged = node.arranged
    BY <1>3, <2>1 DEF CommentsInv, CommentsTyped
  <2>3. Creating' <=> Creating
    BY <1>1 DEF Creating, UnderWay
  <2>4. ASSUME ~node.arranged, view[Latest].data # None
        PROVE  view'[Latest].data = (IF Creating' THEN <<>> ELSE thread) /\ view'[Latest].data = <<>>
    <3>1. view[Latest].data = <<>>
      BY <1>6, <2>4
    <3>2. view[Latest].data = IF Creating THEN <<>> ELSE thread
      BY <1>1, <2>4 DEF CommentsInv, NotArranged
    <3> QED BY <1>3, <2>3, <3>1, <3>2
  <2>5. SameComments
    BY <1>1, <1>2, <1>3, <2>1, <2>2, <2>4 DEF SameComments
  <2> QED BY <1>1, <1>4, <2>1, <2>2, <2>5, PagesInv DEF CommentsInv, CommentsTyped
<1> QED BY <1>5, <1>6

\* The comments arrive on a page, before or after the card.
LEMMA CommentsArriveInv ==
  ASSUME CommentsInv, CommentsPatiently, NEW c \in Call, CommentsArrive(c)
  PROVE  CommentsInv'
<1> DEFINE v == call[c].view
<1>1. /\ call[c] # None /\ call[c].task = "comments" /\ Done(c) /\ UNCHANGED thread
      /\ v \in DOMAIN view /\ view[v] \in View /\ call[c].reply.data = thread
      /\ view' = [view EXCEPT ![v] = [view[v] EXCEPT !.data = thread]]
      /\ TryArrangeData(v) /\ UnderWay(c, "comments")
  <2>1. Succeeded(c, "comments") /\ UnderWay(c, "comments")
    BY DEF CommentsArrive, Succeeded, Replied
  <2>2. v \in DOMAIN view /\ call[c].reply.data = thread
    BY <2>1 DEF CommentsInv, CallsPlaced, Fetched
  <2> QED BY <2>1, <2>2, ViewFacts DEF CommentsInv, CommentsArrive, UnderWay
<1>2. /\ view'[v] = [view[v] EXCEPT !.data = thread] /\ DOMAIN view' = DOMAIN view
      /\ \A w \in DOMAIN view : w # v => view'[w] = view[w]
  BY <1>1, ViewFacts DEF CommentsInv
<1>3. /\ view'[v] \in View /\ view'[v].data = thread /\ view'[v].node = view[v].node
      /\ thread # None
  <2>1. thread \in Seq(Stored)
    BY DEF CommentsInv, CommentsTyped
  <2>2. thread # None
    BY <2>1, NoneIsNothing
  <2> QED BY <1>1, <1>2, <2>1, <2>2 DEF View
<1> HIDE DEF v
<1>4. view' \in Seq(View)
  <2>1. view \in Seq(View) /\ v \in 1..Len(view) /\ view' = [view EXCEPT ![v] = view'[v]]
    BY <1>1, <1>2, ViewFacts DEF CommentsInv, CommentsTyped
  <2> QED BY <1>3, <2>1, ExceptSeq
<1>5. /\ call' \in [Call -> AllCalls] /\ call'[c] = None
      /\ \A d \in Call \ {c} : call'[d] = call[d]
  BY <1>1, CallDone DEF CommentsInv
<1>6. \A d \in Call : call'[d] # None => call'[d] = call[d] /\ call'[d].task = "comments"
  BY <1>1, <1>5 DEF CommentsInv, CallsApart
<1>7. ~Creating /\ ~Creating'
  BY <1>1, <1>6 DEF Creating, UnderWay, CommentsInv, CallsApart
<1>8. CASE view[v].node /\ ~node.arranged /\ thread # <<>>
  <2>1. node' = [there |-> TRUE, arranged |-> TRUE] /\ comment' = Arranged(thread)
    BY <1>1, <1>3, <1>8 DEF TryArrangeData
  <2> QED BY <1>1, <1>2, <1>4, <1>5, <1>6, <2>1, ArrangedInv
<1>9. CASE ~(view[v].node /\ ~node.arranged /\ thread # <<>>)
  <2>1. comment' = comment /\ node' = [node EXCEPT !.there = view'[v].node \/ node.there]
    BY <1>1, <1>3, <1>9 DEF TryArrangeData
  <2>2. node' \in [there : BOOLEAN, arranged : BOOLEAN] /\ node'.arranged = node.arranged
    BY <1>1, <1>3, <2>1 DEF CommentsInv, CommentsTyped, View
  <2>3. ~node.arranged => /\ view'[v].data = IF Creating' THEN <<>> ELSE thread
                          /\ view'[v].node => view'[v].data = <<>>
    BY <1>3, <1>7, <1>9
  <2>4. SameComments
    BY <1>1, <1>2, <2>1, <2>2, <2>3 DEF SameComments
  <2>5. ~Created(c) /\ ~Succeeded(c, "edit")
    BY <1>1 DEF Created, Succeeded, Replied, UnderWay
  <2>6. SameCalls
    BY <1>5, <2>5, OneCallChanges
  <2>7. \A d \in Call : call'[d] # None => Goes(d) /\ call'[d].reply = call[d].reply
    BY <1>6 DEF Goes, Says
  <2>8. CommentsTyped'
    BY <1>1, <1>4, <1>5, <2>1, <2>2 DEF CommentsInv, CommentsTyped, AllCalls
  <2>9. CallsPlaced'
    BY <1>2, <2>1, <2>7, PlacedNext DEF CommentsInv
  <2>10. CallsApart'
    BY <1>5, ApartNext
  <2>11. Fetched'
    BY <1>1, <2>7, FetchedNext DEF CommentsInv
  <2> QED BY <1>7, <2>4, <2>6, <2>8, <2>9, <2>10, <2>11, KeepsComments
<1> QED BY <1>8, <1>9

\* A new comment is put in its place.
LEMMA CommentArrivesInv ==
  ASSUME CommentsInv, CommentsPatiently, NEW c \in Call, CommentArrives(c)
  PROVE  CommentsInv'
<1> DEFINE id == call[c].reply.id
           n == Len(comment) + 1
           new == Object(id, call[c].body, Writer, call[c].id)
<1>1. /\ Created(c) /\ UnderWay(c, "create") /\ call[c] # None /\ call[c].task = "create"
      /\ Done(c) /\ UNCHANGED thread
  BY DEF CommentArrives, Created, Succeeded, Replied, UnderWay
<1>2. call[c] \in CreateCall
  BY <1>1, KindFacts DEF CommentsInv
<1>3. /\ id \in DOMAIN thread /\ thread[id].parent = call[c].id /\ thread[id].body = call[c].body
      /\ \A o \in DOMAIN comment : comment[o].id # id
  BY <1>1 DEF CommentsInv, CreatedOnce
<1>4. /\ new \in Shown /\ new.id = id /\ new.parent = call[c].id /\ new.body = call[c].body
  <2>1. call[c].body \in Text /\ call[c].id \in Id
    BY <1>2 DEF CreateCall
  <2>2. id \in Nat
    BY <1>3, ViewFacts DEF CommentsInv
  <2> HIDE DEF id
  <2> QED BY <2>1, <2>2 DEF Object, Shown
\* The comments before the new one, and the pages.
<1>5. PICK s \in Seq(Shown) :
        /\ comment' = Append(s, new) /\ DOMAIN s = DOMAIN comment
        /\ \A o \in DOMAIN comment :
            s[o].id = comment[o].id /\ s[o].parent = comment[o].parent /\ s[o].body = comment[o].body
        /\ node' \in [there : BOOLEAN, arranged : BOOLEAN] /\ node'.arranged
        /\ view' \in Seq(View) /\ DOMAIN view' = DOMAIN view
  <2>1. CASE call[c].object = None
    <3> DEFINE v == call[c].view
    <3>1. /\ node' = [node EXCEPT !.arranged = TRUE] /\ comment' = Append(comment, new)
          /\ view' = [view EXCEPT ![v] = [view[v] EXCEPT !.editingTopLevel = FALSE]]
      BY <2>1 DEF CommentArrives, SetTopLevel
    <3>2. v \in DOMAIN view /\ v \in 1..Len(view) /\ view[v] \in View /\ view \in Seq(View)
      BY <1>1, <2>1, ViewFacts DEF CommentsInv, CallsPlaced, CommentsTyped
    <3> HIDE DEF v
    <3>3. [view[v] EXCEPT !.editingTopLevel = FALSE] \in View
      BY <3>2 DEF View
    <3>4. view' \in Seq(View) /\ DOMAIN view' = DOMAIN view
      BY <3>1, <3>2, <3>3, ExceptSeq
    <3>5. node' \in [there : BOOLEAN, arranged : BOOLEAN] /\ node'.arranged
      BY <3>1 DEF CommentsInv, CommentsTyped
    <3>6. comment \in Seq(Shown)
      BY DEF CommentsInv, CommentsTyped
    <3> QED BY <3>1, <3>4, <3>5, <3>6
  <2>2. CASE call[c].object # None
    <3> DEFINE o == call[c].object
               s == [comment EXCEPT ![o] = [comment[o] EXCEPT !.writingReply = FALSE]]
    <3>1. comment' = Append(s, new) /\ UNCHANGED <<node, view>>
      BY <2>2 DEF CommentArrives
    <3>2. /\ o \in DOMAIN comment /\ o \in 1..Len(comment) /\ comment[o] \in Shown
          /\ comment \in Seq(Shown)
      BY <1>1, <2>2, ViewFacts DEF CommentsInv, CallsPlaced, CommentsTyped
    <3>3. /\ [comment[o] EXCEPT !.writingReply = FALSE] \in Shown
          /\ [comment[o] EXCEPT !.writingReply = FALSE].id = comment[o].id
          /\ [comment[o] EXCEPT !.writingReply = FALSE].parent = comment[o].parent
          /\ [comment[o] EXCEPT !.writingReply = FALSE].body = comment[o].body
      BY <3>2 DEF Shown
    <3>4. s \in Seq(Shown)
      BY <3>2, <3>3, ExceptSeq
    <3>5. /\ DOMAIN s = DOMAIN comment
          /\ \A p \in DOMAIN comment :
                s[p].id = comment[p].id /\ s[p].parent = comment[p].parent
                /\ s[p].body = comment[p].body
      BY <3>2, <3>3
    <3>6. node.arranged
      BY <3>2 DEF CommentsInv, NotArranged
    <3> HIDE DEF s
    <3> QED BY <3>1, <3>4, <3>5, <3>6 DEF CommentsInv, CommentsTyped
  <2> QED BY <2>1, <2>2
<1> HIDE DEF id, new, n
<1>6. Len(s) = Len(comment) /\ Len(s) \in Nat /\ DOMAIN s = 1..Len(s)
  BY <1>5, ViewFacts DEF CommentsInv
<1>7. /\ comment' \in Seq(Shown) /\ DOMAIN comment' = 1..n /\ comment'[n] = new
      /\ \A o \in 1..Len(s) : comment'[o] = s[o]
  BY <1>4, <1>5, <1>6, AppendProperties DEF n
<1>8. /\ DOMAIN comment' = DOMAIN comment \cup {n} /\ n \notin DOMAIN comment
      /\ comment'[n].id = id /\ comment'[n].parent = call[c].id /\ comment'[n].body = call[c].body
      /\ \A o \in DOMAIN comment :
            comment'[o].id = comment[o].id /\ comment'[o].parent = comment[o].parent
            /\ comment'[o].body = comment[o].body
  <2>1. 1..n = 1..Len(s) \cup {n} /\ n \notin 1..Len(s)
    BY <1>6 DEF n
  <2> QED BY <1>4, <1>5, <1>6, <1>7, <2>1
<1>9. /\ call' \in [Call -> AllCalls] /\ call'[c] = None
      /\ \A d \in Call \ {c} : call'[d] = call[d]
  BY <1>1, CallDone DEF CommentsInv
<1>10. \A d \in Call : call'[d] # None => Goes(d) /\ call'[d].reply = call[d].reply
  BY <1>9 DEF Goes, Says
<1>11. ASSUME NEW d \in Call
       PROVE  /\ Created(d)' <=> Created(d) /\ d # c
              /\ Succeeded(d, "edit")' <=> Succeeded(d, "edit")
              /\ d # c => call'[d] = call[d]
  BY <1>1, <1>9 DEF Created, Succeeded, Replied, UnderWay
<1>12. CommentsTyped'
  BY <1>1, <1>5, <1>7, <1>9 DEF CommentsInv, CommentsTyped, AllCalls
<1>13. CallsPlaced'
  BY <1>5, <1>8, <1>10, PlacedNext DEF CommentsInv
<1>14. CallsApart'
  BY <1>9, ApartNext
<1>15. Fetched'
  BY <1>1, <1>10, FetchedNext DEF CommentsInv
<1>16. CreatedOnce'
  <2>1. \A d \in Call : Created(d)' => call'[d].reply.id # id
    BY <1>1, <1>11 DEF CommentsInv, CreatedOnce, id
  <2>2. ASSUME NEW d \in Call, Created(d)'
        PROVE  /\ call'[d].reply.id \in DOMAIN thread'
               /\ thread'[call'[d].reply.id].parent = call'[d].id
               /\ thread'[call'[d].reply.id].body = call'[d].body
               /\ \A o \in DOMAIN comment' : comment'[o].id # call'[d].reply.id
    BY <1>1, <1>8, <1>11, <2>1, <2>2 DEF CommentsInv, CreatedOnce
  <2>3. \A d, e \in Call :
            Created(d)' /\ Created(e)' /\ call'[d].reply.id = call'[e].reply.id => d = e
    BY <1>11 DEF CommentsInv, CreatedOnce
  <2> QED BY <2>2, <2>3 DEF CreatedOnce
<1>17. NotArranged'
  BY <1>5 DEF NotArranged
<1>18. Complete'
  <2> SUFFICES ASSUME NEW i \in DOMAIN thread
               PROVE  \/ \E o \in DOMAIN comment' : comment'[o].id = i
                      \/ \E d \in Call : Created(d)' /\ call'[d].reply.id = i
    BY <1>1 DEF Complete
  <2>1. \/ \E o \in DOMAIN comment : comment[o].id = i
        \/ \E d \in Call : Created(d) /\ call[d].reply.id = i
    BY <1>1 DEF CommentsInv, Complete, Creating
  <2>2. CASE i = id
    BY <1>8, <2>2
  <2>3. CASE i # id
    BY <1>8, <1>11, <2>1, <2>3 DEF id
  <2> QED BY <2>2, <2>3
<1>19. Objects'
  <2>1. ASSUME NEW o \in DOMAIN comment', NEW p \in DOMAIN comment', comment'[o].id = comment'[p].id
        PROVE  o = p
    <3>1. CASE o \in DOMAIN comment /\ p \in DOMAIN comment
      BY <1>8, <2>1, <3>1 DEF CommentsInv, Objects
    <3> QED BY <1>3, <1>8, <2>1, <3>1
  <2>2. ASSUME NEW o \in DOMAIN comment'
        PROVE  /\ comment'[o].id \in DOMAIN thread'
               /\ comment'[o].parent = thread'[comment'[o].id].parent
               /\ \/ comment'[o].body = thread'[comment'[o].id].body
                  \/ \E d \in Call : Succeeded(d, "edit")' /\ call'[d].id = comment'[o].id
    <3>1. CASE o = n
      BY <1>1, <1>3, <1>8, <3>1
    <3>2. CASE o \in DOMAIN comment
      <4>1. /\ comment[o].id \in DOMAIN thread
            /\ comment[o].parent = thread[comment[o].id].parent
            /\ \/ comment[o].body = thread[comment[o].id].body
               \/ \E d \in Call : Succeeded(d, "edit") /\ call[d].id = comment[o].id
        BY <3>2 DEF CommentsInv, Objects
      <4>2. ~Succeeded(c, "edit")
        BY <1>1 DEF Succeeded, Replied, UnderWay
      <4> QED BY <1>1, <1>8, <1>11, <3>2, <4>1, <4>2
    <3> QED BY <1>8, <3>1, <3>2
  <2>3. ASSUME NEW d \in Call, Succeeded(d, "edit")'
        PROVE  thread'[call'[d].id].body = call'[d].body
    <3>1. Succeeded(d, "edit") /\ d # c
      BY <1>1, <1>11, <2>3 DEF Succeeded, Replied, UnderWay
    <3> QED BY <1>1, <1>11, <3>1 DEF CommentsInv, Objects
  <2> QED BY <2>1, <2>2, <2>3 DEF Objects
<1> QED BY <1>12, <1>13, <1>14, <1>15, <1>16, <1>17, <1>18, <1>19 DEF CommentsInv

\* An edit is shown.
LEMMA EditArrivesInv ==
  ASSUME CommentsInv, CommentsPatiently, NEW c \in Call, EditArrives(c)
  PROVE  CommentsInv'
<1> DEFINE o == call[c].object
           id == call[c].id
<1>1. /\ Succeeded(c, "edit") /\ UnderWay(c, "edit") /\ call[c] # None /\ call[c].task = "edit"
      /\ Done(c) /\ UNCHANGED <<thread, node, view>>
      /\ comment' = [comment EXCEPT ![o] = [comment[o] EXCEPT !.body = call[c].body,
                                                             !.editing = FALSE]]
  BY DEF EditArrives, SetObject, Succeeded, Replied, UnderWay
<1>2. call[c].body \in Text
  BY <1>1, KindFacts DEF CommentsInv, EditCall
<1>3. /\ o \in DOMAIN comment /\ o \in 1..Len(comment) /\ comment[o] \in Shown
      /\ comment[o].id = id /\ comment \in Seq(Shown)
  BY <1>1, ViewFacts DEF CommentsInv, CallsPlaced, CommentsTyped
<1>4. /\ DOMAIN comment' = DOMAIN comment
      /\ comment'[o] = [comment[o] EXCEPT !.body = call[c].body, !.editing = FALSE]
      /\ \A p \in DOMAIN comment : p # o => comment'[p] = comment[p]
  BY <1>1, <1>3
<1>5. /\ comment'[o] \in Shown /\ comment'[o].id = id /\ comment'[o].body = call[c].body
      /\ comment'[o].parent = comment[o].parent
  <2> DEFINE old == comment[o]
             body == call[c].body
  <2> HIDE DEF old, body
  <2>1. old \in Shown /\ body \in Text /\ comment'[o] = [old EXCEPT !.body = body, !.editing = FALSE]
    BY <1>2, <1>3, <1>4 DEF old, body
  <2>2. /\ comment'[o] \in Shown /\ comment'[o].id = old.id /\ comment'[o].body = body
        /\ comment'[o].parent = old.parent
    BY <2>1 DEF Shown
  <2> QED BY <1>3, <2>2 DEF old, body
<1>6. comment' \in Seq(Shown)
  <2>1. comment' = [comment EXCEPT ![o] = comment'[o]]
    BY <1>1, <1>4
  <2> QED BY <1>3, <1>5, <2>1, ExceptSeq
<1>7. /\ call' \in [Call -> AllCalls] /\ call'[c] = None
      /\ \A d \in Call \ {c} : call'[d] = call[d]
  BY <1>1, CallDone DEF CommentsInv
<1>8. \A d \in Call : call'[d] # None => Goes(d) /\ call'[d].reply = call[d].reply
  BY <1>7 DEF Goes, Says
<1>9. ASSUME NEW d \in Call
      PROVE  /\ Created(d)' <=> Created(d)
             /\ Succeeded(d, "edit")' <=> Succeeded(d, "edit") /\ d # c
             /\ d # c => call'[d] = call[d]
             /\ Created(d) => d # c
  BY <1>1, <1>7 DEF Created, Succeeded, Replied, UnderWay
<1> HIDE DEF o, id
<1>10. \A p \in DOMAIN comment : comment'[p].id = comment[p].id
  BY <1>3, <1>4, <1>5
<1>11. CommentsTyped'
  BY <1>1, <1>6, <1>7 DEF CommentsInv, CommentsTyped, AllCalls
<1>12. CallsPlaced'
  BY <1>1, <1>4, <1>8, <1>10, PlacedNext DEF CommentsInv
<1>13. CallsApart'
  BY <1>7, ApartNext
<1>14. Fetched'
  BY <1>1, <1>8, FetchedNext DEF CommentsInv
<1>15. CreatedOnce'
  BY <1>1, <1>4, <1>9, <1>10 DEF CommentsInv, CreatedOnce
<1>16. node.arranged
  BY <1>3 DEF CommentsInv, NotArranged
<1>17. NotArranged'
  BY <1>1, <1>16 DEF NotArranged
<1>18. Complete'
  BY <1>1, <1>4, <1>9, <1>10, <1>16 DEF CommentsInv, Complete
<1>19. Objects'
  <2>1. \A p, q \in DOMAIN comment' : comment'[p].id = comment'[q].id => p = q
    BY <1>4, <1>10 DEF CommentsInv, Objects
  <2>2. ASSUME NEW p \in DOMAIN comment'
        PROVE  /\ comment'[p].id \in DOMAIN thread'
               /\ comment'[p].parent = thread'[comment'[p].id].parent
               /\ \/ comment'[p].body = thread'[comment'[p].id].body
                  \/ \E d \in Call : Succeeded(d, "edit")' /\ call'[d].id = comment'[p].id
    <3>1. /\ comment[p].id \in DOMAIN thread
          /\ comment[p].parent = thread[comment[p].id].parent
          /\ \/ comment[p].body = thread[comment[p].id].body
             \/ \E d \in Call : Succeeded(d, "edit") /\ call[d].id = comment[p].id
      BY <1>4 DEF CommentsInv, Objects
    <3>2. CASE p = o
      <4>1. thread[id].body = call[c].body
        BY <1>1 DEF CommentsInv, Objects, id
      <4> QED BY <1>1, <1>3, <1>5, <3>1, <3>2, <4>1
    <3>3. CASE p # o
      <4>1. comment'[p] = comment[p] /\ comment[p].id # id
        BY <1>3, <1>4, <3>3 DEF CommentsInv, Objects
      <4> QED BY <1>1, <1>9, <3>1, <4>1 DEF id
    <3> QED BY <3>2, <3>3
  <2>3. \A d \in Call : Succeeded(d, "edit")' => thread'[call'[d].id].body = call'[d].body
    BY <1>1, <1>9 DEF CommentsInv, Objects
  <2> QED BY <2>1, <2>2, <2>3 DEF Objects
<1> QED BY <1>11, <1>12, <1>13, <1>14, <1>15, <1>17, <1>18, <1>19 DEF CommentsInv

-----------------------------------------------------------------------------
(***************************************************************************)
(* Comments: the theorems.                                                 *)
(***************************************************************************)

\* At first nothing is under way.
LEMMA CommentsStart == CommentsInit /\ call = [c \in Call |-> None] => CommentsInv
<1> SUFFICES ASSUME CommentsInit, call = [c \in Call |-> None] PROVE CommentsInv
  OBVIOUS
<1>1. \A c \in Call : call[c] = None /\ ~Created(c) /\ ~Succeeded(c, "edit")
                      /\ ~UnderWay(c, "create")
  BY DEF Created, Succeeded, Replied, UnderWay
<1>2. thread \in Seq(Stored)
  <2> DEFINE t == CHOOSE t \in Text : TRUE
  <2>1. t \in Text
    BY CommentsAssumption
  <2> HIDE DEF t
  <2>2. /\ [parent |-> CardId, author |-> Writer, body |-> t] \in Stored
        /\ [parent |-> 1, author |-> None, body |-> t] \in Stored
    BY <2>1 DEF Stored, Id
  <2>3. <<[parent |-> CardId, author |-> Writer, body |-> t],
          [parent |-> 1, author |-> None, body |-> t]>> \in Seq(Stored)
    BY <2>2
  <2>4. FirstThreads = {<<>>, <<[parent |-> CardId, author |-> Writer, body |-> t],
                                [parent |-> 1, author |-> None, body |-> t]>>}
    BY DEF FirstThreads, t
  <2>5. FirstThreads \subseteq Seq(Stored)
    BY <2>3, <2>4
  <2> QED BY <2>5 DEF CommentsInit
<1>3. CommentsTyped
  <2>1. node \in [there : BOOLEAN, arranged : BOOLEAN]
    BY DEF CommentsInit
  <2>2. call \in [Call -> {None} \cup FetchCall \cup CreateCall \cup EditCall]
    OBVIOUS
  <2>3. comment \in Seq(Shown) /\ view \in Seq(View)
    BY DEF CommentsInit
  <2> QED BY <1>2, <2>1, <2>2, <2>3 DEF CommentsTyped
<1>4. ~node.arranged /\ comment = <<>> /\ view = <<>>
  BY DEF CommentsInit
<1>5. CallsPlaced /\ CallsApart
  BY <1>1 DEF CallsPlaced, CallsApart, UnderWay
<1>6. Fetched /\ CreatedOnce
  BY <1>1 DEF Fetched, CreatedOnce, Succeeded, Replied, UnderWay
<1>7. NotArranged /\ Complete /\ Objects
  BY <1>1, <1>4 DEF NotArranged, Complete, Creating, Objects
<1> QED BY <1>3, <1>5, <1>6, <1>7 DEF CommentsInv

\* Every step keeps the invariant while the user is patient and the network kind.
LEMMA CommentsStep ==
  patient /\ CommentsInv /\ [CommentsSteps]_<<commentVars, patient>> => CommentsInv'
<1> SUFFICES ASSUME patient, CommentsInv, [CommentsSteps]_<<commentVars, patient>>
             PROVE  CommentsInv'
  OBVIOUS
<1>1. CASE UNCHANGED commentVars
  <2>1. SameComments /\ UNCHANGED <<call, comment, view, node>>
    BY <1>1 DEF SameComments, commentVars
  <2> QED BY <2>1, PagesInv DEF CommentsInv, CommentsTyped
<1>2. CASE CommentsNext /\ CommentsPatiently
  <2>1. CASE LeaveComments \/ NodeArrives \/ EditTopLevel
    BY <2>1, LeaveInv, NodeArrivesInv
  <2>2. ASSUME NEW o \in DOMAIN comment, WriteReply(o) \/ EditComment(o) PROVE CommentsInv'
    BY <2>2, FlagsInv
  <2>3. ASSUME NEW c \in Call,
               \/ OpenComments(c) \/ CommentsArrive(c) \/ CommentArrives(c) \/ EditArrives(c)
               \/ ServeComments(c) \/ ServeCreate(c) \/ ServeEdit(c) \/ LoseWriting(c)
        PROVE  CommentsInv'
    BY <1>2, <2>3, OpenInv, CommentsArriveInv, CommentArrivesInv, EditArrivesInv,
       ServeCommentsInv, ServeCreateInv, ServeEditInv, LoseInv
  <2>4. ASSUME NEW c \in Call, NEW task \in {"comments", "create", "edit"}, CommentFails(c, task)
        PROVE  CommentsInv'
    BY <1>2, <2>4, FailsInv
  <2>5. ASSUME NEW c \in Call, NEW body \in Text,
               \/ SaveComment(c, body)
               \/ \E o \in DOMAIN comment : SaveReply(c, o, body) \/ SaveEdit(c, o, body)
        PROVE  CommentsInv'
    BY <1>2, <2>5, SaveInv
  <2> QED BY <1>2, <2>1, <2>2, <2>3, <2>4, <2>5 DEF CommentsNext
<1> QED BY <1>1, <1>2 DEF CommentsSteps

\* The invariant behind it: fetches are not mixed with writes, so what a page has fetched
\* is what there is, and from then on objects and answers on their way are together the
\* comments of the server, each once (fetchComments, tryArrangeData, and the callbacks).
THEOREM CommentsInvCorrect == CommentsSpec => [](patient => CommentsInv)
<1>1. (patient => CommentsInv) /\ [CommentsSteps]_<<commentVars, patient>>
        => (patient => CommentsInv)'
  BY CommentsStep DEF CommentsSteps
<1>2. CommentsInit /\ call = [c \in Call |-> None] => (patient => CommentsInv)
  BY CommentsStart
<1> QED BY <1>1, <1>2, PTL DEF CommentsSpec

\* As many as there are, when each is there once.
EachOnce(f, m, n) ==
    /\ f \in [1..m -> 1..n]
    /\ \A i, j \in 1..m : f[i] = f[j] => i = j
    /\ \A k \in 1..n : \E i \in 1..m : f[i] = k

LEMMA AsMany ==
  ASSUME NEW m \in Nat, NEW n \in Nat, NEW f, EachOnce(f, m, n)
  PROVE  m = n
<1>1. f \in Bijection(1..m, 1..n)
  BY Fun_IsBij DEF EachOnce
<1>2. ExistsBijection(1..m, 1..n)
  BY <1>1, Fun_ExistsBij
<1>3. IsFiniteSet(1..m) /\ Cardinality(1..m) = m /\ Cardinality(1..n) = n
  BY FS_Interval
<1> QED BY <1>2, <1>3, FS_Bijection

\* When nothing is under way, a page that has the card and its comments shows exactly the
\* comments of the server, each once, below its parent and as last edited, whichever came
\* first, on whichever visit, and however much was written meanwhile on a network that loses
\* no call the server has got (comments-directive.js).
THEOREM CommentsShownCorrect == CommentsSpec => []CommentsShown
<1>1. (patient => CommentsInv) => CommentsShown
  <2> SUFFICES ASSUME CommentsInv, Quiet,
                      NEW v \in DOMAIN view, view[v].node, view[v].data # None \/ node.arranged
               PROVE  /\ {<<o.id, o.parent, o.body>> : o \in Range(comment)}
                            = {<<i, thread[i].parent, thread[i].body>> : i \in DOMAIN thread}
                      /\ Len(comment) = Len(thread)
    BY DEF CommentsShown
  <2>1. \A c \in Call : ~UnderWay(c, "create") /\ ~Created(c) /\ ~Succeeded(c, "edit")
    BY DEF Quiet, Created, Succeeded, Replied, UnderWay
  <2>2. \A i \in DOMAIN thread : \E o \in DOMAIN comment : comment[o].id = i
    <3>1. CASE node.arranged
      BY <2>1, <3>1 DEF CommentsInv, Complete
    <3>2. CASE ~node.arranged
      <4>1. thread = <<>>
        BY <2>1, <3>2 DEF CommentsInv, NotArranged, Creating
      <4> QED BY <4>1
    <3> QED BY <3>1, <3>2
  <2>3. \A o \in DOMAIN comment :
            /\ comment[o].id \in DOMAIN thread
            /\ comment[o].parent = thread[comment[o].id].parent
            /\ comment[o].body = thread[comment[o].id].body
    BY <2>1 DEF CommentsInv, Objects
  <2>4. {<<o.id, o.parent, o.body>> : o \in Range(comment)}
            = {<<i, thread[i].parent, thread[i].body>> : i \in DOMAIN thread}
    <3> DEFINE A == {<<comment[o].id, comment[o].parent, comment[o].body>> : o \in DOMAIN comment}
               B == {<<i, thread[i].parent, thread[i].body>> : i \in DOMAIN thread}
    <3>1. {<<o.id, o.parent, o.body>> : o \in Range(comment)} = A
      BY DEF Range
    <3>2. A \subseteq B
      BY <2>3
    <3>3. ASSUME NEW i \in DOMAIN thread PROVE <<i, thread[i].parent, thread[i].body>> \in A
      <4>1. PICK o \in DOMAIN comment : comment[o].id = i
        BY <2>2
      <4> QED BY <2>3, <4>1
    <3>4. B \subseteq A
      BY <3>3
    <3> QED BY <3>1, <3>2, <3>4
  <2>5. Len(comment) = Len(thread)
    <3> DEFINE m == Len(comment)
               n == Len(thread)
               f == [o \in 1..m |-> comment[o].id]
    <3>1. DOMAIN comment = 1..m /\ m \in Nat /\ DOMAIN thread = 1..n /\ n \in Nat
      BY ViewFacts DEF CommentsInv
    <3> HIDE DEF m, n
    <3>2. f \in [1..m -> 1..n]
      BY <2>3, <3>1
    <3>3. \A i, j \in 1..m : f[i] = f[j] => i = j
      BY <3>1 DEF CommentsInv, Objects
    <3>4. \A k \in 1..n : \E i \in 1..m : f[i] = k
      BY <2>2, <3>1
    <3> HIDE DEF f
    <3>5. EachOnce(f, m, n)
      BY <3>2, <3>3, <3>4 DEF EachOnce
    <3>6. m = n
      BY <3>1, <3>5, AsMany
    <3> QED BY <3>6 DEF m, n
  <2> QED BY <2>4, <2>5
<1> QED BY <1>1, CommentsInvCorrect, PTL

-----------------------------------------------------------------------------
(***************************************************************************)
(* The page of an author: the inductive invariant, of a patient author.    *)
(***************************************************************************)

\* The types of the calls, of what the server has, of the drafts the page lists, and of
\* the editor.
StoredType == [drafts : SUBSET Draft, log : Seq(Steps), old : Nat, name : Name]
EditorTyped ==
    /\ alias.number \in Nat
    /\ alias = [number |-> alias.number, name |-> alias.name,
                mayEdit |-> alias.mayEdit, editing |-> alias.editing]
ProfileTyped ==
    /\ call \in [Call -> PageCall]
    /\ stored \in StoredType /\ stored.old <= Len(stored.log)
    /\ draftNodes \in Seq(Draft)
    /\ EditorTyped

\* The drafts are fetched once, before any is listed, and come as they are.
DraftsOnce ==
    /\ \A c, d \in Call : UnderWay(c, "drafts") /\ UnderWay(d, "drafts") => c = d
    /\ \A c \in Call : UnderWay(c, "drafts") => draftNodes = <<>>
    /\ waiting /\ ~own => draftNodes = <<>> /\ \A c \in Call : ~UnderWay(c, "drafts")
    /\ \A c \in Call : Succeeded(c, "drafts") => call[c].reply.drafts = SetToSeq(stored.drafts)

\* The page lists every draft once, and else only what it has not heard was discarded.
DraftsListed ==
    /\ IsInjective(draftNodes)
    /\ draftNodes # <<>> => stored.drafts \subseteq Range(draftNodes)
    /\ \A d \in Range(draftNodes) \ stored.drafts :
        \E c \in Call : Succeeded(c, "discard") /\ call[c].node = d

\* What is to be discarded is listed, and discarded once however often it is clicked: a
\* draft that the server has loaded is there until it is deleted.
Loaded(c) == UnderWay(c, "discard") /\ call[c].loaded
DiscardsListed ==
    /\ \A c \in Call : UnderWay(c, "discard") /\ call[c].node \in stored.drafts =>
            call[c].node \in Range(draftNodes)
    /\ \A c \in Call : Succeeded(c, "discard") =>
            call[c].node \in Range(draftNodes) \ stored.drafts
    /\ \A c \in Call : Succeeded(c, "discard") => Loaded(c)
    /\ \A c \in Call : Loaded(c) /\ call[c].reply = None => call[c].node \in stored.drafts
    /\ \A c, d \in Call : Loaded(c) /\ Loaded(d) /\ call[c].node = call[d].node => c = d

\* The page has the name, or the answer to its change is on its way.
NameKnown ==
    /\ \A c, d \in Call : UnderWay(c, "rename") /\ UnderWay(d, "rename") => c = d
    /\ \A c \in Call : Succeeded(c, "rename") => call[c].name = stored.name
    /\ (\A c \in Call : ~Succeeded(c, "rename")) => alias.name = stored.name
    /\ \A c \in Call : UnderWay(c, "rename") => call[c].editor = alias.number

\* Points and log are fetched one after the other, and belong together: the log lacks
\* nothing but what is older than a week.
LogAfter(before) == SubSeq(stored.log, before + 1, Len(stored.log))
Scores(c) == UnderWay(c, "profile") \/ UnderWay(c, "log")
PointsTogether ==
    /\ \A c, d \in Call : Scores(c) /\ Scores(d) => c = d
    /\ \A c \in Call : Succeeded(c, "profile") => call[c].reply.points = Sum(stored.log)
    /\ \A c \in Call : UnderWay(c, "log") => call[c].subject.points = Sum(stored.log)
    /\ \A c \in Call : Succeeded(c, "log") =>
            \E before \in 0..stored.old : call[c].reply.log = LogAfter(before)
    /\ chart # None =>
        /\ \E before \in 0..stored.old : chart = ScoreOverTime(LogAfter(before), Sum(stored.log))
        /\ \A c \in Call : ~Scores(c)

\* The inductive invariant.
ProfileInv ==
    /\ ProfileTyped /\ DraftsOnce /\ DraftsListed /\ DiscardsListed /\ NameKnown /\ PointsTogether

-----------------------------------------------------------------------------
(***************************************************************************)
(* The page of an author: facts about calls, lists and sums.               *)
(***************************************************************************)

Tasks == {"profile", "log", "drafts", "discard", "mayRename", "rename"}

LEMMA PageKinds ==
  ASSUME ProfileTyped, NEW c \in Call, call[c] # None
  PROVE  /\ call[c].task \in Tasks
         /\ call[c].task \in {"profile", "log", "drafts"} => call[c] \in QueryCall
         /\ call[c].task = "discard" => call[c] \in DiscardCall
         /\ call[c].task = "mayRename" => call[c] \in MayRenameCall
         /\ call[c].task = "rename" => call[c] \in RenameCall
         /\ call[c].reply \in {None} \cup PageReply
BY DEF ProfileTyped, PageCall, QueryCall, DiscardCall, MayRenameCall, RenameCall, Tasks

\* The calls there may be, with their kinds.
PageRequest == QueryCall \cup DiscardCall \cup MayRenameCall \cup RenameCall

\* What a call says, whatever is answered.
PageSays(c) ==
    /\ call'[c] # None /\ call'[c].task = call[c].task
    /\ call'[c].reply = None => call[c].reply = None
    /\ call[c].task = "log" => call'[c].subject = call[c].subject
    /\ call[c].task = "discard" => call'[c].node = call[c].node /\ call'[c].loaded = call[c].loaded
    /\ call[c].task = "rename" => call'[c].name = call[c].name /\ call'[c].editor = call[c].editor

\* Calls of a kind may end or fail, but none succeeds or is new.
Stays(task) ==
    \A c \in Call :
        /\ UnderWay(c, task)' => UnderWay(c, task) /\ PageSays(c)
        /\ Succeeded(c, task)' => Succeeded(c, task)
        /\ Succeeded(c, task) => call'[c] = call[c]

\* The others do, when one call changes.
LEMMA OthersStay ==
  ASSUME NEW c \in Call, \A d \in Call \ {c} : call'[d] = call[d], NEW task,
         ~UnderWay(c, task), ~UnderWay(c, task)'
  PROVE  Stays(task)
<1> SUFFICES ASSUME NEW d \in Call
             PROVE  /\ UnderWay(d, task)' => UnderWay(d, task) /\ PageSays(d)
                    /\ Succeeded(d, task)' => Succeeded(d, task)
                    /\ Succeeded(d, task) => call'[d] = call[d]
  BY DEF Stays
<1>1. CASE d = c
  BY <1>1 DEF Succeeded, Replied
<1>2. CASE d # c
  <2>1. call'[d] = call[d]
    BY <1>2
  <2> QED BY <2>1 DEF Succeeded, Replied, UnderWay, PageSays
<1> QED BY <1>1, <1>2

LEMMA AllStay == ASSUME UNCHANGED call, NEW task PROVE Stays(task)
BY DEF Stays, UnderWay, PageSays, Succeeded, Replied

\* A call is done.
LEMMA PageDone ==
  ASSUME ProfileTyped, NEW c \in Call, Done(c)
  PROVE  /\ call' \in [Call -> PageCall] /\ call'[c] = None
         /\ \A d \in Call \ {c} : call'[d] = call[d]
         /\ \A task : ~UnderWay(c, task)'
         /\ \A task : ~Succeeded(c, task) => Stays(task)
<1>1. /\ call' \in [Call -> PageCall] /\ call'[c] = None
      /\ \A d \in Call \ {c} : call'[d] = call[d]
  BY DEF ProfileTyped, Done, PageCall
<1>2. \A task : ~UnderWay(c, task)'
  BY <1>1 DEF UnderWay
<1>3. ASSUME NEW task, ~Succeeded(c, task) PROVE Stays(task)
  <2> SUFFICES ASSUME NEW d \in Call
               PROVE  /\ UnderWay(d, task)' => UnderWay(d, task) /\ PageSays(d)
                      /\ Succeeded(d, task)' => Succeeded(d, task)
                      /\ Succeeded(d, task) => call'[d] = call[d]
    BY DEF Stays
  <2>1. CASE d = c
    BY <1>2, <1>3, <2>1 DEF Succeeded, Replied
  <2>2. CASE d # c
    <3>1. call'[d] = call[d]
      BY <1>1, <2>2
    <3> QED BY <3>1 DEF Succeeded, Replied, UnderWay, PageSays
  <2> QED BY <2>1, <2>2
<1> QED BY <1>1, <1>2, <1>3

\* A call is sent.
LEMMA PageSent ==
  ASSUME ProfileTyped, NEW c \in Call, NEW request \in PageRequest,
         Send(c, request), request.reply = None
  PROVE  /\ call' \in [Call -> PageCall] /\ call[c] = None
         /\ call'[c] = request /\ request # None
         /\ \A d \in Call \ {c} : call'[d] = call[d]
         /\ \A task : ~Succeeded(c, task)'
         /\ \A task : task # request.task => Stays(task)
<1>1. request # None
  BY ProfileAssumption DEF PageRequest
<1>2. /\ call' \in [Call -> PageCall] /\ call[c] = None /\ call'[c] = request
      /\ \A d \in Call \ {c} : call'[d] = call[d]
  BY DEF ProfileTyped, Send, PageCall, PageRequest
<1>3. \A task : ~Succeeded(c, task)'
  BY <1>2 DEF Succeeded, Replied
<1>4. ASSUME NEW task, task # request.task PROVE Stays(task)
  <2>1. ~UnderWay(c, task) /\ ~UnderWay(c, task)'
    BY <1>2, <1>4 DEF UnderWay
  <2> QED BY <1>2, <2>1, OthersStay
<1> QED BY <1>1, <1>2, <1>3, <1>4

\* A call is answered, or lost.
LEMMA PageAnswered ==
  ASSUME ProfileTyped, NEW c \in Call, call[c] # None, NEW reply \in PageReply, Reply(c, reply)
  PROVE  /\ call' \in [Call -> PageCall] /\ PageSays(c)
         /\ call'[c].reply = reply /\ reply # None
         /\ \A d \in Call \ {c} : call'[d] = call[d]
         /\ \A task : task # call[c].task => Stays(task)
<1>0. reply # None
  BY ProfileAssumption
<1>1. /\ call'[c] = [call[c] EXCEPT !.reply = reply]
      /\ \A d \in Call \ {c} : call'[d] = call[d]
      /\ call' \in [Call -> PageCall \cup {call'[c]}]
  BY DEF ProfileTyped, Reply, PageCall
<1>2. call'[c] \in PageCall /\ PageSays(c) /\ call'[c].reply = reply
  <2>1. CASE call[c] \in QueryCall
    <3>1. call[c].task \in {"profile", "log", "drafts"}
      BY <2>1 DEF QueryCall
    <3>2. call'[c] \in QueryCall
      BY <1>1, <2>1 DEF QueryCall
    <3>3. /\ call'[c].task = call[c].task /\ call'[c].subject = call[c].subject
          /\ call'[c].reply = reply
      BY <1>1, <2>1 DEF QueryCall
    <3> QED BY <1>0, <3>1, <3>2, <3>3, ProfileAssumption DEF PageCall, PageSays
  <2>2. CASE call[c] \in DiscardCall
    <3>1. call[c].task = "discard"
      BY <2>2 DEF DiscardCall
    <3>2. call'[c] \in DiscardCall
      BY <1>1, <2>2 DEF DiscardCall
    <3>3. /\ call'[c].task = call[c].task /\ call'[c].node = call[c].node
          /\ call'[c].loaded = call[c].loaded /\ call'[c].reply = reply
      BY <1>1, <2>2 DEF DiscardCall
    <3> QED BY <1>0, <3>1, <3>2, <3>3, ProfileAssumption DEF PageCall, PageSays
  <2>3. CASE call[c] \in RenameCall
    <3>1. call[c].task = "rename"
      BY <2>3 DEF RenameCall
    <3>2. call'[c] \in RenameCall
      BY <1>1, <2>3 DEF RenameCall
    <3>3. /\ call'[c].task = call[c].task /\ call'[c].name = call[c].name
          /\ call'[c].editor = call[c].editor /\ call'[c].reply = reply
      BY <1>1, <2>3 DEF RenameCall
    <3> QED BY <1>0, <3>1, <3>2, <3>3, ProfileAssumption DEF PageCall, PageSays
  <2>4. CASE call[c] \in MayRenameCall
    <3>1. call[c].task = "mayRename"
      BY <2>4 DEF MayRenameCall
    <3>2. call'[c] \in MayRenameCall
      BY <1>1, <2>4 DEF MayRenameCall
    <3>3. call'[c].task = call[c].task /\ call'[c].reply = reply
      BY <1>1, <2>4 DEF MayRenameCall
    <3> QED BY <1>0, <3>1, <3>2, <3>3, ProfileAssumption DEF PageCall, PageSays
  <2> QED BY <2>1, <2>2, <2>3, <2>4 DEF ProfileTyped, PageCall
<1>3. call' \in [Call -> PageCall]
  BY <1>1, <1>2
<1>4. ASSUME NEW task, task # call[c].task PROVE Stays(task)
  <2>1. ~UnderWay(c, task) /\ ~UnderWay(c, task)'
    BY <1>2, <1>4 DEF UnderWay, PageSays
  <2> QED BY <1>1, <2>1, OthersStay
<1> QED BY <1>0, <1>1, <1>2, <1>3, <1>4

\* A call that fails does not succeed.
LEMMA PageRefused ==
  ASSUME ProfileTyped, NEW c \in Call, call[c] # None, Reply(c, Refusal),
         \A task : ~Succeeded(c, task)
  PROVE  /\ call' \in [Call -> PageCall]
         /\ \A task : Stays(task)
<1>1. Refusal \in PageReply /\ ~Refusal.ok
  BY DEF Refusal, PageReply
<1>2. /\ call' \in [Call -> PageCall] /\ PageSays(c) /\ call'[c].reply = Refusal
      /\ \A d \in Call \ {c} : call'[d] = call[d]
  BY <1>1, PageAnswered
<1>3. ASSUME NEW task, NEW d \in Call
      PROVE  /\ UnderWay(d, task)' => UnderWay(d, task) /\ PageSays(d)
             /\ Succeeded(d, task)' => Succeeded(d, task)
             /\ Succeeded(d, task) => call'[d] = call[d]
  <2>1. CASE d = c
    <3>1. UnderWay(c, task)' => UnderWay(c, task) /\ PageSays(c)
      BY <1>2 DEF UnderWay, PageSays
    <3>2. ~Succeeded(c, task)' /\ ~Succeeded(c, task)
      BY <1>1, <1>2 DEF Succeeded
    <3> QED BY <2>1, <3>1, <3>2
  <2>2. CASE d # c
    <3>1. call'[d] = call[d]
      BY <1>2, <2>2
    <3> QED BY <3>1 DEF Succeeded, Replied, UnderWay, PageSays
  <2> QED BY <2>1, <2>2
<1> QED BY <1>2, <1>3 DEF Stays

-----------------------------------------------------------------------------
(***************************************************************************)
(* What keeps each part of the invariant.                                  *)
(***************************************************************************)
LEMMA DraftsKept ==
  ASSUME DraftsOnce, Stays("drafts"), UNCHANGED <<waiting, draftNodes>>,
         stored'.drafts = stored.drafts, waiting /\ ~own' => ~own
  PROVE  DraftsOnce'
<1>1. \A c \in Call : UnderWay(c, "drafts")' => UnderWay(c, "drafts")
  BY DEF Stays
<1>2. \A c \in Call : Succeeded(c, "drafts")' =>
            call'[c].reply.drafts = SetToSeq(stored'.drafts)
  BY DEF Stays, DraftsOnce
<1> QED BY <1>1, <1>2 DEF DraftsOnce

LEMMA ListKept ==
  ASSUME DraftsListed, DiscardsListed, Stays("discard"), UNCHANGED draftNodes,
         stored'.drafts = stored.drafts
  PROVE  DraftsListed' /\ DiscardsListed'
<1>1. \A c \in Call : UnderWay(c, "discard")' =>
            /\ UnderWay(c, "discard") /\ call'[c].node = call[c].node
            /\ call'[c].loaded = call[c].loaded /\ (call'[c].reply = None => call[c].reply = None)
  BY DEF Stays, PageSays, UnderWay
<1>2. \A c \in Call : (Succeeded(c, "discard")' <=> Succeeded(c, "discard"))
            /\ (Succeeded(c, "discard") => call'[c] = call[c])
  <2> TAKE c \in Call
  <2>1. Succeeded(c, "discard") => call'[c] = call[c]
    BY DEF Stays
  <2>2. Succeeded(c, "discard") => Succeeded(c, "discard")'
    BY <2>1 DEF Succeeded, Replied, UnderWay
  <2>3. Succeeded(c, "discard")' => Succeeded(c, "discard")
    BY DEF Stays
  <2> QED BY <2>1, <2>2, <2>3
<1>3. DraftsListed'
  BY <1>2 DEF DraftsListed
<1>4. \A c \in Call : Loaded(c)' => Loaded(c)
  BY <1>1 DEF Loaded
<1>5. \A c \in Call : Succeeded(c, "discard")' => Loaded(c)'
  BY <1>2 DEF DiscardsListed, Loaded, UnderWay
<1>6. \A c \in Call : Loaded(c)' => UnderWay(c, "discard")'
  BY DEF Loaded
<1>7. DiscardsListed'
  BY <1>1, <1>2, <1>4, <1>5, <1>6 DEF DiscardsListed
<1> QED BY <1>3, <1>7

\* The editor is the same, and shows the same name.
EditorStays == EditorTyped' /\ alias'.number = alias.number /\ alias'.name = alias.name

LEMMA EditorKept ==
  ASSUME EditorTyped,
         \/ UNCHANGED alias
         \/ \E may : alias' = [alias EXCEPT !.mayEdit = may]
         \/ \E editing : alias' = [alias EXCEPT !.editing = editing]
  PROVE  EditorStays
<1>1. CASE UNCHANGED alias
  BY <1>1 DEF EditorStays, EditorTyped
<1>2. ASSUME NEW may, alias' = [alias EXCEPT !.mayEdit = may] PROVE EditorStays
  BY <1>2 DEF EditorStays, EditorTyped
<1>3. ASSUME NEW editing, alias' = [alias EXCEPT !.editing = editing] PROVE EditorStays
  BY <1>3 DEF EditorStays, EditorTyped
<1> QED BY <1>1, <1>2, <1>3

LEMMA NameKept ==
  ASSUME NameKnown, Stays("rename"), EditorStays, stored'.name = stored.name
  PROVE  NameKnown'
<1>1. \A c \in Call : UnderWay(c, "rename")' =>
            UnderWay(c, "rename") /\ call'[c].editor = call[c].editor
  BY DEF Stays, PageSays, UnderWay
<1>2. \A c \in Call : (Succeeded(c, "rename")' <=> Succeeded(c, "rename"))
            /\ (Succeeded(c, "rename") => call'[c].name = call[c].name)
  <2> TAKE c \in Call
  <2>1. Succeeded(c, "rename") => call'[c] = call[c]
    BY DEF Stays
  <2>2. Succeeded(c, "rename") => Succeeded(c, "rename")'
    BY <2>1 DEF Succeeded, Replied, UnderWay
  <2>3. Succeeded(c, "rename")' => Succeeded(c, "rename")
    BY DEF Stays
  <2> QED BY <2>1, <2>2, <2>3
<1> QED BY <1>1, <1>2 DEF NameKnown, EditorStays

LEMMA NameStays ==
  ASSUME ProfileInv, Stays("rename"), UNCHANGED alias, stored'.name = stored.name
  PROVE  NameKnown'
<1>1. EditorStays
  BY EditorKept DEF ProfileInv, ProfileTyped
<1> QED BY <1>1, NameKept DEF ProfileInv

LEMMA PointsKept ==
  ASSUME PointsTogether, Stays("profile"), Stays("log"), UNCHANGED chart,
         stored'.log = stored.log, 0..stored.old \subseteq 0..stored'.old
  PROVE  PointsTogether'
<1>1. \A c \in Call : Scores(c)' => Scores(c)
  BY DEF Stays, Scores
<1>2. \A c \in Call : UnderWay(c, "log")' =>
            UnderWay(c, "log") /\ call'[c].subject = call[c].subject
  BY DEF Stays, PageSays, UnderWay
<1>3. \A c \in Call : Succeeded(c, "profile")' =>
            Succeeded(c, "profile") /\ call'[c].reply.points = call[c].reply.points
  BY DEF Stays
<1>4. \A c \in Call : Succeeded(c, "log")' =>
            Succeeded(c, "log") /\ call'[c].reply.log = call[c].reply.log
  BY DEF Stays
<1>5. \A before : LogAfter(before)' = LogAfter(before)
  BY DEF LogAfter
<1>6. \A c \in Call : Succeeded(c, "log")' =>
            \E before \in 0..stored'.old : call'[c].reply.log = LogAfter(before)'
  BY <1>4, <1>5 DEF PointsTogether
<1>7. chart' # None =>
        /\ \E before \in 0..stored'.old :
                chart' = ScoreOverTime(LogAfter(before)', Sum(stored'.log))
        /\ \A c \in Call : ~Scores(c)'
  BY <1>1, <1>5 DEF PointsTogether
<1>8. \A c, d \in Call : Scores(c)' /\ Scores(d)' => c = d
  BY <1>1 DEF PointsTogether
<1>9. \A c \in Call : Succeeded(c, "profile")' => call'[c].reply.points = Sum(stored'.log)
  BY <1>3 DEF PointsTogether
<1>10. \A c \in Call : UnderWay(c, "log")' => call'[c].subject.points = Sum(stored'.log)
  BY <1>2 DEF PointsTogether
<1> QED BY <1>6, <1>7, <1>8, <1>9, <1>10 DEF PointsTogether

\* A set in a sequence: each element once.
LEMMA Listing ==
  ASSUME NEW S, IsFiniteSet(S)
  PROVE  SetToSeq(S) \in Seq(S) /\ IsInjective(SetToSeq(S)) /\ Range(SetToSeq(S)) = S
<1> DEFINE n == Cardinality(S)
           s == SetToSeq(S)
<1>1. n \in Nat /\ ExistsBijection(1..n, S)
  BY FS_CardinalityType
<1>2. PICK f : f \in Bijection(1..n, S)
  BY <1>1 DEF ExistsBijection
<1>3. f \in [1..n -> S] /\ IsInjective(f)
  BY <1>2 DEF Bijection, Injection
<1>4. s \in [1..n -> S] /\ IsInjective(s)
  BY <1>3 DEF SetToSeq
<1>5. IsFiniteSet(1..n) /\ Cardinality(1..n) = n
  BY <1>1, FS_Interval
<1> HIDE DEF n, s
<1>6. s \in Injection(1..n, S)
  BY <1>4 DEF Injection
<1>7. Cardinality(1..n) = Cardinality(S)
  BY <1>5 DEF n
<1>8. s \in Surjection(1..n, S)
  BY <1>6, <1>7, FS_Injection
<1>9. Range(s) = S
  BY <1>4, <1>8 DEF Surjection, Range
<1>10. s \in Seq(S)
  BY <1>1, <1>4
<1> QED BY <1>4, <1>9, <1>10 DEF s

\* An element that is in a list once is spliced out, and nothing else.
LEMMA SplicedOut ==
  ASSUME draftNodes \in Seq(Draft), IsInjective(draftNodes), NEW d \in Range(draftNodes)
  PROVE  /\ Spliced(d) \in Seq(Draft) /\ IsInjective(Spliced(d))
         /\ Range(Spliced(d)) = Range(draftNodes) \ {d}
<1> DEFINE s == draftNodes
           n == Len(draftNodes)
           places == {i \in DOMAIN s : s[i] = d}
<1>1. n \in Nat /\ DOMAIN s = 1..n /\ \A i \in 1..n : s[i] \in Draft
  OBVIOUS
<1>2. PICK k \in 1..n : s[k] = d
  BY <1>1 DEF Range
<1>3. places = {k}
  BY <1>1, <1>2 DEF IsInjective
<1>4. (CHOOSE i \in places : \A j \in places : i <= j) = k
  BY <1>1, <1>3
<1>5. s # <<>> /\ places # {}
  BY <1>1, <1>2, <1>3
<1>6. Spliced(d) = RemoveAt(s, k)
  BY <1>4, <1>5 DEF Spliced
<1> DEFINE r == RemoveAt(s, k)
<1>7. /\ SubSeq(s, 1, k - 1) \in Seq(Draft) /\ Len(SubSeq(s, 1, k - 1)) = k - 1
      /\ \A i \in 1..k - 1 : SubSeq(s, 1, k - 1)[i] = s[i]
  <2>1. \A i \in 1..k - 1 : s[i] \in Draft
    BY <1>1, <1>2
  <2> QED BY <1>1, <2>1, SubSeqProperties
<1>8. /\ SubSeq(s, k + 1, n) \in Seq(Draft) /\ Len(SubSeq(s, k + 1, n)) = n - k
      /\ \A i \in 1..n - k : SubSeq(s, k + 1, n)[i] = s[k + i]
  <2>1. \A i \in k + 1..n : s[i] \in Draft
    BY <1>1, <1>2
  <2>2. /\ SubSeq(s, k + 1, n) \in Seq(Draft)
        /\ Len(SubSeq(s, k + 1, n)) = IF k + 1 <= n THEN n - (k + 1) + 1 ELSE 0
        /\ \A i \in 1..n - (k + 1) + 1 : SubSeq(s, k + 1, n)[i] = s[(k + 1) + i - 1]
    BY <1>1, <2>1, SubSeqProperties
  <2>3. n \in Nat /\ k \in 1..n
    BY <1>1, <1>2
  <2> HIDE DEF n, s
  <2>4. n - (k + 1) + 1 = n - k /\ (IF k + 1 <= n THEN n - (k + 1) + 1 ELSE 0) = n - k
    BY <2>3
  <2>5. \A i \in 1..n - k : (k + 1) + i - 1 = k + i
    BY <2>3
  <2> QED BY <2>2, <2>4, <2>5
<1>9. /\ r \in Seq(Draft) /\ Len(r) = n - 1
      /\ \A i \in 1..n - 1 : r[i] = IF i < k THEN s[i] ELSE s[i + 1]
  <2> DEFINE low == SubSeq(s, 1, k - 1)
             high == SubSeq(s, k + 1, n)
  <2>1. r = low \o high
    BY DEF RemoveAt
  <2> HIDE DEF low, high, r, s, n
  <2>2. /\ low \in Seq(Draft) /\ Len(low) = k - 1 /\ high \in Seq(Draft) /\ Len(high) = n - k
        /\ n \in Nat /\ k \in 1..n
    BY <1>1, <1>2, <1>7, <1>8 DEF low, high
  <2>3. /\ low \o high \in Seq(Draft) /\ Len(low \o high) = n - 1
        /\ \A i \in 1..n - 1 : (low \o high)[i] = IF i <= k - 1 THEN low[i] ELSE high[i - (k - 1)]
    <3>1. Len(low) + Len(high) = n - 1
      BY <2>2
    <3>2. /\ low \o high \in Seq(Draft) /\ Len(low \o high) = Len(low) + Len(high)
          /\ \A i \in 1..Len(low) + Len(high) : (low \o high)[i] =
                IF i <= Len(low) THEN low[i] ELSE high[i - Len(low)]
      BY <2>2, ConcatProperties
    <3> QED BY <2>2, <3>1, <3>2
  <2>4. ASSUME NEW i \in 1..n - 1
        PROVE  r[i] = IF i < k THEN s[i] ELSE s[i + 1]
    <3>1. CASE i < k
      <4>1. i \in 1..k - 1 /\ i <= k - 1
        BY <2>2, <3>1
      <4> QED BY <1>7, <2>1, <2>3, <3>1, <4>1 DEF low
    <3>2. CASE ~(i < k)
      <4>1. i - (k - 1) \in 1..n - k /\ k + (i - (k - 1)) = i + 1 /\ ~(i <= k - 1)
        BY <2>2, <3>2
      <4> QED BY <1>8, <2>1, <2>3, <3>2, <4>1 DEF high
    <3> QED BY <3>1, <3>2
  <2> QED BY <2>1, <2>3, <2>4
<1> HIDE DEF r, s, n, places
<1>10. DOMAIN r = 1..n - 1
  BY <1>1, <1>9
<1>11. IsInjective(s)
  BY DEF s
<1>12. IsInjective(r)
  <2> SUFFICES ASSUME NEW i \in 1..n - 1, NEW j \in 1..n - 1, r[i] = r[j]
               PROVE  i = j
    BY <1>10 DEF IsInjective
  <2> DEFINE At(x) == IF x < k THEN x ELSE x + 1
  <2>1. At(i) \in 1..n /\ At(j) \in 1..n /\ r[i] = s[At(i)] /\ r[j] = s[At(j)]
    BY <1>1, <1>9
  <2>2. At(i) = At(j)
    <3> HIDE DEF At
    <3> QED BY <1>1, <1>11, <2>1 DEF IsInjective
  <2> QED BY <1>1, <2>2
<1>13. Range(r) = {r[i] : i \in 1..n - 1} /\ Range(s) = {s[i] : i \in 1..n}
  BY <1>1, <1>10 DEF Range
<1>14. \A i \in 1..n - 1 : r[i] \in Range(s) \ {d}
  <2> TAKE i \in 1..n - 1
  <2> DEFINE j == IF i < k THEN i ELSE i + 1
  <2>1. j \in 1..n /\ j # k /\ r[i] = s[j]
    BY <1>1, <1>9
  <2> HIDE DEF j
  <2>2. s[j] # s[k]
    BY <1>1, <1>2, <1>11, <2>1 DEF IsInjective
  <2> QED BY <1>2, <1>13, <2>1, <2>2
<1>15. \A i \in 1..n : s[i] # d => s[i] \in Range(r)
  <2> SUFFICES ASSUME NEW i \in 1..n, i # k PROVE s[i] \in Range(r)
    BY <1>2
  <2> DEFINE j == IF i < k THEN i ELSE i - 1
  <2>1. j \in 1..n - 1 /\ r[j] = s[i]
    <3>1. CASE i < k
      BY <1>1, <1>9, <3>1
    <3>2. CASE ~(i < k)
      <4>1. i - 1 \in 1..n - 1 /\ ~(i - 1 < k) /\ (i - 1) + 1 = i
        BY <1>1, <3>2
      <4> QED BY <1>9, <3>2, <4>1
    <3> QED BY <3>1, <3>2
  <2> HIDE DEF j
  <2> QED BY <1>13, <2>1
<1>16. Range(r) = Range(s) \ {d}
  BY <1>13, <1>14, <1>15
<1> QED BY <1>6, <1>9, <1>12, <1>16 DEF r, s

\* The sum of a list, and of its two parts.
LEMMA SumParts ==
  ASSUME NEW s \in Seq(Int), NEW m \in 0..Len(s)
  PROVE  /\ Sum(s) \in Int
         /\ Sum(SubSeq(s, 1, m)) \in Int /\ Sum(SubSeq(s, m + 1, Len(s))) \in Int
         /\ Sum(s) = Sum(SubSeq(s, 1, m)) + Sum(SubSeq(s, m + 1, Len(s)))
<1> DEFINE n == Len(s)
           low == SubSeq(s, 1, m)
           high == SubSeq(s, m + 1, n)
<1>1. n \in Nat /\ m \in 0..n /\ DOMAIN s = 1..n /\ \A i \in 1..n : s[i] \in Int
  OBVIOUS
<1>2. \A t : Sum(t) = SumFunctionOnSet(t, DOMAIN t)
  BY DEF Sum, FoldSeq, FoldFunction, SumFunctionOnSet
<1>3. DOMAIN low = 1..m /\ \A i \in 1..m : low[i] = s[i]
  <2>1. \A i \in 1..m : s[i] \in Int
    BY <1>1
  <2>2. /\ low \in Seq(Int) /\ Len(low) = IF 1 <= m THEN m - 1 + 1 ELSE 0
        /\ \A i \in 1..m - 1 + 1 : low[i] = s[1 + i - 1]
    BY <1>1, <2>1, SubSeqProperties
  <2> HIDE DEF low
  <2>3. Len(low) = m /\ m - 1 + 1 = m /\ \A i \in 1..m : 1 + i - 1 = i
    BY <1>1, <2>2
  <2> QED BY <2>2, <2>3
<1>4. DOMAIN high = 1..n - m /\ \A i \in 1..n - m : high[i] = s[m + i]
  <2>1. \A i \in m + 1..n : s[i] \in Int
    BY <1>1
  <2>2. /\ high \in Seq(Int) /\ Len(high) = IF m + 1 <= n THEN n - (m + 1) + 1 ELSE 0
        /\ \A i \in 1..n - (m + 1) + 1 : high[i] = s[(m + 1) + i - 1]
    BY <1>1, <2>1, SubSeqProperties
  <2> HIDE DEF high, n
  <2>3. Len(high) = n - m /\ n - (m + 1) + 1 = n - m /\ \A i \in 1..n - m : (m + 1) + i - 1 = m + i
    BY <1>1, <2>2
  <2> QED BY <2>2, <2>3
<1> HIDE DEF low, high, n
<1>5. Sum(low) = SumFunctionOnSet(s, 1..m)
  <2>1. \A i \in 1..m : low[i] \in Int /\ s[i] = low[i]
    BY <1>1, <1>3
  <2>2. Summable(low, 1..m)
    BY <1>1, <2>1, SummableInterval
  <2>3. SumFunctionOnSet(low, 1..m) = SumFunctionOnSet(s, 1..m)
    BY <2>1, <2>2, SumSame
  <2> QED BY <1>2, <1>3, <2>3
<1>6. Sum(high) = SumFunctionOnSet(s, m + 1..n)
  <2>1. \A i \in 1..n - m : high[i] \in Int /\ s[m + i] = high[i]
    BY <1>1, <1>4
  <2>2. SumFunctionOnSet(high, 1..n - m) = SumFunctionOnSet(s, m + 1..m + (n - m))
    BY <1>1, <2>1, SumShift
  <2>3. m + (n - m) = n
    BY <1>1
  <2> QED BY <1>2, <1>4, <2>2, <2>3
<1>7. /\ SumFunctionOnSet(s, 1..n) = SumFunctionOnSet(s, 1..m) + SumFunctionOnSet(s, m + 1..n)
      /\ SumFunctionOnSet(s, 1..m) \in Int /\ SumFunctionOnSet(s, m + 1..n) \in Int
  BY <1>1, SumSplit
<1>8. Sum(s) = SumFunctionOnSet(s, 1..n)
  BY <1>1, <1>2
<1>9. Sum(s) \in Int /\ Sum(low) \in Int /\ Sum(high) \in Int /\ Sum(s) = Sum(low) + Sum(high)
  BY <1>5, <1>6, <1>7, <1>8
<1> QED BY <1>9 DEF low, high, n

\* The end of the end of a list is its end.
LEMMA EndOfEnd ==
  ASSUME NEW s \in Seq(Int), NEW m \in 0..Len(s), NEW k \in 0..Len(s) - m
  PROVE  /\ SubSeq(s, m + 1, Len(s)) \in Seq(Int) /\ Len(SubSeq(s, m + 1, Len(s))) = Len(s) - m
         /\ SubSeq(SubSeq(s, m + 1, Len(s)), k + 1, Len(s) - m) = SubSeq(s, (m + k) + 1, Len(s))
<1> DEFINE n == Len(s)
           high == SubSeq(s, m + 1, n)
<1>1. n \in Nat /\ m \in 0..n /\ k \in 0..n - m /\ \A i \in 1..n : s[i] \in Int
  OBVIOUS
<1>2. ASSUME NEW t \in Seq(Int), NEW l \in Nat, l = Len(t), NEW o \in 0..l
      PROVE  /\ SubSeq(t, o + 1, l) \in Seq(Int) /\ Len(SubSeq(t, o + 1, l)) = l - o
             /\ \A i \in 1..l - o : SubSeq(t, o + 1, l)[i] = t[o + i]
  <2>1. o + 1 \in Int /\ l \in Int /\ \A i \in o + 1..l : t[i] \in Int
    BY <1>2
  <2>2. /\ SubSeq(t, o + 1, l) \in Seq(Int)
        /\ Len(SubSeq(t, o + 1, l)) = IF o + 1 <= l THEN l - (o + 1) + 1 ELSE 0
        /\ \A i \in 1..l - (o + 1) + 1 : SubSeq(t, o + 1, l)[i] = t[(o + 1) + i - 1]
    BY <2>1, SubSeqProperties
  <2>3. /\ l - (o + 1) + 1 = l - o /\ (IF o + 1 <= l THEN l - (o + 1) + 1 ELSE 0) = l - o
        /\ \A i \in 1..l - o : (o + 1) + i - 1 = o + i
    BY <1>2
  <2> QED BY <2>2, <2>3
<1>3. /\ high \in Seq(Int) /\ Len(high) = n - m /\ n - m \in Nat
      /\ \A i \in 1..n - m : high[i] = s[m + i]
  BY <1>1, <1>2
<1> HIDE DEF high, n
<1> DEFINE left == SubSeq(high, k + 1, n - m)
           right == SubSeq(s, (m + k) + 1, n)
<1>4. /\ left \in Seq(Int) /\ Len(left) = (n - m) - k
      /\ \A i \in 1..(n - m) - k : left[i] = high[k + i]
  BY <1>1, <1>2, <1>3
<1>5. /\ right \in Seq(Int) /\ Len(right) = n - (m + k)
      /\ \A i \in 1..n - (m + k) : right[i] = s[(m + k) + i]
  <2>1. s \in Seq(Int) /\ n = Len(s) /\ m + k \in 0..n
    BY <1>1 DEF n
  <2> QED BY <1>1, <1>2, <2>1
<1> HIDE DEF left, right
<1>6. Len(left) = Len(right)
  BY <1>1, <1>4, <1>5
<1>7. ASSUME NEW i \in 1..Len(left) PROVE left[i] = right[i]
  <2>1. /\ i \in 1..(n - m) - k /\ i \in 1..n - (m + k) /\ k + i \in 1..n - m
        /\ m + (k + i) = (m + k) + i
    BY <1>1, <1>4
  <2>2. left[i] = high[k + i] /\ high[k + i] = s[m + (k + i)] /\ right[i] = s[(m + k) + i]
    BY <1>3, <1>4, <1>5, <2>1
  <2> QED BY <2>1, <2>2
<1>8. left = right
  BY <1>4, <1>5, <1>6, <1>7, SeqEqual
<1> QED BY <1>3, <1>8 DEF left, right, high, n

\* Backwards from the sum, through the last votes, is the same as forwards from nothing.
LEMMA ForwardsIsBackwards ==
  ASSUME NEW log \in Seq(Int), NEW before \in 0..Len(log)
  PROVE  ScoreOverTime(SubSeq(log, before + 1, Len(log)), Sum(log)) =
            [i \in 1..Len(log) - before + 1 |->
                Sum(SubSeq(log, 1, IF before + i > Len(log) THEN Len(log) ELSE before + i))]
<1> DEFINE n == Len(log)
           rest == SubSeq(log, before + 1, n)
           Forwards(i) == Sum(SubSeq(log, 1, IF before + i > n THEN n ELSE before + i))
<1>1. n \in Nat /\ before \in 0..n
  OBVIOUS
<1>2. rest \in Seq(Int) /\ Len(rest) = n - before
  <2>1. 0 \in 0..n - before
    BY <1>1
  <2> QED BY <1>1, <2>1, EndOfEnd
<1>3. ASSUME NEW i \in 1..n - before + 1
      PROVE  Sum(log) - Sum(SubSeq(rest, i + 1, n - before)) = Forwards(i)
  <2>1. CASE i \in 1..n - before
    <3>1. before + i \in 0..n /\ i \in 0..n - before
      BY <1>1, <2>1
    <3>2. /\ Sum(SubSeq(log, 1, before + i)) \in Int
          /\ Sum(SubSeq(log, (before + i) + 1, n)) \in Int
          /\ Sum(log) = Sum(SubSeq(log, 1, before + i)) + Sum(SubSeq(log, (before + i) + 1, n))
      BY <1>1, <3>1, SumParts
    <3>3. SubSeq(rest, i + 1, n - before) = SubSeq(log, (before + i) + 1, n)
      BY <1>1, <3>1, EndOfEnd
    <3>4. (IF before + i > n THEN n ELSE before + i) = before + i
      BY <1>1, <3>1
    <3> HIDE DEF n, rest
    <3>5. Sum(log) - Sum(SubSeq(log, (before + i) + 1, n)) = Sum(SubSeq(log, 1, before + i))
      BY <3>2
    <3> QED BY <3>3, <3>4, <3>5
  <2>2. CASE i = n - before + 1
    <3>1. /\ Sum(SubSeq(log, 1, n)) \in Int /\ Sum(SubSeq(log, n + 1, n)) \in Int
          /\ Sum(log) = Sum(SubSeq(log, 1, n)) + Sum(SubSeq(log, n + 1, n))
      BY <1>1, SumParts
    <3>2. SubSeq(log, n + 1, n) = <<>> /\ SubSeq(rest, i + 1, n - before) = <<>>
      BY <1>1, <1>2, <2>2, SubSeqEmpty
    <3>3. (IF before + i > n THEN n ELSE before + i) = n
      BY <1>1, <2>2
    <3> HIDE DEF n, rest
    <3>4. Sum(log) - Sum(SubSeq(log, n + 1, n)) = Sum(SubSeq(log, 1, n))
      BY <3>1
    <3> QED BY <3>2, <3>3, <3>4
  <2> QED BY <1>1, <1>3, <2>1, <2>2
<1>4. ScoreOverTime(rest, Sum(log)) =
        [i \in 1..Len(rest) + 1 |-> Sum(log) - Sum(SubSeq(rest, i + 1, Len(rest)))]
  BY DEF ScoreOverTime
<1> HIDE DEF rest, n, Forwards
<1>5. ScoreOverTime(rest, Sum(log)) =
        [i \in 1..n - before + 1 |-> Sum(log) - Sum(SubSeq(rest, i + 1, n - before))]
  BY <1>2, <1>4
<1>6. ScoreOverTime(rest, Sum(log)) = [i \in 1..n - before + 1 |-> Forwards(i)]
  BY <1>3, <1>5
<1> QED BY <1>6 DEF rest, n, Forwards

-----------------------------------------------------------------------------
(***************************************************************************)
(* The page of an author: every step keeps the invariant.                  *)
(***************************************************************************)

\* A call is of one task.
LEMMA OneTask ==
  ASSUME NEW c, NEW task, Succeeded(c, task), NEW other, other # task
  PROVE  ~Succeeded(c, other) /\ ~UnderWay(c, other)
BY DEF Succeeded, Replied, UnderWay

\* Steps that leave what is shown and stored.
LEMMA NothingShown ==
  ASSUME ProfileInv, call' \in [Call -> PageCall], \A task : Stays(task), EditorStays,
         UNCHANGED <<stored, waiting, draftNodes, chart>>, waiting /\ ~own' => ~own
  PROVE  ProfileInv'
<1>1. ProfileTyped'
  BY DEF ProfileInv, ProfileTyped, EditorStays
<1>2. DraftsOnce'
  BY DraftsKept DEF ProfileInv
<1>3. DraftsListed' /\ DiscardsListed'
  BY ListKept DEF ProfileInv
<1>4. NameKnown'
  BY NameKept DEF ProfileInv
<1>5. PointsTogether'
  BY PointsKept DEF ProfileInv
<1> QED BY <1>1, <1>2, <1>3, <1>4, <1>5 DEF ProfileInv

LEMMA NothingElse ==
  ASSUME ProfileInv, call' \in [Call -> PageCall], \A task : Stays(task),
         UNCHANGED <<stored, waiting, draftNodes, chart, alias>>, waiting /\ ~own' => ~own
  PROVE  ProfileInv'
<1>1. EditorStays
  BY EditorKept DEF ProfileInv, ProfileTyped
<1> QED BY <1>1, NothingShown

LEMMA OnPageInv ==
  ASSUME ProfileInv, ProfilePatiently, LogOut \/ StartEditingAlias \/ CancelAlias
  PROVE  ProfileInv'
<1>1. /\ UNCHANGED <<call, stored, waiting, draftNodes, chart>>
      /\ UNCHANGED alias \/ \E editing : alias' = [alias EXCEPT !.editing = editing]
  BY DEF LogOut, StartEditingAlias, CancelAlias
<1>2. waiting /\ ~own' => ~own
  BY DEF ProfilePatiently
<1>3. call' \in [Call -> PageCall]
  BY <1>1 DEF ProfileInv, ProfileTyped
<1>4. \A task : Stays(task)
  BY <1>1, AllStay
<1>5. EditorStays
  BY <1>1, EditorKept DEF ProfileInv, ProfileTyped
<1> QED BY <1>1, <1>2, <1>3, <1>4, <1>5, NothingShown

LEMMA PageFailsInv ==
  ASSUME ProfileInv, NEW c \in Call, NEW task, ProfileFails(c, task) PROVE ProfileInv'
<1>1. ProfileTyped /\ Done(c)
  BY DEF ProfileInv, ProfileFails
<1>2. \A t : ~Succeeded(c, t)
  BY DEF ProfileFails, Failed, Succeeded
<1>3. call' \in [Call -> PageCall] /\ \A t : Stays(t)
  BY <1>1, <1>2, PageDone
<1> QED BY <1>3, NothingElse DEF ProfileFails

LEMMA PageLosesInv ==
  ASSUME ProfileInv, ProfilePatiently, NEW c \in Call, LoseQuery(c) PROVE ProfileInv'
<1>1. ProfileTyped /\ call[c] # None /\ call[c].reply # Refusal /\ Reply(c, Refusal)
  BY DEF ProfileInv, LoseQuery, Lose
<1>2. Refusal \in PageReply
  BY DEF Refusal, PageReply
<1>3. call'[c] # None /\ call'[c].reply = Refusal
  BY <1>1, <1>2, PageAnswered DEF PageSays
<1>4. call[c].reply = None
  BY <1>1, <1>3 DEF ProfilePatiently, LostUnserved, Fails
<1>5. \A t : ~Succeeded(c, t)
  BY <1>4 DEF Succeeded, Replied
<1>6. call' \in [Call -> PageCall] /\ \A t : Stays(t)
  BY <1>1, <1>5, PageRefused
<1> QED BY <1>6, NothingElse DEF LoseQuery

LEMMA LogInInv == ASSUME ProfileInv, NEW c \in Call, LogIn(c) PROVE ProfileInv'
<1>0. /\ ProfileTyped /\ ~own /\ own'
      /\ UNCHANGED <<stored, waiting, draftNodes, chart, alias>>
  BY DEF ProfileInv, LogIn
<1>1. CASE ~waiting
  <2>1. UNCHANGED call
    BY <1>1 DEF LogIn
  <2>2. call' \in [Call -> PageCall] /\ \A t : Stays(t)
    BY <1>0, <2>1, AllStay DEF ProfileTyped, PageCall, EditorTyped
  <2> QED BY <1>0, <2>2, NothingElse
<1>2. CASE waiting
  <2>1. Send(c, Page("drafts"))
    BY <1>2 DEF LogIn
  <2>2. /\ Page("drafts") \in PageRequest /\ Page("drafts").task = "drafts"
        /\ Page("drafts").reply = None
    BY DEF Page, QueryCall, PageRequest
  <2>3. /\ call' \in [Call -> PageCall] /\ call[c] = None
        /\ \A d \in Call \ {c} : call'[d] = call[d]
        /\ \A t : ~Succeeded(c, t)'
        /\ \A t : t # "drafts" => Stays(t)
    <3> HIDE DEF Page
    <3> QED BY <1>0, <2>1, <2>2, PageSent
  <2>4. ProfileTyped'
    BY <1>0, <2>3 DEF ProfileTyped, PageCall, EditorTyped
  <2>5. draftNodes = <<>> /\ \A d \in Call : ~UnderWay(d, "drafts")
    BY <1>0, <1>2 DEF ProfileInv, DraftsOnce
  <2>6. \A d \in Call \ {c} : ~UnderWay(d, "drafts")'
    BY <2>3, <2>5 DEF UnderWay
  <2>7. \A d \in Call : ~Succeeded(d, "drafts")'
    BY <2>3, <2>6 DEF Succeeded, Replied
  <2>8. DraftsOnce'
    BY <1>0, <2>5, <2>6, <2>7 DEF DraftsOnce
  <2>9. DraftsListed' /\ DiscardsListed'
    BY <1>0, <2>3, ListKept DEF ProfileInv
  <2>10. NameKnown'
    BY <1>0, <2>3, NameStays DEF ProfileInv
  <2>11. PointsTogether'
    BY <1>0, <2>3, PointsKept DEF ProfileInv
  <2> QED BY <2>4, <2>8, <2>9, <2>10, <2>11 DEF ProfileInv
<1> QED BY <1>1, <1>2

LEMMA DiscardListedInv ==
  ASSUME ProfileInv, NEW c \in Call, NEW i \in DOMAIN draftNodes, DiscardListed(c, i)
  PROVE  ProfileInv'
<1> DEFINE request ==
            [task |-> "discard", node |-> draftNodes[i], loaded |-> FALSE, reply |-> None]
<1>1. /\ ProfileTyped /\ Send(c, request)
      /\ UNCHANGED <<stored, own, waiting, draftNodes, chart, alias>>
  BY DEF ProfileInv, DiscardListed
<1>2. draftNodes[i] \in Draft /\ draftNodes[i] \in Range(draftNodes)
  BY <1>1 DEF ProfileTyped, Range
<1>3. /\ request \in PageRequest /\ request.task = "discard" /\ request.reply = None
      /\ request.node = draftNodes[i] /\ request.loaded = FALSE
  BY <1>2 DEF DiscardCall, PageRequest
<1> HIDE DEF request
<1>4. /\ call' \in [Call -> PageCall] /\ call'[c] = request
      /\ \A d \in Call \ {c} : call'[d] = call[d]
      /\ \A t : ~Succeeded(c, t)'
      /\ \A t : t # "discard" => Stays(t)
  BY <1>1, <1>3, PageSent
<1>5. ProfileTyped'
  BY <1>1, <1>4 DEF ProfileTyped, PageCall, EditorTyped
<1>6. DraftsOnce' /\ NameKnown' /\ PointsTogether'
  BY <1>1, <1>4, DraftsKept, NameStays, PointsKept DEF ProfileInv
<1>7. \A d \in Call \ {c} : /\ UnderWay(d, "discard")' <=> UnderWay(d, "discard")
                            /\ Succeeded(d, "discard")' <=> Succeeded(d, "discard")
  BY <1>4 DEF UnderWay, Succeeded, Replied
<1>8. ~Succeeded(c, "discard")
  <2>1. call[c] = None
    BY <1>1 DEF Send
  <2> QED BY <2>1 DEF Succeeded, Replied, UnderWay
<1>9. DraftsListed'
  BY <1>1, <1>4, <1>7, <1>8 DEF ProfileInv, DraftsListed
<1>10. ~Loaded(c)' /\ \A d \in Call \ {c} : Loaded(d)' <=> Loaded(d)
  BY <1>3, <1>4, <1>7 DEF Loaded
<1>11. DiscardsListed'
  BY <1>1, <1>2, <1>3, <1>4, <1>7, <1>10 DEF ProfileInv, DiscardsListed
<1> QED BY <1>5, <1>6, <1>9, <1>11 DEF ProfileInv

LEMMA SaveAliasInv ==
  ASSUME ProfileInv, ProfilePatiently, NEW c \in Call, NEW name \in Name, SaveAlias(c, name)
  PROVE  ProfileInv'
<1> DEFINE request ==
            [task |-> "rename", name |-> name, editor |-> alias.number, reply |-> None]
<1>1. /\ ProfileTyped /\ Send(c, request)
      /\ UNCHANGED <<stored, own, waiting, draftNodes, chart>>
      /\ alias' = [alias EXCEPT !.editing = FALSE]
  BY DEF ProfileInv, SaveAlias
<1>2. EditorStays /\ alias.number \in Nat
  BY <1>1, EditorKept DEF ProfileTyped, EditorTyped
<1>3. /\ request \in PageRequest /\ request.task = "rename" /\ request.reply = None
      /\ request.editor = alias.number
  BY <1>2 DEF RenameCall, PageRequest
<1> HIDE DEF request
<1>4. /\ call' \in [Call -> PageCall] /\ call'[c] = request /\ request # None
      /\ \A d \in Call \ {c} : call'[d] = call[d]
      /\ \A t : ~Succeeded(c, t)'
      /\ \A t : t # "rename" => Stays(t)
  BY <1>1, <1>3, PageSent
<1>5. ProfileTyped'
  BY <1>1, <1>2, <1>4 DEF ProfileTyped, EditorStays
<1>6. DraftsOnce' /\ PointsTogether' /\ DraftsListed' /\ DiscardsListed'
  BY <1>1, <1>4, DraftsKept, ListKept, PointsKept DEF ProfileInv
<1>7. \A d \in Call \ {c} : ~UnderWay(d, "rename")'
  BY <1>3, <1>4 DEF ProfilePatiently, Together, UnderWay
<1>8. \A d \in Call : ~Succeeded(d, "rename")'
  BY <1>4, <1>7 DEF Succeeded, Replied
<1>9. \A d \in Call : ~Succeeded(d, "rename")
  <2>1. call[c] = None
    BY <1>1 DEF Send
  <2>2. \A d \in Call \ {c} : ~Succeeded(d, "rename")
    BY <1>4, <1>7 DEF Succeeded, Replied, UnderWay
  <2> QED BY <2>1, <2>2 DEF Succeeded, Replied, UnderWay
<1>10. alias.name = stored.name
  BY <1>9 DEF ProfileInv, NameKnown
<1>11. \A d \in Call : UnderWay(d, "rename")' => d = c /\ call'[d].editor = alias'.number
  BY <1>2, <1>3, <1>4, <1>7 DEF EditorStays
<1>12. NameKnown'
  BY <1>1, <1>2, <1>8, <1>10, <1>11 DEF NameKnown, EditorStays
<1> QED BY <1>5, <1>6, <1>12 DEF ProfileInv

\* A new editor shows the name that the server has.
LEMMA ShowEditorInv ==
  ASSUME ProfileInv, ProfilePatiently, NEW c \in Call, ShowEditor(c)
  PROVE  ProfileInv'
<1> DEFINE request == AskMayRename(alias.number + 1)
<1>1. /\ ProfileTyped /\ Send(c, request) /\ own'
      /\ UNCHANGED <<stored, waiting, draftNodes, chart>>
      /\ alias' = Editor(alias.number + 1)
  BY DEF ProfileInv, ShowEditor
<1>2. /\ alias.number \in Nat /\ EditorTyped' /\ alias'.number # alias.number
      /\ alias'.name = stored.name
  BY <1>1 DEF ProfileTyped, EditorTyped, Editor
<1>3. /\ request \in PageRequest /\ request.task = "mayRename" /\ request.reply = None
  BY <1>2 DEF MayRenameCall, AskMayRename, PageRequest
<1> HIDE DEF request
<1>4. /\ call' \in [Call -> PageCall] /\ call'[c] = request
      /\ \A d \in Call \ {c} : call'[d] = call[d]
      /\ \A t : t # "mayRename" => Stays(t)
  BY <1>1, <1>3, PageSent
<1>5. ProfileTyped'
  BY <1>1, <1>2, <1>4 DEF ProfileTyped
<1>6. DraftsOnce' /\ PointsTogether' /\ DraftsListed' /\ DiscardsListed'
  BY <1>1, <1>4, DraftsKept, ListKept, PointsKept DEF ProfileInv
<1>7. \A d \in Call : ~UnderWay(d, "rename")'
  BY <1>2, <1>4 DEF ProfilePatiently, Stays
<1>8. \A d \in Call : ~Succeeded(d, "rename")'
  BY <1>7 DEF Succeeded, Replied
<1>9. NameKnown'
  BY <1>1, <1>2, <1>7, <1>8 DEF NameKnown
<1> QED BY <1>5, <1>6, <1>9 DEF ProfileInv

LEMMA DraftsArriveInv ==
  ASSUME ProfileInv, NEW c \in Call, DraftsArrive(c) PROVE ProfileInv'
<1>1. /\ ProfileTyped /\ Succeeded(c, "drafts") /\ Done(c)
      /\ draftNodes' = draftNodes \o call[c].reply.drafts
      /\ UNCHANGED <<stored, own, waiting, chart, alias>>
  BY DEF ProfileInv, DraftsArrive
<1>2. /\ call' \in [Call -> PageCall] /\ call'[c] = None
      /\ \A d \in Call \ {c} : call'[d] = call[d]
      /\ \A t : ~UnderWay(c, t)'
      /\ \A t : t # "drafts" => Stays(t)
  <2>1. \A t : t # "drafts" => ~Succeeded(c, t)
    BY <1>1, OneTask
  <2> QED BY <1>1, <2>1, PageDone
<1>3. UnderWay(c, "drafts")
  BY <1>1 DEF Succeeded, Replied
<1>4. draftNodes = <<>> /\ call[c].reply.drafts = SetToSeq(stored.drafts)
  BY <1>1, <1>3 DEF ProfileInv, DraftsOnce
<1>5. stored.drafts \in SUBSET Draft /\ IsFiniteSet(stored.drafts)
  BY <1>1, ProfileAssumption, FS_Subset DEF ProfileTyped, StoredType
<1>6. /\ SetToSeq(stored.drafts) \in Seq(stored.drafts) /\ IsInjective(SetToSeq(stored.drafts))
      /\ Range(SetToSeq(stored.drafts)) = stored.drafts
  BY <1>5, Listing
<1>7. SetToSeq(stored.drafts) \in Seq(Draft)
  BY <1>5, <1>6
<1>8. draftNodes' = SetToSeq(stored.drafts)
  BY <1>1, <1>4, <1>7
<1>9. draftNodes' \in Seq(Draft) /\ IsInjective(draftNodes') /\ Range(draftNodes') = stored.drafts
  BY <1>6, <1>7, <1>8
<1>10. ProfileTyped'
  BY <1>1, <1>2, <1>9 DEF ProfileTyped, PageCall, EditorTyped
<1>11. DraftsOnce'
  <2>1. \A d \in Call : ~UnderWay(d, "drafts")'
    <3> TAKE d \in Call
    <3>1. CASE d = c
      BY <1>2, <3>1
    <3>2. CASE d # c
      <4>1. ~UnderWay(d, "drafts")
        BY <1>3, <3>2 DEF ProfileInv, DraftsOnce
      <4> QED BY <1>2, <3>2, <4>1 DEF UnderWay
    <3> QED BY <3>1, <3>2
  <2>2. \A d \in Call : ~Succeeded(d, "drafts")'
    BY <2>1 DEF Succeeded, Replied
  <2>3. ~(waiting' /\ ~own')
    BY <1>1, <1>3 DEF ProfileInv, DraftsOnce
  <2> QED BY <2>1, <2>2, <2>3 DEF DraftsOnce
<1>12. Range(draftNodes) = {}
  BY <1>4 DEF Range
<1>13. \A d \in Call : ~Succeeded(d, "discard") /\ ~Succeeded(d, "discard")'
  BY <1>2, <1>12 DEF ProfileInv, DiscardsListed, Stays
<1>14. DraftsListed'
  BY <1>1, <1>9 DEF DraftsListed
<1>15. \A d \in Call : Loaded(d)' =>
            /\ Loaded(d) /\ call'[d].node = call[d].node
            /\ call'[d].reply = None => call[d].reply = None
  BY <1>2 DEF Stays, PageSays, Loaded, UnderWay
<1>16. \A d \in Call : Loaded(d)' /\ call'[d].reply = None => call'[d].node \in stored'.drafts
  BY <1>1, <1>15 DEF ProfileInv, DiscardsListed
<1>17. \A d, e \in Call : Loaded(d)' /\ Loaded(e)' /\ call'[d].node = call'[e].node => d = e
  BY <1>15 DEF ProfileInv, DiscardsListed
<1>18. DiscardsListed'
  BY <1>1, <1>9, <1>13, <1>16, <1>17 DEF DiscardsListed
<1>19. NameKnown' /\ PointsTogether'
  BY <1>1, <1>2, NameStays, PointsKept DEF ProfileInv
<1> QED BY <1>10, <1>11, <1>14, <1>18, <1>19 DEF ProfileInv

LEMMA DiscardedArrivesInv ==
  ASSUME ProfileInv, NEW c \in Call, DiscardedArrives(c) PROVE ProfileInv'
<1> DEFINE gone == call[c].node
<1>1. /\ ProfileTyped /\ Succeeded(c, "discard") /\ Done(c)
      /\ draftNodes' = Spliced(gone)
      /\ UNCHANGED <<stored, own, waiting, chart, alias>>
  BY DEF ProfileInv, DiscardedArrives
<1> HIDE DEF gone
<1>2. /\ call' \in [Call -> PageCall] /\ call'[c] = None
      /\ \A d \in Call \ {c} : call'[d] = call[d]
      /\ \A t : ~UnderWay(c, t)'
      /\ \A t : t # "discard" => Stays(t)
  <2>1. \A t : t # "discard" => ~Succeeded(c, t)
    BY <1>1, OneTask
  <2> QED BY <1>1, <2>1, PageDone
<1>3. gone \in Range(draftNodes) /\ ~(gone \in stored.drafts) /\ Loaded(c)
  BY <1>1 DEF ProfileInv, DiscardsListed, gone
<1>4. /\ draftNodes' \in Seq(Draft) /\ IsInjective(draftNodes')
      /\ Range(draftNodes') = Range(draftNodes) \ {gone}
  BY <1>1, <1>3, SplicedOut DEF ProfileInv, ProfileTyped, DraftsListed
<1>5. ProfileTyped'
  BY <1>1, <1>2, <1>4 DEF ProfileTyped, PageCall, EditorTyped
<1>6. draftNodes # <<>>
  BY <1>3 DEF Range
<1>7. DraftsOnce'
  <2>1. \A d \in Call : ~UnderWay(d, "drafts")
    BY <1>6 DEF ProfileInv, DraftsOnce
  <2>2. \A d \in Call : ~UnderWay(d, "drafts")'
    BY <1>2, <2>1 DEF Stays
  <2>3. \A d \in Call : ~Succeeded(d, "drafts")'
    BY <2>2 DEF Succeeded, Replied
  <2>4. ~(waiting' /\ ~own')
    BY <1>1, <1>6 DEF ProfileInv, DraftsOnce
  <2> QED BY <2>2, <2>3, <2>4 DEF DraftsOnce
<1>8. \A d \in Call \ {c} : /\ UnderWay(d, "discard")' <=> UnderWay(d, "discard")
                            /\ Succeeded(d, "discard")' <=> Succeeded(d, "discard")
  BY <1>2 DEF UnderWay, Succeeded, Replied
<1>9. ~Succeeded(c, "discard")'
  BY <1>2 DEF Succeeded, Replied
<1>10. DraftsListed'
  <2>1. stored'.drafts \subseteq Range(draftNodes')
    BY <1>1, <1>3, <1>4, <1>6 DEF ProfileInv, DraftsListed
  <2>2. ASSUME NEW d \in Range(draftNodes') \ stored'.drafts
        PROVE  \E e \in Call : Succeeded(e, "discard")' /\ call'[e].node = d
    <3>1. d \in Range(draftNodes) \ stored.drafts /\ d # gone
      BY <1>1, <1>4
    <3>2. PICK e \in Call : Succeeded(e, "discard") /\ call[e].node = d
      BY <3>1 DEF ProfileInv, DraftsListed
    <3>3. e # c
      BY <3>1, <3>2 DEF gone
    <3> QED BY <1>2, <1>8, <3>2, <3>3
  <2> QED BY <1>4, <2>1, <2>2 DEF DraftsListed
<1>11. DiscardsListed'
  <2>1. ASSUME NEW d \in Call, UnderWay(d, "discard")', call'[d].node \in stored'.drafts
        PROVE  call'[d].node \in Range(draftNodes')
    <3>1. d # c
      BY <1>2, <2>1
    <3>2. UnderWay(d, "discard") /\ call[d].node \in stored.drafts /\ call'[d].node = call[d].node
      BY <1>1, <1>2, <1>8, <2>1, <3>1
    <3>3. call[d].node \in Range(draftNodes)
      BY <3>2 DEF ProfileInv, DiscardsListed
    <3> QED BY <1>3, <1>4, <3>2, <3>3
  <2>2. ~Loaded(c)' /\ \A d \in Call \ {c} : Loaded(d)' <=> Loaded(d)
    BY <1>2, <1>8 DEF Loaded
  <2>3. ASSUME NEW d \in Call, Succeeded(d, "discard")'
        PROVE  d # c /\ Loaded(d)' /\ call'[d].node \in Range(draftNodes') \ stored'.drafts
    <3>1. d # c
      BY <1>9, <2>3
    <3>2. Succeeded(d, "discard") /\ call'[d].node = call[d].node
      BY <1>2, <1>8, <2>3, <3>1
    <3>3. Loaded(d)
      BY <3>2 DEF ProfileInv, DiscardsListed
    <3>4. call[d].node # gone
      BY <1>3, <3>1, <3>3 DEF ProfileInv, DiscardsListed, gone
    <3>5. call[d].node \in Range(draftNodes) \ stored.drafts
      BY <3>2 DEF ProfileInv, DiscardsListed
    <3> QED BY <1>1, <1>4, <2>2, <3>1, <3>2, <3>3, <3>4, <3>5
  <2>4. \A d \in Call : Loaded(d)' /\ call'[d].reply = None => call'[d].node \in stored'.drafts
    BY <1>1, <1>2, <2>2 DEF ProfileInv, DiscardsListed
  <2>5. \A d, e \in Call : Loaded(d)' /\ Loaded(e)' /\ call'[d].node = call'[e].node => d = e
    BY <1>2, <2>2 DEF ProfileInv, DiscardsListed
  <2> QED BY <2>1, <2>3, <2>4, <2>5 DEF DiscardsListed
<1>12. NameKnown' /\ PointsTogether'
  BY <1>1, <1>2, NameStays, PointsKept DEF ProfileInv
<1> QED BY <1>5, <1>7, <1>10, <1>11, <1>12 DEF ProfileInv

\* The log is one of numbers.
LEMMA LogTyped ==
  ASSUME ProfileTyped
  PROVE  stored.log \in Seq(Steps) /\ stored.log \in Seq(Int)
<1>1. stored.log \in Seq(Steps)
  BY DEF ProfileTyped, StoredType
<1>2. Steps \subseteq Int
  BY ProfileAssumption
<1> QED BY <1>1, <1>2, SeqMonotonic

LEMMA ProfileArrivesInv ==
  ASSUME ProfileInv, NEW c \in Call, ProfileArrives(c) PROVE ProfileInv'
<1> DEFINE next == [task |-> "log", subject |-> call[c].reply, reply |-> None]
<1>1. /\ ProfileTyped /\ Succeeded(c, "profile") /\ call' = [call EXCEPT ![c] = next]
      /\ UNCHANGED <<stored, own, waiting, draftNodes, chart, alias>>
  BY DEF ProfileInv, ProfileArrives
<1>2. UnderWay(c, "profile") /\ call[c].reply \in PageReply
  <2>1. call[c] # None /\ call[c].reply # None
    BY <1>1 DEF Succeeded, Replied, UnderWay
  <2> QED BY <1>1, <2>1, PageKinds DEF Succeeded, Replied
<1>3. /\ next \in QueryCall /\ next.task = "log" /\ next.reply = None
      /\ next.subject = call[c].reply /\ next # None
  <2>1. next \in QueryCall
    BY <1>2 DEF QueryCall
  <2> QED BY <2>1, ProfileAssumption
<1> HIDE DEF next
<1>4. /\ call' \in [Call -> PageCall] /\ call'[c] = next
      /\ \A d \in Call \ {c} : call'[d] = call[d]
  BY <1>1, <1>3 DEF ProfileTyped, PageCall, EditorTyped
<1>5. \A t : t # "profile" /\ t # "log" => Stays(t)
  <2> SUFFICES ASSUME NEW t, t # "profile", t # "log" PROVE Stays(t)
    OBVIOUS
  <2>1. ~UnderWay(c, t) /\ ~UnderWay(c, t)'
    BY <1>2, <1>3, <1>4 DEF UnderWay
  <2> QED BY <1>4, <2>1, OthersStay
<1>6. ProfileTyped'
  BY <1>1, <1>4 DEF ProfileTyped, PageCall, EditorTyped
<1>7. DraftsOnce' /\ DraftsListed' /\ DiscardsListed' /\ NameKnown'
  BY <1>1, <1>5, DraftsKept, ListKept, NameStays DEF ProfileInv
<1>8. Scores(c) /\ \A d \in Call \ {c} : ~Scores(d)
  BY <1>2 DEF ProfileInv, PointsTogether, Scores
<1>9. \A d \in Call \ {c} : ~Scores(d)'
  BY <1>4, <1>8 DEF Scores, UnderWay
<1>10. /\ \A d \in Call : ~Succeeded(d, "profile")' /\ ~Succeeded(d, "log")'
  <2>1. ~Succeeded(c, "profile")' /\ ~Succeeded(c, "log")'
    BY <1>3, <1>4 DEF Succeeded, Replied
  <2>2. \A d \in Call \ {c} : ~Succeeded(d, "profile")' /\ ~Succeeded(d, "log")'
    BY <1>9 DEF Succeeded, Replied, Scores
  <2> QED BY <2>1, <2>2
<1>11. call'[c].subject.points = Sum(stored'.log)
  BY <1>1, <1>3, <1>4 DEF ProfileInv, PointsTogether
<1>12. \A d \in Call : UnderWay(d, "log")' => d = c
  BY <1>9 DEF Scores
<1>13. chart' = None
  BY <1>1, <1>8 DEF ProfileInv, PointsTogether
<1>14. PointsTogether'
  BY <1>9, <1>10, <1>11, <1>12, <1>13 DEF PointsTogether
<1> QED BY <1>6, <1>7, <1>14 DEF ProfileInv

LEMMA LogArrivesInv ==
  ASSUME ProfileInv, NEW c \in Call, LogArrives(c) PROVE ProfileInv'
<1>1. /\ ProfileTyped /\ Succeeded(c, "log") /\ Done(c)
      /\ chart' = ScoreOverTime(call[c].reply.log, call[c].subject.points)
      /\ UNCHANGED <<stored, own, waiting, draftNodes, alias>>
  BY DEF ProfileInv, LogArrives
<1>2. /\ call' \in [Call -> PageCall] /\ call'[c] = None
      /\ \A d \in Call \ {c} : call'[d] = call[d]
      /\ \A t : ~UnderWay(c, t)'
      /\ \A t : t # "log" => Stays(t)
  <2>1. \A t : t # "log" => ~Succeeded(c, t)
    BY <1>1, OneTask
  <2> QED BY <1>1, <2>1, PageDone
<1>3. UnderWay(c, "log")
  BY <1>1 DEF Succeeded, Replied
<1>4. ProfileTyped'
  BY <1>1, <1>2 DEF ProfileTyped, PageCall, EditorTyped
<1>5. DraftsOnce' /\ DraftsListed' /\ DiscardsListed' /\ NameKnown'
  BY <1>1, <1>2, DraftsKept, ListKept, NameStays DEF ProfileInv
<1>6. \A d \in Call \ {c} : ~Scores(d)
  BY <1>3 DEF ProfileInv, PointsTogether, Scores
<1>7. \A d \in Call : ~Scores(d)'
  BY <1>2, <1>6 DEF Scores, UnderWay
<1>8. \A d \in Call : ~Succeeded(d, "profile")' /\ ~UnderWay(d, "log")' /\ ~Succeeded(d, "log")'
  BY <1>7 DEF Succeeded, Replied, Scores
<1>9. \E before \in 0..stored'.old :
            chart' = ScoreOverTime(LogAfter(before)', Sum(stored'.log))
  <2>1. call[c].subject.points = Sum(stored.log)
    BY <1>3 DEF ProfileInv, PointsTogether
  <2>2. PICK before \in 0..stored.old : call[c].reply.log = LogAfter(before)
    BY <1>1 DEF ProfileInv, PointsTogether
  <2>3. LogAfter(before)' = LogAfter(before)
    BY <1>1 DEF LogAfter
  <2> QED BY <1>1, <2>1, <2>2, <2>3
<1>10. PointsTogether'
  BY <1>7, <1>8, <1>9 DEF PointsTogether
<1> QED BY <1>4, <1>5, <1>10 DEF ProfileInv

LEMMA RenameArrivesInv ==
  ASSUME ProfileInv, NEW c \in Call, RenameArrives(c) PROVE ProfileInv'
<1>1. /\ ProfileTyped /\ Succeeded(c, "rename") /\ Done(c)
      /\ UNCHANGED <<stored, own, waiting, draftNodes, chart>>
  BY DEF ProfileInv, RenameArrives
<1>2. /\ call' \in [Call -> PageCall] /\ call'[c] = None
      /\ \A d \in Call \ {c} : call'[d] = call[d]
      /\ \A t : ~UnderWay(c, t)'
      /\ \A t : t # "rename" => Stays(t)
  <2>1. \A t : t # "rename" => ~Succeeded(c, t)
    BY <1>1, OneTask
  <2> QED BY <1>1, <2>1, PageDone
<1>3. UnderWay(c, "rename")
  BY <1>1 DEF Succeeded, Replied
<1>4. alias' = [alias EXCEPT !.name = call[c].name] /\ call[c].name = stored.name
  BY <1>1, <1>3 DEF ProfileInv, NameKnown, RenameArrives
<1>5. EditorTyped' /\ alias'.name = stored'.name
  BY <1>1, <1>4 DEF ProfileTyped, EditorTyped
<1>6. ProfileTyped'
  BY <1>1, <1>2, <1>5 DEF ProfileTyped
<1>7. DraftsOnce' /\ DraftsListed' /\ DiscardsListed' /\ PointsTogether'
  BY <1>1, <1>2, DraftsKept, ListKept, PointsKept DEF ProfileInv
<1>8. \A d \in Call : ~UnderWay(d, "rename")'
  <2>1. \A d \in Call \ {c} : ~UnderWay(d, "rename")
    BY <1>3 DEF ProfileInv, NameKnown
  <2> QED BY <1>2, <2>1 DEF UnderWay
<1>9. \A d \in Call : ~Succeeded(d, "rename")'
  BY <1>8 DEF Succeeded, Replied
<1>10. NameKnown'
  BY <1>5, <1>8, <1>9 DEF NameKnown
<1> QED BY <1>6, <1>7, <1>10 DEF ProfileInv

LEMMA MayRenameArrivesInv ==
  ASSUME ProfileInv, NEW c \in Call, MayRenameArrives(c) PROVE ProfileInv'
<1>1. /\ ProfileTyped /\ Succeeded(c, "mayRename") /\ Done(c)
      /\ UNCHANGED <<stored, own, waiting, draftNodes, chart>>
      /\ UNCHANGED alias \/ \E may : alias' = [alias EXCEPT !.mayEdit = may]
  BY DEF ProfileInv, MayRenameArrives
<1>2. EditorStays
  BY <1>1, EditorKept DEF ProfileTyped
<1>3. /\ call' \in [Call -> PageCall] /\ call'[c] = None
      /\ \A d \in Call \ {c} : call'[d] = call[d]
      /\ \A t : t # "mayRename" => Stays(t)
  <2>1. \A t : t # "mayRename" => ~Succeeded(c, t)
    BY <1>1, OneTask
  <2> QED BY <1>1, <2>1, PageDone
<1>4. ProfileTyped'
  BY <1>1, <1>2, <1>3 DEF ProfileTyped, EditorStays
<1>5. DraftsOnce' /\ DraftsListed' /\ DiscardsListed' /\ NameKnown' /\ PointsTogether'
  BY <1>1, <1>2, <1>3, DraftsKept, ListKept, NameKept, PointsKept DEF ProfileInv
<1> QED BY <1>4, <1>5 DEF ProfileInv

-----------------------------------------------------------------------------
(* The server. *)

\* An answer to a query.
LEMMA QueryServed ==
  ASSUME ProfileInv, NEW c \in Call, NEW task, Asked(c, task), NEW reply \in PageReply,
         Reply(c, reply), UNCHANGED <<stored, own, waiting, draftNodes, chart, alias>>
  PROVE  /\ ProfileTyped' /\ UnderWay(c, task)' /\ PageSays(c) /\ call'[c].reply = reply
         /\ \A d \in Call \ {c} : call'[d] = call[d]
         /\ task # "drafts" => DraftsOnce'
         /\ task # "discard" => DraftsListed' /\ DiscardsListed'
         /\ task # "rename" => NameKnown'
         /\ task # "profile" /\ task # "log" => PointsTogether'
<1>1. ProfileTyped /\ call[c] # None /\ call[c].task = task
  BY DEF ProfileInv, Asked, UnderWay
<1>2. /\ call' \in [Call -> PageCall] /\ PageSays(c) /\ call'[c].reply = reply
      /\ \A d \in Call \ {c} : call'[d] = call[d]
      /\ \A t : t # task => Stays(t)
  BY <1>1, PageAnswered
<1>3. ProfileTyped'
  BY <1>1, <1>2 DEF ProfileTyped, PageCall, EditorTyped
<1>4. UnderWay(c, task)'
  BY <1>1, <1>2 DEF UnderWay, PageSays
<1> QED BY <1>2, <1>3, <1>4, DraftsKept, ListKept, NameStays, PointsKept DEF ProfileInv

LEMMA ServeQueryInv ==
  ASSUME ProfileInv, NEW c \in Call, NEW task \in {"profile", "log", "drafts"}, ServeQuery(c, task)
  PROVE  ProfileInv'
<1>0. /\ ProfileTyped /\ Asked(c, task)
      /\ UNCHANGED <<stored, own, waiting, draftNodes, chart, alias>>
  BY DEF ProfileInv, ServeQuery
<1>1. CASE task = "drafts"
  <2> DEFINE reply == [ok |-> TRUE, drafts |-> SetToSeq(stored.drafts)]
  <2>1. Reply(c, reply)
    BY <1>1 DEF ServeQuery
  <2>2. stored.drafts \in SUBSET Draft /\ IsFiniteSet(stored.drafts)
    BY <1>0, ProfileAssumption, FS_Subset DEF ProfileTyped, StoredType
  <2>3. SetToSeq(stored.drafts) \in Seq(Draft)
    <3>1. SetToSeq(stored.drafts) \in Seq(stored.drafts)
      BY <2>2, Listing
    <3> QED BY <2>2, <3>1
  <2>4. reply \in PageReply /\ reply.drafts = SetToSeq(stored.drafts)
    BY <2>3 DEF PageReply
  <2> HIDE DEF reply
  <2>5. /\ ProfileTyped' /\ UnderWay(c, "drafts")' /\ call'[c].reply = reply
        /\ \A d \in Call \ {c} : call'[d] = call[d]
        /\ DraftsListed' /\ DiscardsListed' /\ NameKnown' /\ PointsTogether'
    BY <1>0, <1>1, <2>1, <2>4, QueryServed
  <2>6. UnderWay(c, "drafts")
    BY <1>0, <1>1 DEF Asked
  <2>7. \A d \in Call : UnderWay(d, "drafts")' <=> UnderWay(d, "drafts")
    BY <2>5, <2>6 DEF UnderWay
  <2>8. \A d \in Call : Succeeded(d, "drafts")' => d = c
    BY <2>6, <2>7 DEF Succeeded, Replied, ProfileInv, DraftsOnce
  <2>9. DraftsOnce'
    BY <1>0, <2>4, <2>5, <2>7, <2>8 DEF ProfileInv, DraftsOnce
  <2> QED BY <2>5, <2>9 DEF ProfileInv
<1>2. CASE task = "profile"
  <2> DEFINE reply == [ok |-> TRUE, points |-> Sum(stored.log)]
  <2>1. Reply(c, reply)
    BY <1>2 DEF ServeQuery
  <2>2. Sum(stored.log) \in Int
    <3>1. stored.log \in Seq(Int)
      BY <1>0, LogTyped
    <3>2. 0 \in 0..Len(stored.log)
      BY <3>1, LenProperties
    <3> QED BY <3>1, <3>2, SumParts
  <2>3. reply \in PageReply /\ reply.points = Sum(stored.log)
    BY <2>2 DEF PageReply
  <2> HIDE DEF reply
  <2>4. /\ ProfileTyped' /\ UnderWay(c, "profile")' /\ call'[c].reply = reply
        /\ \A d \in Call \ {c} : call'[d] = call[d]
        /\ DraftsOnce' /\ DraftsListed' /\ DiscardsListed' /\ NameKnown'
    BY <1>0, <1>2, <2>1, <2>3, QueryServed
  <2>5. Scores(c) /\ \A d \in Call \ {c} : ~Scores(d)
    BY <1>0, <1>2 DEF ProfileInv, PointsTogether, Asked, Scores
  <2>6. \A d \in Call \ {c} : ~Scores(d)'
    BY <2>4, <2>5 DEF Scores, UnderWay
  <2>7. ~UnderWay(c, "log")'
    BY <2>4 DEF UnderWay
  <2>8. \A d \in Call : ~UnderWay(d, "log")' /\ ~Succeeded(d, "log")'
    BY <2>6, <2>7 DEF Scores, Succeeded, Replied
  <2>9. \A d \in Call : Succeeded(d, "profile")' => d = c
    BY <2>6 DEF Scores, Succeeded, Replied
  <2>10. chart' = None
    BY <1>0, <2>5 DEF ProfileInv, PointsTogether
  <2>11. PointsTogether'
    BY <1>0, <2>3, <2>4, <2>6, <2>8, <2>9, <2>10 DEF PointsTogether
  <2> QED BY <2>4, <2>11 DEF ProfileInv
<1>3. CASE task = "log"
  <2> DEFINE reply == [ok |-> TRUE, log |-> LogAfter(stored.old)]
  <2>1. Reply(c, reply)
    BY <1>3 DEF ServeQuery, LogAfter
  <2>2. reply \in PageReply /\ reply.log = LogAfter(stored.old)
    <3>1. stored.log \in Seq(Steps) /\ stored.old \in Nat
      BY <1>0 DEF ProfileTyped, StoredType
    <3>2. LogAfter(stored.old) \in Seq(Steps)
      <4>1. \A i \in stored.old + 1..Len(stored.log) : stored.log[i] \in Steps
        BY <3>1
      <4>2. Len(stored.log) \in Nat
        BY <3>1
      <4> QED BY <3>1, <4>1, <4>2, SubSeqProperties DEF LogAfter
    <3> QED BY <3>2 DEF PageReply
  <2> HIDE DEF reply
  <2>3. /\ ProfileTyped' /\ UnderWay(c, "log")' /\ PageSays(c) /\ call'[c].reply = reply
        /\ \A d \in Call \ {c} : call'[d] = call[d]
        /\ DraftsOnce' /\ DraftsListed' /\ DiscardsListed' /\ NameKnown'
    BY <1>0, <1>3, <2>1, <2>2, QueryServed
  <2>4. UnderWay(c, "log") /\ call[c].subject.points = Sum(stored.log)
    BY <1>0, <1>3 DEF ProfileInv, PointsTogether, Asked
  <2>5. Scores(c) /\ \A d \in Call \ {c} : ~Scores(d)
    BY <2>4 DEF ProfileInv, PointsTogether, Scores
  <2>6. \A d \in Call \ {c} : ~Scores(d)'
    BY <2>3, <2>5 DEF Scores, UnderWay
  <2>7. ~UnderWay(c, "profile")'
    BY <2>3 DEF UnderWay
  <2>8. \A d \in Call : ~Succeeded(d, "profile")'
    BY <2>6, <2>7 DEF Scores, Succeeded, Replied
  <2>9. call'[c].subject = call[c].subject
    BY <2>3, <2>4 DEF PageSays, UnderWay
  <2>10. \A d \in Call : (UnderWay(d, "log")' => d = c) /\ (Succeeded(d, "log")' => d = c)
    BY <2>6 DEF Scores, Succeeded, Replied
  <2>11. chart' = None
    BY <1>0, <2>5 DEF ProfileInv, PointsTogether
  <2>12. \A d \in Call : Succeeded(d, "log")' =>
                \E before \in 0..stored'.old : call'[d].reply.log = LogAfter(before)'
    <3>1. stored.old \in 0..stored'.old /\ LogAfter(stored.old)' = LogAfter(stored.old)
      BY <1>0 DEF LogAfter, ProfileTyped, StoredType
    <3> QED BY <1>0, <2>2, <2>3, <2>10, <3>1
  <2>13. PointsTogether'
    BY <1>0, <2>4, <2>6, <2>8, <2>9, <2>10, <2>11, <2>12 DEF PointsTogether
  <2> QED BY <2>3, <2>13 DEF ProfileInv
<1> QED BY <1>1, <1>2, <1>3

\* A refusal.
LEMMA RefusalInv ==
  ASSUME ProfileInv, NEW c \in Call, NEW task, Asked(c, task), Reply(c, Refusal),
         UNCHANGED <<stored, own, waiting, draftNodes, chart, alias>>
  PROVE  ProfileInv'
<1>1. ProfileTyped /\ call[c] # None /\ \A t : ~Succeeded(c, t)
  BY DEF ProfileInv, Asked, UnderWay, Succeeded, Replied
<1>2. call' \in [Call -> PageCall] /\ \A t : Stays(t)
  BY <1>1, PageRefused
<1> QED BY <1>2, NothingElse

\* A draft is loaded once at a time.
LEMMA LoadDiscardInv ==
  ASSUME ProfileInv, ProfilePatiently, NEW c \in Call, LoadDiscard(c) PROVE ProfileInv'
<1>1. /\ ProfileTyped /\ Asked(c, "discard") /\ ~call[c].loaded
      /\ UNCHANGED <<stored, own, waiting, draftNodes, chart, alias>>
  BY DEF ProfileInv, LoadDiscard
<1>2. call[c] # None /\ call[c].task = "discard" /\ call[c].reply = None
  BY <1>1 DEF Asked, UnderWay
<1>3. CASE ~(call[c].node \in stored.drafts)
  <2>1. Reply(c, Refusal)
    BY <1>3 DEF LoadDiscard
  <2> QED BY <1>1, <2>1, RefusalInv
<1>4. CASE call[c].node \in stored.drafts
  <2>1. call' = [call EXCEPT ![c] = [@ EXCEPT !.loaded = TRUE]]
    BY <1>4 DEF LoadDiscard
  <2>2. call[c] \in DiscardCall
    BY <1>1, <1>2, PageKinds
  <2>3. /\ call'[c] = [call[c] EXCEPT !.loaded = TRUE]
        /\ \A d \in Call \ {c} : call'[d] = call[d]
        /\ call' \in [Call -> PageCall \cup {call'[c]}]
    BY <1>1, <2>1 DEF ProfileTyped
  <2>4. /\ call'[c] \in DiscardCall /\ call'[c].task = "discard" /\ call'[c].reply = None
        /\ call'[c].node = call[c].node /\ call'[c].loaded
    BY <1>2, <2>2, <2>3 DEF DiscardCall
  <2>5. call'[c] # None
    BY <2>4, ProfileAssumption
  <2>6. call' \in [Call -> PageCall]
    BY <2>3, <2>4 DEF PageCall
  <2>7. ProfileTyped'
    BY <1>1, <2>6 DEF ProfileTyped, EditorTyped
  <2>8. \A t : t # "discard" => Stays(t)
    <3> SUFFICES ASSUME NEW t, t # "discard" PROVE Stays(t)
      OBVIOUS
    <3>1. ~UnderWay(c, t) /\ ~UnderWay(c, t)'
      BY <1>2, <2>4 DEF UnderWay
    <3> QED BY <2>3, <3>1, OthersStay
  <2>9. DraftsOnce' /\ NameKnown' /\ PointsTogether'
    BY <1>1, <2>8, DraftsKept, NameStays, PointsKept DEF ProfileInv
  <2>10. \A d \in Call : /\ UnderWay(d, "discard")' <=> UnderWay(d, "discard")
                         /\ Succeeded(d, "discard")' <=> Succeeded(d, "discard")
                         /\ UnderWay(d, "discard") => call'[d].node = call[d].node
    BY <1>2, <2>3, <2>4, <2>5 DEF UnderWay, Succeeded, Replied
  <2>11. Loaded(c)' /\ \A d \in Call \ {c} : Loaded(d)' <=> Loaded(d)
    BY <2>3, <2>4, <2>5 DEF UnderWay, Loaded
  <2>12. \A d \in Call : Succeeded(d, "discard") => UnderWay(d, "discard")
    BY DEF Succeeded, Replied
  <2>13. DraftsListed'
    BY <1>1, <2>10, <2>12 DEF ProfileInv, DraftsListed
  <2>14. \A d \in Call \ {c} : Loaded(d)' => call'[d].node # call'[c].node
    <3> SUFFICES ASSUME NEW d \in Call \ {c}, Loaded(d)', call'[d].node = call'[c].node
                 PROVE  FALSE
      OBVIOUS
    <3>1. call'[d] # None /\ call'[d].task = "discard" /\ call'[d].loaded
      BY DEF Loaded, UnderWay
    <3>2. Together(c, d)
      BY <2>5, <3>1 DEF Together
    <3> QED BY <2>4, <3>1, <3>2 DEF ProfilePatiently
  <2>15. DiscardsListed'
    <3>1. \A d \in Call : UnderWay(d, "discard")' /\ call'[d].node \in stored'.drafts =>
                call'[d].node \in Range(draftNodes')
      BY <1>1, <2>10 DEF ProfileInv, DiscardsListed
    <3>2. \A d \in Call : Succeeded(d, "discard")' =>
                Loaded(d)' /\ call'[d].node \in Range(draftNodes') \ stored'.drafts
      BY <1>1, <2>10, <2>11, <2>12 DEF ProfileInv, DiscardsListed
    <3>3. \A d \in Call : Loaded(d)' /\ call'[d].reply = None =>
                call'[d].node \in stored'.drafts
      BY <1>1, <1>4, <2>3, <2>4, <2>11 DEF ProfileInv, DiscardsListed
    <3>4. \A d, e \in Call : Loaded(d)' /\ Loaded(e)' /\ call'[d].node = call'[e].node => d = e
      BY <2>3, <2>11, <2>14 DEF ProfileInv, DiscardsListed
    <3> QED BY <3>1, <3>2, <3>3, <3>4 DEF DiscardsListed
  <2> QED BY <2>7, <2>9, <2>13, <2>15 DEF ProfileInv
<1> QED BY <1>3, <1>4

LEMMA DeleteDraftInv ==
  ASSUME ProfileInv, NEW c \in Call, DeleteDraft(c) PROVE ProfileInv'
<1> DEFINE d == call[c].node
           reply == [ok |-> TRUE]
<1>1. /\ ProfileTyped /\ Asked(c, "discard") /\ call[c].loaded
      /\ UNCHANGED <<own, waiting, draftNodes, chart, alias>>
      /\ Reply(c, reply) /\ stored' = [stored EXCEPT !.drafts = @ \ {d}]
  BY DEF ProfileInv, DeleteDraft
<1>2. /\ stored'.drafts = stored.drafts \ {d} /\ stored'.log = stored.log
      /\ stored'.name = stored.name /\ stored'.old = stored.old
      /\ stored' \in StoredType
  BY <1>1 DEF ProfileTyped, StoredType
<1>3. reply \in PageReply /\ reply.ok
  BY DEF PageReply
<1>4. call[c] # None /\ call[c].task = "discard" /\ call[c].reply = None /\ Loaded(c)
  BY <1>1 DEF Asked, UnderWay, Loaded
<1> HIDE DEF reply, d
<1>5. /\ call' \in [Call -> PageCall] /\ PageSays(c) /\ call'[c].reply = reply /\ reply # None
      /\ \A e \in Call \ {c} : call'[e] = call[e]
      /\ \A t : t # "discard" => Stays(t)
  BY <1>1, <1>3, <1>4, PageAnswered
<1>6. /\ call'[c].node = d /\ call[c].node = d /\ Loaded(c)'
      /\ UnderWay(c, "discard") /\ UnderWay(c, "discard")'
  BY <1>4, <1>5 DEF PageSays, UnderWay, Loaded, d
<1>7. Succeeded(c, "discard")' /\ ~Succeeded(c, "discard")
  BY <1>3, <1>4, <1>5, <1>6 DEF Succeeded, Replied
<1>8. \A e \in Call \ {c} : /\ UnderWay(e, "discard")' <=> UnderWay(e, "discard")
                            /\ Succeeded(e, "discard")' <=> Succeeded(e, "discard")
                            /\ Loaded(e)' <=> Loaded(e)
  BY <1>5 DEF UnderWay, Succeeded, Replied, Loaded
<1>9. d \in stored.drafts /\ d \in Range(draftNodes)
  BY <1>4, <1>6 DEF ProfileInv, DiscardsListed
<1>10. draftNodes # <<>>
  BY <1>9 DEF Range
<1>11. ProfileTyped'
  BY <1>1, <1>2, <1>5 DEF ProfileTyped, EditorTyped
<1>12. DraftsOnce'
  <2>1. \A e \in Call : ~UnderWay(e, "drafts")
    BY <1>10 DEF ProfileInv, DraftsOnce
  <2>2. \A e \in Call : ~UnderWay(e, "drafts")'
    BY <1>5, <2>1 DEF Stays
  <2>3. \A e \in Call : ~Succeeded(e, "drafts")'
    BY <2>2 DEF Succeeded, Replied
  <2> QED BY <1>1, <1>10, <2>2, <2>3 DEF ProfileInv, DraftsOnce
<1>13. DraftsListed'
  <2>1. ASSUME NEW x \in Range(draftNodes) \ stored'.drafts
        PROVE  \E e \in Call : Succeeded(e, "discard")' /\ call'[e].node = x
    <3>1. CASE x = d
      BY <1>6, <1>7, <3>1
    <3>2. CASE x # d
      <4>1. x \in Range(draftNodes) \ stored.drafts
        BY <1>2, <3>2
      <4>2. PICK e \in Call : Succeeded(e, "discard") /\ call[e].node = x
        BY <4>1 DEF ProfileInv, DraftsListed
      <4>3. e # c
        BY <1>7, <4>2
      <4> QED BY <1>5, <1>8, <4>2, <4>3
    <3> QED BY <3>1, <3>2
  <2>2. IsInjective(draftNodes) /\ stored'.drafts \subseteq Range(draftNodes)
    BY <1>2, <1>10 DEF ProfileInv, DraftsListed
  <2> QED BY <1>1, <2>1, <2>2 DEF DraftsListed
<1>14. \A e \in Call \ {c} : Loaded(e) => call[e].node # d
  BY <1>4, <1>6 DEF ProfileInv, DiscardsListed
<1>15. DiscardsListed'
  <2>1. \A e \in Call : UnderWay(e, "discard")' /\ call'[e].node \in stored'.drafts =>
              call'[e].node \in Range(draftNodes')
    BY <1>1, <1>2, <1>5, <1>6, <1>8 DEF ProfileInv, DiscardsListed
  <2>2. \A e \in Call : Succeeded(e, "discard")' =>
              Loaded(e)' /\ call'[e].node \in Range(draftNodes') \ stored'.drafts
    BY <1>1, <1>2, <1>5, <1>6, <1>8, <1>9 DEF ProfileInv, DiscardsListed
  <2>3. \A e \in Call : Loaded(e)' /\ call'[e].reply = None => call'[e].node \in stored'.drafts
    BY <1>2, <1>5, <1>8, <1>14 DEF ProfileInv, DiscardsListed
  <2>4. \A e, f \in Call : Loaded(e)' /\ Loaded(f)' /\ call'[e].node = call'[f].node => e = f
    BY <1>5, <1>6, <1>8, <1>14 DEF ProfileInv, DiscardsListed
  <2> QED BY <2>1, <2>2, <2>3, <2>4 DEF DiscardsListed
<1>16. NameKnown' /\ PointsTogether'
  BY <1>1, <1>2, <1>5, NameStays, PointsKept DEF ProfileInv
<1> QED BY <1>11, <1>12, <1>13, <1>15, <1>16 DEF ProfileInv

LEMMA ServeMayRenameInv ==
  ASSUME ProfileInv, NEW c \in Call, NEW may \in BOOLEAN, ServeMayRename(c, may)
  PROVE  ProfileInv'
<1> DEFINE reply == [ok |-> TRUE, may |-> may]
<1>1. /\ ProfileTyped /\ Asked(c, "mayRename") /\ Reply(c, reply)
      /\ UNCHANGED <<stored, own, waiting, draftNodes, chart, alias>>
  BY DEF ProfileInv, ServeMayRename
<1>2. reply \in PageReply
  BY DEF PageReply
<1> HIDE DEF reply
<1>3. call[c] # None /\ call[c].task = "mayRename"
  BY <1>1 DEF Asked, UnderWay
<1>4. call' \in [Call -> PageCall] /\ \A t : t # "mayRename" => Stays(t)
  BY <1>1, <1>2, <1>3, PageAnswered
<1>5. ProfileTyped'
  BY <1>1, <1>4 DEF ProfileTyped, EditorTyped
<1>6. DraftsOnce' /\ DraftsListed' /\ DiscardsListed' /\ NameKnown' /\ PointsTogether'
  BY <1>1, <1>4, DraftsKept, ListKept, NameStays, PointsKept DEF ProfileInv
<1> QED BY <1>5, <1>6 DEF ProfileInv

LEMMA ServeRenameInv ==
  ASSUME ProfileInv, NEW c \in Call, ServeRename(c) PROVE ProfileInv'
<1> DEFINE reply == [ok |-> TRUE]
<1>1. /\ ProfileTyped /\ Asked(c, "rename") /\ UNCHANGED <<own, waiting, draftNodes, chart, alias>>
  BY DEF ProfileInv, ServeRename
<1>2. CASE Reply(c, Refusal) /\ UNCHANGED stored
  BY <1>1, <1>2, RefusalInv
<1>3. CASE Reply(c, reply) /\ stored' = [stored EXCEPT !.name = call[c].name]
  <2>1. call[c] # None /\ call[c].task = "rename" /\ call[c].reply = None
    BY <1>1 DEF Asked, UnderWay
  <2>2. call[c].name \in Name
    <3>1. call[c] \in RenameCall
      BY <1>1, <2>1, PageKinds
    <3> QED BY <3>1 DEF RenameCall
  <2>3. /\ stored'.drafts = stored.drafts /\ stored'.log = stored.log
        /\ stored'.name = call[c].name /\ stored'.old = stored.old
        /\ stored' \in StoredType
    BY <1>1, <1>3, <2>2 DEF ProfileTyped, StoredType
  <2>4. reply \in PageReply /\ reply.ok
    BY DEF PageReply
  <2> HIDE DEF reply
  <2>5. /\ call' \in [Call -> PageCall] /\ PageSays(c) /\ call'[c].reply = reply /\ reply # None
        /\ \A e \in Call \ {c} : call'[e] = call[e]
        /\ \A t : t # "rename" => Stays(t)
    BY <1>1, <1>3, <2>1, <2>4, PageAnswered
  <2>6. ProfileTyped'
    BY <1>1, <2>3, <2>5 DEF ProfileTyped, PageCall, EditorTyped
  <2>7. DraftsOnce' /\ DraftsListed' /\ DiscardsListed' /\ PointsTogether'
    BY <1>1, <2>3, <2>5, DraftsKept, ListKept, PointsKept DEF ProfileInv
  <2>8. /\ UnderWay(c, "rename") /\ Succeeded(c, "rename")'
        /\ call'[c].name = call[c].name /\ call'[c].editor = call[c].editor
    BY <2>1, <2>4, <2>5 DEF UnderWay, Succeeded, Replied, PageSays
  <2>9. \A e \in Call \ {c} : ~UnderWay(e, "rename")
    BY <2>8 DEF ProfileInv, NameKnown
  <2>10. \A e \in Call \ {c} : ~UnderWay(e, "rename")' /\ ~Succeeded(e, "rename")'
    BY <2>5, <2>9 DEF UnderWay, Succeeded, Replied
  <2>11. call'[c].editor = alias'.number
    BY <1>1, <2>8 DEF ProfileInv, NameKnown
  <2>12. NameKnown'
    BY <2>3, <2>8, <2>10, <2>11 DEF NameKnown
  <2> QED BY <2>6, <2>7, <2>12 DEF ProfileInv
<1> QED BY <1>2, <1>3 DEF ServeRename

LEMMA VotedInv ==
  ASSUME ProfileInv, ProfilePatiently, NEW step \in Steps, Voted(step) PROVE ProfileInv'
<1>1. /\ ProfileTyped /\ UNCHANGED <<call, own, waiting, draftNodes, chart, alias>>
      /\ stored' = [stored EXCEPT !.log = Append(@, step)]
  BY DEF ProfileInv, Voted
<1>2. /\ stored'.drafts = stored.drafts /\ stored'.name = stored.name
      /\ stored'.log = Append(stored.log, step)
      /\ stored.log \in Seq(Steps) /\ Append(stored.log, step) \in Seq(Steps)
      /\ stored' \in StoredType /\ stored'.old = stored.old
  <2> DEFINE longer == Append(stored.log, step)
  <2>1. stored.log \in Seq(Steps) /\ longer \in Seq(Steps)
    BY <1>1, LogTyped, AppendProperties
  <2>2. stored' = [stored EXCEPT !.log = longer]
    BY <1>1
  <2> HIDE DEF longer
  <2>3. /\ stored'.drafts = stored.drafts /\ stored'.name = stored.name /\ stored'.log = longer
        /\ stored' \in StoredType /\ stored'.old = stored.old
    BY <1>1, <2>1, <2>2 DEF ProfileTyped, StoredType
  <2> QED BY <2>1, <2>3 DEF longer
<1>3. stored'.log # stored.log
  <2>1. Len(Append(stored.log, step)) = Len(stored.log) + 1 /\ Len(stored.log) \in Nat
    BY <1>2, AppendProperties
  <2>2. Len(Append(stored.log, step)) # Len(stored.log)
    BY <2>1
  <2> QED BY <1>2, <2>2
<1>4. PICK c \in Call : Asked(c, "profile")
  BY <1>3 DEF ProfilePatiently
<1>5. \A t : Stays(t)
  BY <1>1, AllStay
<1>6. ProfileTyped'
  <2>1. stored'.old <= Len(stored'.log)
    <3>1. Len(Append(stored.log, step)) = Len(stored.log) + 1 /\ Len(stored.log) \in Nat
      BY <1>2, AppendProperties
    <3>2. stored.old \in Nat /\ stored.old <= Len(stored.log)
      BY <1>1 DEF ProfileTyped, StoredType
    <3> QED BY <1>2, <3>1, <3>2
  <2> QED BY <1>1, <1>2, <2>1 DEF ProfileTyped, EditorTyped
<1>7. DraftsOnce' /\ DraftsListed' /\ DiscardsListed' /\ NameKnown'
  BY <1>1, <1>2, <1>5, DraftsKept, ListKept, NameStays DEF ProfileInv
<1>8. Scores(c) /\ \A d \in Call \ {c} : ~Scores(d)
  BY <1>4 DEF ProfileInv, PointsTogether, Asked, Scores
<1>9. ~UnderWay(c, "log") /\ ~Succeeded(c, "profile")
  BY <1>4 DEF Asked, UnderWay, Succeeded, Replied
<1>10. \A d \in Call : ~Succeeded(d, "profile") /\ ~UnderWay(d, "log") /\ ~Succeeded(d, "log")
  BY <1>8, <1>9 DEF Scores, Succeeded, Replied
<1>11. \A d \in Call : /\ ~Succeeded(d, "profile")' /\ ~UnderWay(d, "log")' /\ ~Succeeded(d, "log")'
                       /\ Scores(d)' => Scores(d)
  BY <1>1, <1>10 DEF Scores, Succeeded, Replied, UnderWay
<1>12. chart' = None
  BY <1>1, <1>8 DEF ProfileInv, PointsTogether
<1>13. PointsTogether'
  BY <1>8, <1>11, <1>12 DEF PointsTogether
<1> QED BY <1>6, <1>7, <1>13 DEF ProfileInv

LEMMA WeekPassesInv ==
  ASSUME ProfileInv, WeekPasses PROVE ProfileInv'
<1>1. ProfileTyped /\ UNCHANGED <<call, own, waiting, draftNodes, chart, alias>>
  BY DEF ProfileInv, WeekPasses
<1>2. PICK old \in stored.old + 1..Len(stored.log) : stored' = [stored EXCEPT !.old = old]
  BY DEF WeekPasses
<1>3. /\ stored'.drafts = stored.drafts /\ stored'.log = stored.log
      /\ stored'.name = stored.name /\ stored'.old = old
      /\ stored.old \in Nat /\ Len(stored.log) \in Nat
  BY <1>1, <1>2 DEF ProfileTyped, StoredType
<1>4. /\ old \in Nat /\ old <= Len(stored'.log)
      /\ 0..stored.old \subseteq 0..stored'.old
  BY <1>3
<1>5. stored' \in StoredType
  BY <1>1, <1>2, <1>4 DEF ProfileTyped, StoredType
<1>6. ProfileTyped'
  BY <1>1, <1>3, <1>4, <1>5 DEF ProfileTyped, EditorTyped
<1>7. \A t : Stays(t)
  BY <1>1, AllStay
<1>8. DraftsOnce' /\ DraftsListed' /\ DiscardsListed' /\ NameKnown' /\ PointsTogether'
  BY <1>1, <1>3, <1>4, <1>7, DraftsKept, ListKept, NameStays, PointsKept DEF ProfileInv
<1> QED BY <1>6, <1>8 DEF ProfileInv

-----------------------------------------------------------------------------
\* The first requests: at most one of each kind, unanswered, the drafts for their author.
FirstRequests ==
    /\ call \in [Call -> PageCall]
    /\ \A c \in Call : call[c] # None =>
            /\ call[c].task \in {"profile", "drafts", "mayRename"} /\ call[c].reply = None
            /\ call[c].task = "drafts" => own
    /\ \A c, d \in Call : call[c] # None /\ call[d] # None /\ call[c].task = call[d].task => c = d

LEMMA ProfileRequests == ProfileCalls => FirstRequests
<1> SUFFICES ASSUME ProfileCalls PROVE FirstRequests
  OBVIOUS
<1> DEFINE tasks == {"profile"} \cup (IF own THEN {"drafts"} ELSE {})
<1>1. PICK f \in [tasks -> Call] :
        /\ IsInjective(f)
        /\ call = [c \in Call |->
              IF c \in Range(f) THEN Page(CHOOSE t \in tasks : f[t] = c) ELSE None]
  BY DEF ProfileCalls
<1>2. ASSUME NEW c \in Call, call[c] # None
      PROVE  \E t \in tasks : f[t] = c /\ call[c] = Page(t)
  <2>1. c \in Range(f) /\ call[c] = Page(CHOOSE t \in tasks : f[t] = c)
    BY <1>1, <1>2
  <2>2. \E t \in tasks : f[t] = c
    BY <1>1, <2>1 DEF Range
  <2> DEFINE u == CHOOSE t \in tasks : f[t] = c
  <2>3. u \in tasks /\ f[u] = c
    BY <2>2
  <2> QED BY <2>1, <2>3
<1>3. \A t \in tasks : /\ Page(t) \in QueryCall /\ Page(t).task = t /\ Page(t).reply = None
                       /\ t \in {"profile", "drafts"} /\ (t = "drafts" => own)
  BY DEF Page, QueryCall
<1> HIDE DEF tasks
<1>4. \A c \in Call : call[c] \in PageCall
  BY <1>2, <1>3 DEF PageCall
<1>5. call \in [Call -> PageCall]
  BY <1>1, <1>4
<1>6. \A c \in Call : call[c] # None =>
            /\ call[c].task \in {"profile", "drafts", "mayRename"} /\ call[c].reply = None
            /\ call[c].task = "drafts" => own
  BY <1>2, <1>3
<1>7. \A c, d \in Call : call[c] # None /\ call[d] # None /\ call[c].task = call[d].task => c = d
  BY <1>2, <1>3
<1> QED BY <1>5, <1>6, <1>7 DEF FirstRequests

LEMMA SettingsRequests == SettingsCalls => FirstRequests
<1> SUFFICES ASSUME SettingsCalls PROVE FirstRequests
  OBVIOUS
<1>1. PICK c \in Call :
        call = [x \in Call |-> IF x = c /\ own THEN AskMayRename(0) ELSE None]
  BY DEF SettingsCalls
<1>2. /\ AskMayRename(0) \in PageCall /\ AskMayRename(0).task = "mayRename"
      /\ AskMayRename(0).reply = None /\ None \in PageCall
  BY DEF AskMayRename, PageCall, MayRenameCall
<1> HIDE DEF AskMayRename
<1> QED BY <1>1, <1>2 DEF FirstRequests

\* Nothing is answered yet, and nothing listed.
LEMMA ProfileStart == ProfileInit /\ PageCalls => ProfileInv
<1> SUFFICES ASSUME ProfileInit, PageCalls PROVE ProfileInv
  OBVIOUS
<1>1. /\ stored \in [drafts : {Draft}, log : {<<>>} \cup {<<step>> : step \in Steps},
                     old : {0}, name : Name]
      /\ (waiting <=> place = "profile" /\ ~own) /\ draftNodes = <<>> /\ chart = None
      /\ alias = Editor(0) /\ alias.name = stored.name /\ EditorTyped
  BY DEF ProfileInit, Editor, EditorTyped
<1>2. FirstRequests
  BY ProfileRequests, SettingsRequests DEF PageCalls
<1>3. ASSUME NEW c \in Call, NEW t, UnderWay(c, t)
      PROVE  /\ t \in {"profile", "drafts", "mayRename"} /\ (t = "drafts" => own)
             /\ call[c].reply = None
  BY <1>2, <1>3 DEF FirstRequests, UnderWay
<1>4. \A c, d \in Call, t \in Tasks : UnderWay(c, t) /\ UnderWay(d, t) => c = d
  BY <1>2 DEF FirstRequests, UnderWay
<1>5. ASSUME NEW c \in Call, NEW t PROVE ~Succeeded(c, t)
  BY <1>3 DEF Succeeded, Replied
<1>6. Range(draftNodes) = {} /\ IsInjective(draftNodes) /\ draftNodes \in Seq(Draft)
  BY <1>1 DEF Range, IsInjective
<1>7. ProfileTyped
  <2>1. stored.log \in Seq(Steps)
    <3>1. stored.log \in {<<>>} \cup {<<step>> : step \in Steps}
      BY <1>1
    <3>2. CASE stored.log = <<>>
      BY <3>2, EmptySeq
    <3>3. CASE stored.log # <<>>
      <4>1. PICK step \in Steps : stored.log = <<step>>
        BY <3>1, <3>3
      <4>2. <<step>> \in Seq(Steps)
        BY <4>1
      <4> QED BY <4>1, <4>2
    <3> QED BY <3>2, <3>3
  <2>2. stored \in StoredType /\ stored.old = 0
    BY <1>1, <2>1 DEF StoredType
  <2>3. stored.old <= Len(stored.log)
    BY <2>1, <2>2
  <2>4. call \in [Call -> PageCall]
    BY <1>2 DEF FirstRequests
  <2> QED BY <1>1, <1>6, <2>2, <2>3, <2>4 DEF ProfileTyped
<1>8. \A c \in Call : ~UnderWay(c, "discard") /\ ~UnderWay(c, "log") /\ ~UnderWay(c, "rename")
  BY <1>3
<1>9. DraftsOnce
  <2>1. \A c, d \in Call : UnderWay(c, "drafts") /\ UnderWay(d, "drafts") => c = d
    BY <1>4 DEF Tasks
  <2>2. \A c \in Call : UnderWay(c, "drafts") => own
    BY <1>3
  <2> QED BY <1>1, <1>5, <2>1, <2>2 DEF DraftsOnce
<1>10. DraftsListed /\ DiscardsListed
  BY <1>1, <1>5, <1>6, <1>8 DEF DraftsListed, DiscardsListed, Loaded
<1>11. NameKnown
  BY <1>1, <1>5, <1>8 DEF NameKnown
<1>12. PointsTogether
  <2>1. \A c, d \in Call : Scores(c) /\ Scores(d) => c = d
    BY <1>4, <1>8 DEF Scores, Tasks
  <2> QED BY <1>1, <1>5, <1>8, <2>1 DEF PointsTogether
<1> QED BY <1>7, <1>9, <1>10, <1>11, <1>12 DEF ProfileInv

\* Every step keeps the invariant while the author is patient and the network kind.
LEMMA ProfileStep ==
  patient /\ ProfileInv /\ [ProfileSteps]_<<profileVars, patient>> => ProfileInv'
<1> SUFFICES ASSUME patient, ProfileInv, [ProfileSteps]_<<profileVars, patient>>
             PROVE  ProfileInv'
  OBVIOUS
<1>1. CASE UNCHANGED profileVars
  <2>1. UNCHANGED <<call, stored, own, waiting, draftNodes, chart, alias>>
    BY <1>1 DEF profileVars
  <2>2. call' \in [Call -> PageCall] /\ \A t : Stays(t)
    BY <2>1, AllStay DEF ProfileInv, ProfileTyped, PageCall
  <2> QED BY <2>1, <2>2, NothingElse
<1>2. CASE ProfileNext /\ ProfilePatiently
  <2>1. CASE LogOut \/ StartEditingAlias \/ CancelAlias
    BY <1>2, <2>1, OnPageInv
  <2>2. ASSUME NEW step \in Steps, Voted(step) PROVE ProfileInv'
    BY <1>2, <2>2, VotedInv
  <2>3. ASSUME NEW c \in Call,
               \/ LogIn(c) \/ ShowEditor(c) \/ DraftsArrive(c) \/ DiscardedArrives(c)
               \/ ProfileArrives(c) \/ LogArrives(c) \/ MayRenameArrives(c) \/ RenameArrives(c)
               \/ LoadDiscard(c) \/ DeleteDraft(c) \/ ServeRename(c) \/ LoseQuery(c)
        PROVE  ProfileInv'
    BY <1>2, <2>3, LogInInv, ShowEditorInv, DraftsArriveInv, DiscardedArrivesInv,
       ProfileArrivesInv, LogArrivesInv, MayRenameArrivesInv, RenameArrivesInv,
       LoadDiscardInv, DeleteDraftInv, ServeRenameInv, PageLosesInv
  <2>4. ASSUME NEW c \in Call, NEW i \in DOMAIN draftNodes, DiscardListed(c, i)
        PROVE  ProfileInv'
    BY <2>4, DiscardListedInv
  <2>5. ASSUME NEW c \in Call, NEW name \in Name, SaveAlias(c, name) PROVE ProfileInv'
    BY <1>2, <2>5, SaveAliasInv
  <2>6. ASSUME NEW c \in Call, NEW task \in {"profile", "log", "drafts"}, ServeQuery(c, task)
        PROVE  ProfileInv'
    BY <2>6, ServeQueryInv
  <2>7. ASSUME NEW c \in Call, NEW task, ProfileFails(c, task) PROVE ProfileInv'
    BY <2>7, PageFailsInv
  <2>8. CASE WeekPasses
    BY <2>8, WeekPassesInv
  <2>9. ASSUME NEW c \in Call, NEW may \in BOOLEAN, ServeMayRename(c, may) PROVE ProfileInv'
    BY <2>9, ServeMayRenameInv
  <2> QED BY <1>2, <2>1, <2>2, <2>3, <2>4, <2>5, <2>6, <2>7, <2>8, <2>9 DEF ProfileNext
<1> QED BY <1>1, <1>2 DEF ProfileSteps

\* The invariant behind it: drafts come once, before any is listed, and what is listed and
\* no draft any more waits for the answer to its discard; the points are the sum of the
\* whole log, of which the page gets at least the last week; the name is known, or the
\* answer to its change is on its way (profile-controller.js, alias-editor-directive.js).
THEOREM ProfileInvCorrect == ProfileSpec => [](patient => ProfileInv)
<1>1. (patient => ProfileInv) /\ [ProfileSteps]_<<profileVars, patient>>
        => (patient => ProfileInv)'
  BY ProfileStep DEF ProfileSteps
<1>2. ProfileInit /\ PageCalls => (patient => ProfileInv)
  BY ProfileStart
<1> QED BY <1>1, <1>2, PTL DEF ProfileSpec

\* When nothing is under way, the page of a patient author lists each draft that there is
\* once, under the name given last, however often a discard was clicked and whatever was
\* answered first, with a chart that has all of the last week and at each vote the sum of
\* all votes until then (fetchDrafts, discardDraft, saveAlias, calculateScoreOverTime).
THEOREM ProfileShownCorrect == ProfileSpec => []ProfileShown
<1>1. (patient => ProfileInv) => ProfileShown
  <2> SUFFICES ASSUME ProfileInv, Quiet
               PROVE  /\ draftNodes # <<>> =>
                            Range(draftNodes) = stored.drafts /\ IsInjective(draftNodes)
                      /\ alias.name = stored.name
                      /\ chart # None => \E before \in 0..stored.old : SumsAfter(before)
    BY DEF ProfileShown
  <2>1. \A c \in Call, t \in Tasks : ~Succeeded(c, t)
    BY DEF Quiet, Succeeded, Replied, UnderWay
  <2>2. \A c \in Call : ~Succeeded(c, "discard") /\ ~Succeeded(c, "rename")
    BY <2>1 DEF Tasks
  <2>3. ASSUME draftNodes # <<>> PROVE Range(draftNodes) = stored.drafts /\ IsInjective(draftNodes)
    BY <2>2, <2>3 DEF ProfileInv, DraftsListed
  <2>4. alias.name = stored.name
    BY <2>2 DEF ProfileInv, NameKnown
  <2>5. ASSUME chart # None PROVE \E before \in 0..stored.old : SumsAfter(before)
    <3>1. PICK before \in 0..stored.old : chart = ScoreOverTime(LogAfter(before), Sum(stored.log))
      BY <2>5 DEF ProfileInv, PointsTogether
    <3>2. /\ stored.log \in Seq(Int) /\ Len(stored.log) \in Nat
          /\ stored.old \in Nat /\ stored.old <= Len(stored.log)
      BY LogTyped DEF ProfileInv, ProfileTyped, StoredType
    <3>3. before \in 0..Len(stored.log)
      BY <3>2
    <3> QED BY <3>1, <3>2, <3>3, ForwardsIsBackwards DEF LogAfter, SumsAfter
  <2> QED BY <2>3, <2>4, <2>5
<1> QED BY <1>1, ProfileInvCorrect, PTL

=============================================================================
