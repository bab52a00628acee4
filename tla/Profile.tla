------------------------------- MODULE Profile --------------------------------
(***************************************************************************)
(* The pages of an author.  The profile of profile-controller.js: points   *)
(* and their log are fetched one after the other, the drafts when the user *)
(* is known.  The settings, with the editor of a name that                 *)
(* alias-editor-directive.js makes for every user object the page gets.    *)
(***************************************************************************)
EXTENDS Services, FiniteSets

CONSTANTS Draft, Name, Steps   \* the drafts, the names, what a vote is worth

\* The calls of the page, and what the server replies.
PageReply == [ok : BOOLEAN] \cup [ok : {TRUE}, points : Int] \cup [ok : {TRUE}, log : Seq(Steps)]
                \cup [ok : {TRUE}, drafts : Seq(Draft)] \cup [ok : {TRUE}, may : BOOLEAN]
QueryCall == [task : {"profile", "log", "drafts"}, subject : {None} \cup PageReply,
              reply : {None} \cup PageReply]
DiscardCall == [task : {"discard"}, node : Draft, loaded : BOOLEAN, reply : {None} \cup PageReply]
MayRenameCall == [task : {"mayRename"}, editor : Nat, reply : {None} \cup PageReply]
RenameCall == [task : {"rename"}, name : Name, editor : Nat, reply : {None} \cup PageReply]
PageCall == {None} \cup QueryCall \cup DiscardCall \cup MayRenameCall \cup RenameCall

ASSUME ProfileAssumption ==
    /\ Steps \subseteq Int /\ IsFiniteSet(Draft)
    /\ None \notin PageReply \cup QueryCall \cup DiscardCall \cup MayRenameCall \cup RenameCall

VARIABLES stored,      \* the server's: drafts, the log of points, how many of its entries
                       \* are older than a week, the name
          place,       \* which page this is, "profile" or "settings"; this does not change
          own,         \* the user is known to be the author
          waiting,     \* the page waits for a login
          draftNodes,  \* the drafts the page lists
          chart,       \* the series of points, None before it is there
          alias        \* the editor of the name: its number, what it shows, what it allows

profileVars == <<call, stored, place, own, waiting, draftNodes, chart, alias>>

Sum(log) == FoldSeq(+, 0, log)

\* AliasEditorController, for a user object that has just come.
Editor(number) ==
    [number |-> number, name |-> stored.name, mayEdit |-> FALSE, editing |-> FALSE]

ProfileInit ==
    /\ stored \in [drafts : {Draft}, log : {<<>>} \cup {<<step>> : step \in Steps},
                   old : {0}, name : Name]
    /\ place \in {"profile", "settings"} /\ own \in BOOLEAN
    /\ waiting = (place = "profile" /\ ~own)
    /\ draftNodes = <<>> /\ chart = None /\ alias = Editor(0)

\* The calls of a new page.
Page(task) == [task |-> task, subject |-> None, reply |-> None]
ProfileCalls ==
    LET tasks == {"profile"} \cup (IF own THEN {"drafts"} ELSE {})
    IN  \E f \in [tasks -> Call] :
            /\ IsInjective(f)
            /\ call = [c \in Call |->
                IF c \in Range(f) THEN Page(CHOOSE t \in tasks : f[t] = c) ELSE None]
\* populateEditableFlag
AskMayRename(number) == [task |-> "mayRename", editor |-> number, reply |-> None]
SettingsCalls ==
    \E c \in Call : call = [x \in Call |-> IF x = c /\ own THEN AskMayRename(0) ELSE None]
PageCalls == IF place = "profile" THEN ProfileCalls ELSE SettingsCalls

\* successful-login: the drafts are fetched, once more for every login.
LogIn(c) ==
    /\ place = "profile" /\ ~own
    /\ own' = TRUE
    /\ IF waiting THEN Send(c, Page("drafts")) ELSE UNCHANGED call
    /\ UNCHANGED <<stored, waiting, draftNodes, chart, alias>>

\* The settings get the user, after a login or again when mail was enrolled, and a new editor.
ShowEditor(c) ==
    /\ place = "settings"
    /\ own' = TRUE
    /\ alias' = Editor(alias.number + 1)
    /\ Send(c, AskMayRename(alias.number + 1))
    /\ UNCHANGED <<stored, waiting, draftNodes, chart>>

LogOut ==
    /\ own
    /\ own' = FALSE
    /\ UNCHANGED <<call, stored, waiting, draftNodes, chart, alias>>

DraftsArrive(c) ==
    /\ Succeeded(c, "drafts")
    /\ Done(c)
    /\ draftNodes' = draftNodes \o call[c].reply.drafts
    /\ UNCHANGED <<stored, own, waiting, chart, alias>>

\* discardDraft of a listed node, which the user may click again before the answer is here.
DiscardListed(c, i) ==
    /\ i \in DOMAIN draftNodes
    /\ Send(c, [task |-> "discard", node |-> draftNodes[i], loaded |-> FALSE, reply |-> None])
    /\ UNCHANGED <<stored, own, waiting, draftNodes, chart, alias>>

\* Fault for the checks: whatever is listed first goes.
SplicedFirst(d) == IF draftNodes = <<>> THEN <<>> ELSE Tail(draftNodes)

\* splice(indexOf(node), 1); an index of -1 is the last place.
Spliced(d) ==
    LET places == {i \in DOMAIN draftNodes : draftNodes[i] = d}
    IN  CASE draftNodes = <<>> -> <<>>
          [] draftNodes # <<>> /\ places = {} -> Front(draftNodes)
          [] OTHER -> RemoveAt(draftNodes, CHOOSE i \in places : \A j \in places : i <= j)

DiscardedArrives(c) ==
    /\ Succeeded(c, "discard")
    /\ Done(c)
    /\ draftNodes' = Spliced(call[c].node)
    /\ UNCHANGED <<stored, own, waiting, chart, alias>>

\* The profile with its points is here, and the log is fetched.
ProfileArrives(c) ==
    /\ Succeeded(c, "profile")
    /\ call' = [call EXCEPT ![c] = [task |-> "log", subject |-> call[c].reply, reply |-> None]]
    /\ UNCHANGED <<stored, own, waiting, draftNodes, chart, alias>>

\* calculateScoreOverTime: backwards from the points of now.
ScoreOverTime(log, points) ==
    [i \in 1..Len(log) + 1 |-> points - Sum(SubSeq(log, i + 1, Len(log)))]

LogArrives(c) ==
    /\ Succeeded(c, "log")
    /\ Done(c)
    /\ chart' = ScoreOverTime(call[c].reply.log, call[c].subject.points)
    /\ UNCHANGED <<stored, own, waiting, draftNodes, alias>>

\* An answer is for the editor that asked, which may not be on the page any more.
MayRenameArrives(c) ==
    /\ Succeeded(c, "mayRename")
    /\ Done(c)
    /\ alias' = IF call[c].editor = alias.number
                THEN [alias EXCEPT !.mayEdit = call[c].reply.may] ELSE alias
    /\ UNCHANGED <<stored, own, waiting, draftNodes, chart>>

StartEditingAlias ==
    /\ own /\ alias.mayEdit /\ ~alias.editing
    /\ alias' = [alias EXCEPT !.editing = TRUE]
    /\ UNCHANGED <<call, stored, own, waiting, draftNodes, chart>>

\* saveAlias closes the form without waiting, as cancel does.
SaveAlias(c, name) ==
    /\ own /\ alias.editing
    /\ alias' = [alias EXCEPT !.editing = FALSE]
    /\ Send(c, [task |-> "rename", name |-> name, editor |-> alias.number, reply |-> None])
    /\ UNCHANGED <<stored, own, waiting, draftNodes, chart>>

CancelAlias ==
    /\ own /\ alias.editing
    /\ alias' = [alias EXCEPT !.editing = FALSE]
    /\ UNCHANGED <<call, stored, own, waiting, draftNodes, chart>>

RenameArrives(c) ==
    /\ Succeeded(c, "rename")
    /\ Done(c)
    /\ alias' = IF call[c].editor = alias.number
                THEN [alias EXCEPT !.name = call[c].name] ELSE alias
    /\ UNCHANGED <<stored, own, waiting, draftNodes, chart>>

\* A toast, or nothing.
ProfileFails(c, task) ==
    /\ Failed(c, task)
    /\ Done(c)
    /\ UNCHANGED <<stored, own, waiting, draftNodes, chart, alias>>

-----------------------------------------------------------------------------
(* The server, and votes on the author's nodes.                             *)

\* The points are those of all votes, the log is the last week's (getScoreLogForUser).
ServeQuery(c, task) ==
    /\ Asked(c, task)
    /\ Reply(c, CASE task = "profile" -> [ok |-> TRUE, points |-> Sum(stored.log)]
                  [] task = "log" -> [ok |-> TRUE,
                        log |-> SubSeq(stored.log, stored.old + 1, Len(stored.log))]
                  [] task = "drafts" -> [ok |-> TRUE, drafts |-> SetToSeq(stored.drafts)])
    /\ UNCHANGED <<stored, own, waiting, draftNodes, chart, alias>>

\* discardDraft loads the draft, or finds none, and deletes it: no transaction holds both.
LoadDiscard(c) ==
    /\ Asked(c, "discard") /\ ~call[c].loaded
    /\ IF call[c].node \in stored.drafts
       THEN call' = [call EXCEPT ![c] = [@ EXCEPT !.loaded = TRUE]]
       ELSE Reply(c, Refusal)
    /\ UNCHANGED <<stored, own, waiting, draftNodes, chart, alias>>

\* Deleting what is gone already succeeds too.
DeleteDraft(c) ==
    /\ Asked(c, "discard") /\ call[c].loaded
    /\ Reply(c, [ok |-> TRUE])
    /\ stored' = [stored EXCEPT !.drafts = @ \ {call[c].node}]
    /\ UNCHANGED <<own, waiting, draftNodes, chart, alias>>

\* canChangeAuthorName: whether the author has published under the name.
ServeMayRename(c, may) ==
    /\ Asked(c, "mayRename")
    /\ Reply(c, [ok |-> TRUE, may |-> may])
    /\ UNCHANGED <<stored, own, waiting, draftNodes, chart, alias>>

\* changeAuthorName: something may be published by now, or the name taken.
ServeRename(c) ==
    /\ Asked(c, "rename")
    /\ \/ Reply(c, [ok |-> TRUE]) /\ stored' = [stored EXCEPT !.name = call[c].name]
       \/ Reply(c, Refusal) /\ UNCHANGED stored
    /\ UNCHANGED <<own, waiting, draftNodes, chart, alias>>

\* updatePointsAndSave: the points and the log get the same.
Voted(step) ==
    /\ stored' = [stored EXCEPT !.log = Append(@, step)]
    /\ UNCHANGED <<call, own, waiting, draftNodes, chart, alias>>

WeekPasses ==
    /\ \E old \in stored.old + 1..Len(stored.log) : stored' = [stored EXCEPT !.old = old]
    /\ UNCHANGED <<call, own, waiting, draftNodes, chart, alias>>

\* The server goes on with what it has begun: such a call is lost with its answer.
LoseQuery(c) ==
    /\ Lose(c)
    /\ ~(Asked(c, "discard") /\ call[c].loaded)
    /\ UNCHANGED <<stored, own, waiting, draftNodes, chart, alias>>

ProfileNext ==
    \/ LogOut \/ StartEditingAlias \/ CancelAlias \/ WeekPasses
    \/ \E step \in Steps : Voted(step)
    \/ \E c \in Call :
        \/ LogIn(c) \/ ShowEditor(c) \/ DraftsArrive(c) \/ DiscardedArrives(c)
        \/ ProfileArrives(c) \/ LogArrives(c) \/ MayRenameArrives(c) \/ RenameArrives(c)
        \/ LoadDiscard(c) \/ DeleteDraft(c) \/ ServeRename(c) \/ LoseQuery(c)
        \/ \E i \in DOMAIN draftNodes : DiscardListed(c, i)
        \/ \E name \in Name : SaveAlias(c, name)
        \/ \E may \in BOOLEAN : ServeMayRename(c, may)
        \/ \E task \in {"profile", "log", "drafts"} : ServeQuery(c, task)
        \/ \E task \in {"profile", "log", "drafts", "discard", "mayRename", "rename"} :
                ProfileFails(c, task)

\* Names are changed one after the other and not while the user is fetched, nobody signs in
\* twice on the profile, no votes come once the points are read, and the server is not asked
\* to discard a draft while it discards it.
ProfilePatiently ==
    /\ LostUnserved
    /\ waiting /\ own => own'
    /\ \A c, d \in Call : Together(c, d) =>
        /\ call'[c].task # "rename" \/ call'[d].task # "rename"
        /\ (call'[c].task = "discard" /\ call'[d].task = "discard" /\ call'[c].node = call'[d].node)
                => ~(call'[c].loaded /\ call'[d].loaded)
    /\ alias'.number # alias.number => \A c \in Call : ~UnderWay(c, "rename")
    /\ stored'.log # stored.log => \E c \in Call : Asked(c, "profile")

ProfileSteps == ProfileNext /\ (patient => ProfilePatiently) /\ UNCHANGED <<patient, place>>
ProfileSpec ==
    ProfileInit /\ PageCalls /\ patient \in BOOLEAN /\ [][ProfileSteps]_<<profileVars, patient>>

\* The chart has the sum up to each vote after the first ones, and then that of now.
SumsAfter(before) ==
    LET n == Len(stored.log)
    IN  chart = [i \in 1..n - before + 1 |->
            Sum(SubSeq(stored.log, 1, IF before + i > n THEN n ELSE before + i))]

\* A patient author sees each draft that there is once, under the name that was given
\* last, and a chart that lacks nothing of the last week and whose points at each vote are
\* the sum of all votes until then, the older ones included (fetchDrafts, discardDraft,
\* saveAlias, calculateScoreOverTime, getScoreLogForUser).
ProfileShown ==
    patient /\ Quiet =>
        /\ draftNodes # <<>> => Range(draftNodes) = stored.drafts /\ IsInjective(draftNodes)
        /\ place = "settings" /\ own => alias.name = stored.name
        /\ chart # None => \E before \in 0..stored.old : SumsAfter(before)
=============================================================================
