------------------------------- MODULE Session --------------------------------
(***************************************************************************)
(* Who is signed in, and the buttons that vote on a card or a comment:     *)
(* user-service.js, vote-button-directive.js, comment-vote-directive.js,   *)
(* and the arcs that vivagraph-directive.js draws for the votes.           *)
(*                                                                         *)
(* A sign-in stores a token, which every later call carries, and asks the  *)
(* server for the user.  Each answer is a new object with the user's       *)
(* votes; a button keeps the object it found when it was made, or the one  *)
(* of the next login if it found none.                                     *)
(***************************************************************************)
EXTENDS Services, FiniteSets

CONSTANTS Account,
          CommentAuthor, \* who wrote the comment
          VoteKind,    \* the kinds of votes on a card that are cast
          Button,
          Target       \* what each button is for: "card" or "comment"

ASSUME SessionAssumption ==
    /\ IsFiniteSet(Account)
    /\ CommentAuthor \in Account \cup {None}
    /\ Target \in [Button -> {"card", "comment"}]
    /\ None \notin Account \cup VoteKind \cup Nat \cup {"up", "down", "absent"}
    /\ "absent" \notin VoteKind

VARIABLES token,         \* the account whose token is stored
          loggedInUser,  \* the object of the user, a position of users
          users,         \* the objects so far: account and votes
          failed,        \* an answer about the user was lost
          button,        \* the buttons: open, user, subscribed, what they show
          counters,      \* the counters of the card on the page
          score,         \* the score of the comment on the page
          arcs,          \* the ring of arcs around the card in the picture
          vote           \* the server's votes

pageVars == <<button, counters, score, arcs>>
userVars == <<token, loggedInUser, users, failed>>
sessionVars == <<call, userVars, pageVars, vote>>

\* A user without votes has no map of them.
Absent == "absent"
MapOf(value) == IF value = None THEN Absent ELSE value
ValueOf(found) == IF found = Absent THEN None ELSE found

\* What a user may have voted, what the server says of a user, and the calls.
Cast == VoteKind \cup {"up", "down"}
UserObject == [account : Account, votes : [{"card", "comment"} -> Cast \cup {None, Absent}]]
UserCall == [task : {"user"}, token : Account \cup {None},
             reply : {None, Refusal} \cup [ok : {TRUE}, user : UserObject \cup {None}]]
VoteCall == [task : {"vote", "revoke"}, token : Account \cup {None}, button : Button,
             value : Cast, before : Cast \cup {None},
             reply : {None, Refusal, [ok |-> TRUE]}]

ASSUME NoneAssumption == None \notin UserObject \cup UserCall \cup VoteCall \cup [ok : BOOLEAN]

\* The ring is divided among the votes, in this order (appendVoteArcs).
VoteOrder == <<"GREAT", "WEAK", "TOUCHE", "TRASH">>
ArcsOf(counts) ==
    LET drawn == SelectSeq(VoteOrder, LAMBDA type : type \in VoteKind /\ counts[type] # 0)
        Before(i) == FoldSeq(+, 0, [j \in 1..i - 1 |-> counts[drawn[j]]])
    IN  [i \in DOMAIN drawn |-> [type |-> drawn[i], from |-> Before(i), to |-> Before(i + 1)]]

VotesCounted == [type \in VoteKind |-> Cardinality({a \in Account : vote[a]["card"] = type})]
Up(value) == IF value = "up" THEN 1 ELSE -1
VotesScored == Cardinality({a \in Account : vote[a]["comment"] = "up"})
                - Cardinality({a \in Account : vote[a]["comment"] = "down"})

Closed == [open |-> FALSE, user |-> None, subscribed |-> FALSE, shown |-> None, meters |-> <<>>]

\* Other users have voted before.
SessionInit ==
    /\ token \in Account \cup {None} /\ loggedInUser = None /\ users = <<>> /\ failed = FALSE
    /\ button = [b \in Button |-> Closed]
    /\ vote \in {[a \in Account |-> [t \in {"card", "comment"} |-> v[t]]] :
                    v \in [card : {None} \cup VoteKind, comment : {None}]}
    /\ counters = VotesCounted /\ score = VotesScored /\ arcs = ArcsOf(counters)

-----------------------------------------------------------------------------
(* Signing in and out.                                                      *)

\* getUserFromServer
AskUser(a) == [task |-> "user", token |-> a, reply |-> None]

\* The service is made with the page.
FirstCalls == \E c \in Call : call = [x \in Call |-> IF x = c THEN AskUser(token) ELSE None]

\* authenticate of the dialog, and of the settings (enrollEmail, refreshUser).  The dialog
\* may have been open since before the user was known.
Authenticate(c, a) ==
    /\ token' = a
    /\ Send(c, AskUser(a))
    /\ UNCHANGED <<loggedInUser, users, failed, pageVars, vote>>

Logout ==
    /\ loggedInUser # None
    /\ token' = None /\ loggedInUser' = None
    /\ UNCHANGED <<call, users, failed, pageVars, vote>>

\* What a button shows after it has looked into a user's votes (getUserVote).
Looked(b, found) == IF found = Absent THEN button[b].shown ELSE found

\* The subscribers of successful-login.
Notified(user, position) ==
    [b \in Button |->
        IF button[b].open /\ button[b].subscribed
        THEN [button[b] EXCEPT !.user = position, !.shown = Looked(b, user.votes[Target[b]])]
        ELSE button[b]]

UserArrives(c) ==
    /\ Succeeded(c, "user")
    /\ Done(c)
    /\ IF call[c].reply.user = None
       THEN UNCHANGED <<loggedInUser, users, button>>
       ELSE /\ users' = Append(users, call[c].reply.user)
            /\ loggedInUser' = Len(users) + 1
            /\ button' = Notified(call[c].reply.user, Len(users) + 1)
    /\ UNCHANGED <<token, failed, counters, score, arcs, vote>>

UserFails(c) ==
    /\ Failed(c, "user")
    /\ Done(c) /\ failed' = TRUE
    /\ UNCHANGED <<token, loggedInUser, users, pageVars, vote>>

-----------------------------------------------------------------------------
(* The buttons.                                                             *)

\* Fault for the checks: the button waits for nobody.
OpenButtonDeaf(b) ==
    /\ ~button[b].open
    /\ button' = [button EXCEPT ![b] = [Closed EXCEPT !.open = TRUE, !.user = loggedInUser]]
    /\ UNCHANGED <<call, userVars, counters, score, arcs, vote>>

\* A button has the user that is known when it is made, and waits for one only if there
\* is none.
OpenButton(b) ==
    /\ ~button[b].open
    /\ \A c \in Call : call[c] # None /\ call[c].task # "user" => call[c].button # b
    /\ button' = [button EXCEPT ![b] =
        [open |-> TRUE, user |-> loggedInUser, subscribed |-> loggedInUser = None,
         shown |-> IF loggedInUser = None THEN None
                   ELSE ValueOf(users[loggedInUser].votes[Target[b]]),
         meters |-> IF Target[b] = "card" THEN counters ELSE <<>>]]
    /\ UNCHANGED <<call, userVars, counters, score, arcs, vote>>

CloseButton(b) ==
    /\ button[b].open
    /\ button' = [button EXCEPT ![b] = [Closed EXCEPT !.user = button[b].user]]
    /\ UNCHANGED <<call, userVars, counters, score, arcs, vote>>

UserControlsAlias(a) == loggedInUser # None /\ users[loggedInUser].account = a

FoundVote(b) == users[button[b].user].votes[Target[b]]
CurrentVote(b) == ValueOf(FoundVote(b))

\* voteClicked: registerVote or revokeVote; without a user, a toast.
VoteClicked(c, b, value) ==
    /\ button[b].open /\ button[b].user # None
    /\ Send(c, [task |-> IF value = CurrentVote(b) THEN "revoke" ELSE "vote",
                token |-> token, button |-> b, value |-> value,
                before |-> CurrentVote(b), reply |-> None])
    /\ button' = [button EXCEPT ![b] = [@ EXCEPT !.shown = Looked(b, FoundVote(b))]]
    /\ UNCHANGED <<userVars, counters, score, arcs, vote>>

\* The same on a comment, and another toast: "Can't vote on your own comment!"
CommentVoteClicked(c, b, value) ==
    /\ Target[b] = "comment"
    /\ ~UserControlsAlias(CommentAuthor)
    /\ VoteClicked(c, b, value)

CardVoteClicked(c, b, value) ==
    /\ Target[b] = "card"
    /\ VoteClicked(c, b, value)

\* setUserVote: also if the button is gone.
UsersWith(b, value) ==
    LET VotedBy(user) == [user EXCEPT !.votes = [user.votes EXCEPT ![Target[b]] = value]]
    IN  [users EXCEPT ![button[b].user] = VotedBy(@)]

\* Fault for the checks: the vote that was changed goes on counting.
RecountedUpwards(before, after) ==
    [type \in VoteKind |-> counters[type] + (IF type = after THEN 1 ELSE 0)
                            - (IF type = before /\ after = None THEN 1 ELSE 0)]

\* The counters after a vote took the place of another, or of none.
Recounted(before, after) ==
    [type \in VoteKind |-> counters[type] + (IF type = after THEN 1 ELSE 0)
                                          - (IF type = before THEN 1 ELSE 0)]

\* "User must be reversing their vote, so there's a two point swing."
Rescored(before, after) ==
    CASE after = None -> score - Up(before)
      [] before # None /\ after # None -> score + 2 * Up(after)
      [] OTHER -> score + Up(after)

\* The picture is told, and draws the arcs anew.
VoteChanged == arcs' = ArcsOf(counters')

\* The success callbacks of registerVote and revokeVote: the user's map, then
VoteArrives(c, task, after) ==
    /\ Succeeded(c, task)
    /\ Done(c)
    /\ after = IF task = "vote" THEN call[c].value ELSE None
    /\ users' = UsersWith(call[c].button, after)
    /\ UNCHANGED <<token, loggedInUser, failed, vote>>

\* the counters, the meters and the picture of a card,
CardVoteArrives(c, task, after) ==
    /\ VoteArrives(c, task, after)
    /\ LET b == call[c].button
       IN  /\ Target[b] = "card"
           /\ counters' = Recounted(call[c].before, after)
           /\ button' = [button EXCEPT ![b] =
                            [@ EXCEPT !.shown = after, !.meters = counters']]
    /\ VoteChanged
    /\ UNCHANGED score

\* or the score of a comment.
CommentVoteArrives(c, task, after) ==
    /\ VoteArrives(c, task, after)
    /\ LET b == call[c].button
       IN  /\ Target[b] = "comment"
           /\ score' = Rescored(call[c].before, after)
           /\ button' = [button EXCEPT ![b] = [@ EXCEPT !.shown = after]]
    /\ UNCHANGED <<counters, arcs>>

VoteFails(c, task) ==
    /\ Failed(c, task)
    /\ Done(c)
    /\ UNCHANGED <<userVars, pageVars, vote>>

-----------------------------------------------------------------------------
(* The server, for the account of the token.                                *)

\* currentUser
ServeUser(c) ==
    /\ Asked(c, "user")
    /\ LET a == call[c].token
           user == IF a = None THEN None
                   ELSE [account |-> a,
                         votes |-> [t \in {"card", "comment"} |-> MapOf(vote[a][t])]]
       IN  Reply(c, [ok |-> TRUE, user |-> user])
    /\ UNCHANGED <<userVars, pageVars, vote>>

\* An own comment is refused; for an own card only the points are not awarded.
MayVote(a, target) == a # None /\ (target = "comment" => a # CommentAuthor)

\* voteBody and voteComment; unvoteBody and unvoteComment, which refuse nobody.
ServeVote(c, task) ==
    /\ Asked(c, task)
    /\ LET a == call[c].token
           target == Target[call[c].button]
           served == IF task = "vote" THEN MayVote(a, target) ELSE a # None
       IN  IF served
           THEN /\ vote' = [vote EXCEPT ![a] = [@ EXCEPT ![target] =
                                IF task = "vote" THEN call[c].value ELSE None]]
                /\ Reply(c, [ok |-> TRUE])
           ELSE UNCHANGED vote /\ Reply(c, Refusal)
    /\ UNCHANGED <<userVars, pageVars>>

LoseCall(c) == Lose(c) /\ UNCHANGED <<userVars, pageVars, vote>>

SessionNext ==
    \/ Logout
    \/ \E b \in Button : OpenButton(b) \/ CloseButton(b)
    \/ \E c \in Call :
        \/ \E a \in Account : Authenticate(c, a)
        \/ \E b \in Button :
            \/ \E value \in VoteKind : CardVoteClicked(c, b, value)
            \/ \E value \in {"up", "down"} : CommentVoteClicked(c, b, value)
        \/ UserArrives(c) \/ UserFails(c) \/ ServeUser(c) \/ LoseCall(c)
        \/ \E task \in {"vote", "revoke"} :
            \/ VoteFails(c, task) \/ ServeVote(c, task)
            \/ \E after \in Cast \cup {None} :
                CardVoteArrives(c, task, after) \/ CommentVoteArrives(c, task, after)

\* The user waits for an answer before doing something else, has one button for each
\* target at a time, signs in as somebody else only after signing out, and both only while
\* no button of a signed-in user is there.
SessionPatiently ==
    /\ LostUnserved
    /\ \A c, d \in Call : ~Together(c, d)
    /\ \A b, d \in Button : button'[b].open /\ button'[d].open /\ Target[b] = Target[d] => b = d
    /\ \A b \in Button, c \in Call :
        button'[b].open /\ ~button[b].open /\ call[c] # None /\ call[c].task # "user" =>
            Target[call[c].button] # Target[b]
    /\ token' # token => token' = None \/ loggedInUser = None
    /\ <<token', loggedInUser'>> # <<token, loggedInUser>> =>
        /\ \A b \in Button : button[b].open => button[b].user = None
        /\ \A c \in Call : call[c] = None \/ UnderWay(c, "user")

SessionSteps == SessionNext /\ (patient => SessionPatiently) /\ UNCHANGED patient
SessionSpec ==
    SessionInit /\ FirstCalls /\ patient \in BOOLEAN
        /\ [][SessionSteps]_<<sessionVars, patient>>

\* Who has signed in becomes known unless the server cannot be asked, and then every
\* button on the page lets them vote, made before or after (subscribeSuccessfulLogin).
SignedInCanVote ==
    /\ token # None /\ ~failed =>
        loggedInUser # None \/ \E c \in Call : UnderWay(c, "user") /\ call[c].token = token
    /\ loggedInUser # None => \A b \in Button : button[b].open => button[b].user # None

\* Votes cast, changed and revoked one after the other, also by users who were not known
\* when the button was made, leave the counters on the card, the points of the comment
\* and the arcs of the picture as many as there are votes, and a button shows the vote
\* of its user (voteClicked and its callbacks).
VotesAgree ==
    patient /\ Quiet =>
        /\ counters = VotesCounted /\ score = VotesScored /\ arcs = ArcsOf(VotesCounted)
        /\ \A b \in Button : button[b].open /\ button[b].user # None =>
            /\ button[b].shown = vote[users[button[b].user].account][Target[b]]
            /\ Target[b] = "card" => button[b].meters = counters
=============================================================================
