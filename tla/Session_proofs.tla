----------------------------- MODULE Session_proofs -----------------------------
(***************************************************************************)
(* Proofs about the user service and the vote buttons, for any accounts,   *)
(* votes and buttons, and any number of calls: whoever has signed in can   *)
(* vote on every button of the page, and, for a patient user, the page     *)
(* shows the votes that the server has.                                    *)
(***************************************************************************)
EXTENDS Session, SequenceTheorems, FiniteSetTheorems, TLAPS

-----------------------------------------------------------------------------
(***************************************************************************)
(* The inductive invariant.                                                *)
(***************************************************************************)

Fields == {"open", "user", "subscribed", "shown", "meters"}
Users == {None} \cup (1..Len(users))

\* The state of the server, of the calls and of the user service.
ServiceTypeOK ==
    /\ call \in [Call -> {None} \cup UserCall \cup VoteCall]
    /\ token \in Account \cup {None}
    /\ users \in Seq(UserObject)
    /\ loggedInUser \in Users
    /\ vote \in [Account -> [{"card", "comment"} -> Cast \cup {None}]]

ButtonsTypeOK ==
    /\ DOMAIN button = Button
    /\ \A b \in Button : DOMAIN button[b] = Fields /\ button[b].user \in Users

\* A token is answered with its user.
TokenAnswered ==
    \A c \in Call : Succeeded(c, "user") /\ call[c].token # None => call[c].reply.user # None

\* A button without a user waits for one.
ButtonsWait == \A b \in Button : button[b].open => button[b].user # None \/ button[b].subscribed

\* Whoever has a token is known or asked for, unless an answer was lost.
UserKnown ==
    token # None /\ ~failed =>
        loggedInUser # None \/ \E c \in Call : UnderWay(c, "user") /\ call[c].token = token

ButtonsKnow ==
    loggedInUser # None => \A b \in Button : button[b].open => button[b].user # None

SessionInv ==
    /\ ServiceTypeOK /\ ButtonsTypeOK
    /\ TokenAnswered /\ ButtonsWait /\ UserKnown /\ ButtonsKnow

-----------------------------------------------------------------------------
(***************************************************************************)
(* Facts about calls.                                                      *)
(***************************************************************************)

\* A call that is sent is under way, and the others stay as they are.
LEMMA SendFacts ==
  ASSUME ServiceTypeOK, NEW c \in Call, NEW request \in UserCall \cup VoteCall,
         Send(c, request)
  PROVE  /\ call' \in [Call -> {None} \cup UserCall \cup VoteCall]
         /\ call[c] = None /\ call'[c] = request /\ request # None
         /\ \A d \in Call \ {c} : call'[d] = call[d]
BY NoneAssumption DEF ServiceTypeOK, Send

\* A call that is done is gone.
LEMMA DoneFacts ==
  ASSUME ServiceTypeOK, NEW c \in Call, Done(c)
  PROVE  /\ call' \in [Call -> {None} \cup UserCall \cup VoteCall]
         /\ call'[c] = None
         /\ \A d \in Call \ {c} : call'[d] = call[d]
BY DEF ServiceTypeOK, Done

\* A task tells the calls about users from those about votes.
LEMMA TaskFacts ==
  ASSUME ServiceTypeOK, NEW c \in Call
  PROVE  /\ UnderWay(c, "user") => call[c] \in UserCall
         /\ \A task \in {"vote", "revoke"} :
                UnderWay(c, task) => call[c] \in VoteCall /\ ~UnderWay(c, "user")
BY DEF ServiceTypeOK, UnderWay, UserCall, VoteCall

\* A call keeps its task and token when it is answered or lost.
LEMMA ReplyFacts ==
  ASSUME ServiceTypeOK, NEW c \in Call, NEW reply, call[c] # None, Reply(c, reply),
         call[c] \in UserCall =>
            reply \in {Refusal} \cup [ok : {TRUE}, user : UserObject \cup {None}],
         call[c] \in VoteCall => reply \in {Refusal, [ok |-> TRUE]}
  PROVE  /\ call' \in [Call -> {None} \cup UserCall \cup VoteCall]
         /\ call'[c] # None /\ call'[c].task = call[c].task
         /\ call'[c].token = call[c].token /\ call'[c].reply = reply
         /\ \A d \in Call \ {c} : call'[d] = call[d]
<1>1. call[c] \in UserCall \/ call[c] \in VoteCall
  BY DEF ServiceTypeOK
<1>2. call'[c] = [call[c] EXCEPT !.reply = reply] /\ DOMAIN call' = Call
  BY DEF ServiceTypeOK, Reply
<1>3. \A d \in Call \ {c} : call'[d] = call[d]
  BY DEF ServiceTypeOK, Reply
<1>4. CASE call[c] \in UserCall
  <2>1. call'[c] \in UserCall
    BY <1>2, <1>4 DEF UserCall
  <2>2. call'[c].task = call[c].task /\ call'[c].token = call[c].token /\ call'[c].reply = reply
    BY <1>2, <1>4 DEF UserCall
  <2>3. call' \in [Call -> {None} \cup UserCall \cup VoteCall]
    BY <2>1 DEF ServiceTypeOK, Reply
  <2> QED BY <1>3, <2>1, <2>2, <2>3, NoneAssumption
<1>5. CASE call[c] \in VoteCall
  <2>1. call'[c] \in VoteCall
    BY <1>2, <1>5 DEF VoteCall
  <2>2. call'[c].task = call[c].task /\ call'[c].token = call[c].token /\ call'[c].reply = reply
    BY <1>2, <1>5 DEF VoteCall
  <2>3. call' \in [Call -> {None} \cup UserCall \cup VoteCall]
    BY <2>1 DEF ServiceTypeOK, Reply
  <2> QED BY <1>3, <2>1, <2>2, <2>3, NoneAssumption
<1> QED BY <1>1, <1>4, <1>5

-----------------------------------------------------------------------------
(***************************************************************************)
(* The invariant holds initially, and every step keeps it.                 *)
(***************************************************************************)

\* When the page is opened, no button is there and the user of the token is asked for.
LEMMA InitInv == SessionInit /\ FirstCalls => SessionInv
<1> SUFFICES ASSUME SessionInit, FirstCalls PROVE SessionInv
  OBVIOUS
<1>1. PICK c \in Call : call = [x \in Call |-> IF x = c THEN AskUser(token) ELSE None]
  BY DEF FirstCalls
<1>2. AskUser(token) \in UserCall
  BY DEF SessionInit, AskUser, UserCall
<1>3. call[c] # None /\ call[c].task = "user" /\ call[c].token = token /\ call[c].reply = None
  BY <1>1, <1>2, NoneAssumption DEF AskUser
<1>4. vote \in [Account -> [{"card", "comment"} -> Cast \cup {None}]]
  BY DEF SessionInit, Cast
<1>5. ServiceTypeOK
  BY <1>1, <1>2, <1>4 DEF SessionInit, ServiceTypeOK, Users
<1>6. ButtonsTypeOK /\ ButtonsWait /\ ButtonsKnow
  BY DEF SessionInit, ButtonsTypeOK, ButtonsWait, ButtonsKnow, Closed, Fields, Users
<1>7. TokenAnswered
  BY <1>1, <1>3 DEF TokenAnswered, Succeeded, Replied, UnderWay
<1>8. UserKnown
  BY <1>3 DEF UserKnown, UnderWay
<1> QED BY <1>5, <1>6, <1>7, <1>8 DEF SessionInv

\* Signing in asks for the user of the new token.
LEMMA AuthenticateInv ==
  ASSUME SessionInv, NEW c \in Call, NEW a \in Account, Authenticate(c, a)
  PROVE  SessionInv'
<1>1. AskUser(a) \in UserCall
  BY DEF AskUser, UserCall
<1>2. /\ call' \in [Call -> {None} \cup UserCall \cup VoteCall]
      /\ call'[c] = AskUser(a) /\ AskUser(a) # None
      /\ \A d \in Call \ {c} : call'[d] = call[d]
  BY <1>1, SendFacts DEF SessionInv, Authenticate
<1>3. call'[c].task = "user" /\ call'[c].token = a /\ call'[c].reply = None
  BY <1>2 DEF AskUser
<1>4. UNCHANGED <<loggedInUser, users, failed, button, vote>> /\ token' = a
  BY DEF Authenticate, pageVars
<1>5. ServiceTypeOK'
  BY <1>2, <1>4 DEF SessionInv, ServiceTypeOK, Users
<1>6. ButtonsTypeOK' /\ ButtonsWait' /\ ButtonsKnow'
  BY <1>4 DEF SessionInv, ButtonsTypeOK, ButtonsWait, ButtonsKnow, Users
<1>7. TokenAnswered'
  BY <1>2, <1>3 DEF SessionInv, TokenAnswered, Succeeded, Replied, UnderWay
<1>8. UserKnown'
  BY <1>2, <1>3, <1>4 DEF UserKnown, UnderWay
<1> QED BY <1>5, <1>6, <1>7, <1>8 DEF SessionInv

LEMMA LogoutInv ==
  ASSUME SessionInv, Logout
  PROVE  SessionInv'
<1>1. /\ UNCHANGED <<call, users, failed, button, vote>>
      /\ token' = None /\ loggedInUser' = None
  BY DEF Logout, pageVars
<1>2. ServiceTypeOK'
  BY <1>1 DEF SessionInv, ServiceTypeOK, Users
<1>3. ButtonsTypeOK' /\ ButtonsWait' /\ ButtonsKnow'
  BY <1>1 DEF SessionInv, ButtonsTypeOK, ButtonsWait, ButtonsKnow, Users
<1>4. TokenAnswered' /\ UserKnown'
  BY <1>1 DEF SessionInv, TokenAnswered, UserKnown, Succeeded, Replied, UnderWay
<1> QED BY <1>2, <1>3, <1>4 DEF SessionInv

\* A button that is opened has the user, or waits for one.
LEMMA ButtonInv ==
  ASSUME SessionInv, NEW b \in Button, OpenButton(b) \/ CloseButton(b)
  PROVE  SessionInv'
<1>1. UNCHANGED <<call, token, loggedInUser, users, failed, vote>>
  BY DEF OpenButton, CloseButton, userVars
<1>2. ServiceTypeOK' /\ TokenAnswered' /\ UserKnown'
  BY <1>1 DEF SessionInv, ServiceTypeOK, Users, TokenAnswered, UserKnown, Succeeded, Replied,
              UnderWay
<1>3. CASE OpenButton(b)
  <2>1. /\ DOMAIN button' = Button /\ DOMAIN button'[b] = Fields
        /\ button'[b].user = loggedInUser
        /\ button'[b].subscribed = (loggedInUser = None)
    BY <1>3 DEF SessionInv, ButtonsTypeOK, OpenButton, Fields
  <2>2. \A d \in Button \ {b} : button'[d] = button[d]
    BY <1>3 DEF SessionInv, ButtonsTypeOK, OpenButton
  <2> QED BY <1>1, <1>2, <2>1, <2>2
          DEF SessionInv, ServiceTypeOK, ButtonsTypeOK, ButtonsWait, ButtonsKnow, Users
<1>4. CASE CloseButton(b)
  <2>1. /\ DOMAIN button' = Button /\ DOMAIN button'[b] = Fields
        /\ button'[b].user = button[b].user /\ button'[b].open = FALSE
    BY <1>4 DEF SessionInv, ButtonsTypeOK, CloseButton, Closed, Fields
  <2>2. \A d \in Button \ {b} : button'[d] = button[d]
    BY <1>4 DEF SessionInv, ButtonsTypeOK, CloseButton
  <2> QED BY <1>1, <1>2, <2>1, <2>2
          DEF SessionInv, ButtonsTypeOK, ButtonsWait, ButtonsKnow, Users
<1> QED BY <1>3, <1>4

\* A known user reaches every button that waits.
LEMMA UserArrivesInv ==
  ASSUME SessionInv, NEW c \in Call, UserArrives(c)
  PROVE  SessionInv'
<1> DEFINE user == call[c].reply.user
           position == Len(users) + 1
<1>1. UNCHANGED <<token, failed, vote>>
  BY DEF UserArrives
<1>2. /\ call' \in [Call -> {None} \cup UserCall \cup VoteCall]
      /\ call'[c] = None /\ \A d \in Call \ {c} : call'[d] = call[d]
  BY DoneFacts DEF SessionInv, UserArrives
<1>3. TokenAnswered'
  BY <1>2 DEF SessionInv, TokenAnswered, Succeeded, Replied, UnderWay
<1>4. user \in UserObject \cup {None}
  <2>1. call[c] \in UserCall /\ call[c].reply # None /\ call[c].reply.ok
    BY TaskFacts DEF SessionInv, UserArrives, Succeeded, Replied
  <2>2. call[c].reply \in {None, Refusal} \cup [ok : {TRUE}, user : UserObject \cup {None}]
    BY <2>1 DEF UserCall
  <2>3. Refusal.ok = FALSE
    BY DEF Refusal
  <2>4. call[c].reply \in [ok : {TRUE}, user : UserObject \cup {None}]
    BY <2>1, <2>2, <2>3
  <2> QED BY <2>4
<1>5. CASE user = None
  <2>1. UNCHANGED <<loggedInUser, users, button>>
    BY <1>5 DEF UserArrives
  <2>2. ServiceTypeOK' /\ ButtonsTypeOK' /\ ButtonsWait' /\ ButtonsKnow'
    BY <1>1, <1>2, <2>1 DEF SessionInv, ServiceTypeOK, ButtonsTypeOK, ButtonsWait, ButtonsKnow, Users
  <2>3. call[c].token = None
    BY <1>5 DEF SessionInv, TokenAnswered, UserArrives
  <2>4. UserKnown'
    BY <1>1, <1>2, <2>1, <2>3 DEF SessionInv, UserKnown, UnderWay
  <2> QED BY <1>3, <2>2, <2>4 DEF SessionInv
<1>6. CASE user # None
  <2>1. /\ users' = Append(users, user) /\ loggedInUser' = position
        /\ button' = Notified(user, position)
    BY <1>6 DEF UserArrives
  <2>2. /\ users \in Seq(UserObject) /\ user \in UserObject
        /\ Len(users) \in Nat /\ position \in Nat /\ position # None
    BY <1>4, <1>6, SessionAssumption DEF SessionInv, ServiceTypeOK
  <2>3. users' \in Seq(UserObject) /\ Len(users') = position
    BY <2>1, <2>2
  <2>4. /\ DOMAIN button' = Button
        /\ \A b \in Button :
            /\ DOMAIN button'[b] = Fields /\ button'[b].open = button[b].open
            /\ IF button[b].open /\ button[b].subscribed
               THEN button'[b].user = position ELSE button'[b].user = button[b].user
    BY <2>1 DEF SessionInv, ButtonsTypeOK, Notified, Fields
  <2>5. \A b \in Button : button'[b].open => button'[b].user # None
    BY <2>2, <2>4 DEF SessionInv, ButtonsWait
  <2>6. Users \cup {position} \subseteq Users'
    BY <2>2, <2>3 DEF Users
  <2>7. ServiceTypeOK' /\ ButtonsTypeOK'
    BY <1>1, <1>2, <2>1, <2>3, <2>4, <2>6 DEF SessionInv, ServiceTypeOK, ButtonsTypeOK
  <2>8. ButtonsWait' /\ ButtonsKnow' /\ UserKnown'
    BY <2>1, <2>2, <2>5 DEF ButtonsWait, ButtonsKnow, UserKnown
  <2> QED BY <1>3, <2>7, <2>8 DEF SessionInv
<1> QED BY <1>5, <1>6

\* After a lost answer nothing is promised.
LEMMA UserFailsInv ==
  ASSUME SessionInv, NEW c \in Call, UserFails(c)
  PROVE  SessionInv'
<1>1. UNCHANGED <<token, loggedInUser, users, button, vote>> /\ failed' = TRUE
  BY DEF UserFails, pageVars
<1>2. /\ call' \in [Call -> {None} \cup UserCall \cup VoteCall]
      /\ call'[c] = None /\ \A d \in Call \ {c} : call'[d] = call[d]
  BY DoneFacts DEF SessionInv, UserFails
<1>3. ServiceTypeOK' /\ ButtonsTypeOK' /\ ButtonsWait' /\ ButtonsKnow'
  BY <1>1, <1>2 DEF SessionInv, ServiceTypeOK, ButtonsTypeOK, ButtonsWait, ButtonsKnow, Users
<1>4. TokenAnswered' /\ UserKnown'
  BY <1>1, <1>2 DEF SessionInv, TokenAnswered, UserKnown, Succeeded, Replied, UnderWay
<1> QED BY <1>3, <1>4 DEF SessionInv

\* A vote that is sent asks for no user and leaves the users of the buttons.
LEMMA VoteClickedInv ==
  ASSUME SessionInv, NEW c \in Call, NEW b \in Button, NEW value \in Cast,
         VoteClicked(c, b, value)
  PROVE  SessionInv'
<1> DEFINE request == [task |-> IF value = CurrentVote(b) THEN "revoke" ELSE "vote",
                       token |-> token, button |-> b, value |-> value,
                       before |-> CurrentVote(b), reply |-> None]
<1>1. UNCHANGED <<token, loggedInUser, users, failed, vote>> /\ Send(c, request)
  BY DEF VoteClicked, userVars
<1>2. CurrentVote(b) \in Cast \cup {None}
  <2>1. button[b].user \in 1..Len(users) /\ users \in Seq(UserObject)
    BY DEF SessionInv, ServiceTypeOK, ButtonsTypeOK, VoteClicked, Users
  <2>2. users[button[b].user] \in UserObject /\ Target[b] \in {"card", "comment"}
    BY <2>1, SessionAssumption
  <2>3. FoundVote(b) \in Cast \cup {None, Absent}
    BY <2>2 DEF UserObject, FoundVote
  <2> QED BY <2>3 DEF CurrentVote, ValueOf
<1>3. request \in VoteCall
  BY <1>2 DEF SessionInv, ServiceTypeOK, VoteCall
<1>4. /\ call' \in [Call -> {None} \cup UserCall \cup VoteCall]
      /\ call[c] = None /\ call'[c] = request
      /\ \A d \in Call \ {c} : call'[d] = call[d]
  BY <1>1, <1>3, SendFacts DEF SessionInv
<1>5. call'[c].task \in {"vote", "revoke"}
  BY <1>4
<1>6. /\ DOMAIN button' = Button
      /\ \A d \in Button :
            /\ DOMAIN button'[d] = Fields /\ button'[d].open = button[d].open
            /\ button'[d].user = button[d].user /\ button'[d].subscribed = button[d].subscribed
  BY DEF SessionInv, ButtonsTypeOK, VoteClicked, Fields
<1>7. ServiceTypeOK' /\ ButtonsTypeOK' /\ ButtonsWait' /\ ButtonsKnow'
  BY <1>1, <1>4, <1>6 DEF SessionInv, ServiceTypeOK, ButtonsTypeOK, ButtonsWait, ButtonsKnow, Users
<1>8. TokenAnswered' /\ UserKnown'
  BY <1>1, <1>4, <1>5 DEF SessionInv, TokenAnswered, UserKnown, Succeeded, Replied, UnderWay
<1> QED BY <1>7, <1>8 DEF SessionInv

\* The user's map has the vote that was answered; its button keeps its user.
LEMMA UsersWithFacts ==
  ASSUME SessionInv, NEW b \in Button, NEW value \in Cast \cup {None}
  PROVE  UsersWith(b, value) \in Seq(UserObject) /\ Len(UsersWith(b, value)) = Len(users)
<1> DEFINE i == button[b].user
<1>1. users \in Seq(UserObject) /\ Len(users) \in Nat /\ Target[b] \in {"card", "comment"}
  BY SessionAssumption DEF SessionInv, ServiceTypeOK
<1>2. CASE i \in 1..Len(users)
  <2>1. users[i] \in UserObject
    BY <1>1, <1>2
  <2>2. [users[i].votes EXCEPT ![Target[b]] = value]
            \in [{"card", "comment"} -> Cast \cup {None, Absent}]
    BY <1>1, <2>1 DEF UserObject
  <2>3. [users[i] EXCEPT !.votes = [users[i].votes EXCEPT ![Target[b]] = value]] \in UserObject
    BY <2>1, <2>2 DEF UserObject
  <2> QED BY <1>1, <1>2, <2>3 DEF UsersWith
<1>3. CASE i \notin 1..Len(users)
  <2>1. UsersWith(b, value) = users
    BY <1>1, <1>3 DEF UsersWith
  <2> QED BY <1>1, <2>1
<1> QED BY <1>2, <1>3

\* The answer of a vote changes no user of a button, and asks for none.
LEMMA VoteArrivesInv ==
  ASSUME SessionInv, NEW c \in Call, NEW task \in {"vote", "revoke"},
         NEW after \in Cast \cup {None},
         CardVoteArrives(c, task, after) \/ CommentVoteArrives(c, task, after)
  PROVE  SessionInv'
<1> DEFINE b == call[c].button
<1>1. /\ UNCHANGED <<token, loggedInUser, failed, vote>> /\ Done(c) /\ UnderWay(c, task)
      /\ users' = UsersWith(b, after)
  BY DEF CardVoteArrives, CommentVoteArrives, VoteArrives, Succeeded, Replied
<1>2. /\ call' \in [Call -> {None} \cup UserCall \cup VoteCall]
      /\ call'[c] = None /\ \A d \in Call \ {c} : call'[d] = call[d]
  BY <1>1, DoneFacts DEF SessionInv
<1>3. b \in Button /\ ~UnderWay(c, "user")
  BY <1>1, TaskFacts DEF SessionInv, VoteCall
<1>4. users' \in Seq(UserObject) /\ Users' = Users
  BY <1>1, <1>3, UsersWithFacts DEF Users
<1>5. /\ DOMAIN button' = Button
      /\ \A d \in Button :
            /\ DOMAIN button'[d] = Fields /\ button'[d].open = button[d].open
            /\ button'[d].user = button[d].user /\ button'[d].subscribed = button[d].subscribed
  <2>1. CASE CardVoteArrives(c, task, after)
    <3>1. button' = [button EXCEPT ![b] = [@ EXCEPT !.shown = after, !.meters = counters']]
      BY <2>1 DEF CardVoteArrives
    <3> QED BY <3>1 DEF SessionInv, ButtonsTypeOK, Fields
  <2>2. CASE CommentVoteArrives(c, task, after)
    <3>1. button' = [button EXCEPT ![b] = [@ EXCEPT !.shown = after]]
      BY <2>2 DEF CommentVoteArrives
    <3> QED BY <3>1 DEF SessionInv, ButtonsTypeOK, Fields
  <2> QED BY <2>1, <2>2
<1>6. ServiceTypeOK' /\ ButtonsTypeOK' /\ ButtonsWait' /\ ButtonsKnow'
  BY <1>1, <1>2, <1>4, <1>5 DEF SessionInv, ServiceTypeOK, ButtonsTypeOK, ButtonsWait, ButtonsKnow
<1>7. TokenAnswered' /\ UserKnown'
  BY <1>1, <1>2, <1>3 DEF SessionInv, TokenAnswered, UserKnown, Succeeded, Replied, UnderWay
<1> QED BY <1>6, <1>7 DEF SessionInv

\* Neither does one that failed.
LEMMA VoteFailsInv ==
  ASSUME SessionInv, NEW c \in Call, NEW task \in {"vote", "revoke"}, VoteFails(c, task)
  PROVE  SessionInv'
<1>1. UNCHANGED <<token, loggedInUser, users, failed, button, vote>> /\ Done(c) /\ UnderWay(c, task)
  BY DEF VoteFails, Failed, Replied, userVars, pageVars
<1>2. /\ call' \in [Call -> {None} \cup UserCall \cup VoteCall]
      /\ call'[c] = None /\ \A d \in Call \ {c} : call'[d] = call[d]
  BY <1>1, DoneFacts DEF SessionInv
<1>3. ~UnderWay(c, "user")
  BY <1>1, TaskFacts DEF SessionInv
<1>4. ServiceTypeOK' /\ ButtonsTypeOK' /\ ButtonsWait' /\ ButtonsKnow'
  BY <1>1, <1>2 DEF SessionInv, ServiceTypeOK, ButtonsTypeOK, ButtonsWait, ButtonsKnow, Users
<1>5. TokenAnswered' /\ UserKnown'
  BY <1>1, <1>2, <1>3 DEF SessionInv, TokenAnswered, UserKnown, Succeeded, Replied, UnderWay
<1> QED BY <1>4, <1>5 DEF SessionInv

\* What an answer, or the loss of one, leaves alone: the page and who is signed in.
LEMMA AnswerInv ==
  ASSUME SessionInv, NEW c \in Call, NEW reply, call[c] # None, Reply(c, reply),
         call[c] \in UserCall =>
            reply \in {Refusal} \cup [ok : {TRUE}, user : UserObject \cup {None}],
         call[c] \in VoteCall => reply \in {Refusal, [ok |-> TRUE]},
         call[c] \in UserCall /\ reply # Refusal /\ call[c].token # None => reply.user # None,
         UNCHANGED <<userVars, pageVars>>,
         vote' \in [Account -> [{"card", "comment"} -> Cast \cup {None}]]
  PROVE  SessionInv'
<1>1. UNCHANGED <<token, loggedInUser, users, failed, button>>
  BY DEF userVars, pageVars
<1>2. /\ call' \in [Call -> {None} \cup UserCall \cup VoteCall]
      /\ call'[c] # None /\ call'[c].task = call[c].task
      /\ call'[c].token = call[c].token /\ call'[c].reply = reply
      /\ \A d \in Call \ {c} : call'[d] = call[d]
  BY ReplyFacts DEF SessionInv
<1>3. ServiceTypeOK' /\ ButtonsTypeOK' /\ ButtonsWait' /\ ButtonsKnow'
  BY <1>1, <1>2 DEF SessionInv, ServiceTypeOK, ButtonsTypeOK, ButtonsWait, ButtonsKnow, Users
<1>4. UserKnown'
  BY <1>1, <1>2 DEF SessionInv, UserKnown, UnderWay
<1>5. TokenAnswered'
  <2>1. ASSUME Succeeded(c, "user")', call'[c].token # None PROVE call'[c].reply.user # None
    <3>1. call[c] \in UserCall
      BY <1>2, <2>1, TaskFacts DEF SessionInv, Succeeded, Replied, UnderWay
    <3>2. reply # Refusal
      BY <1>2, <2>1 DEF Succeeded, Refusal
    <3> QED BY <1>2, <2>1, <3>1, <3>2
  <2> QED BY <1>2, <2>1 DEF SessionInv, TokenAnswered, Succeeded, Replied, UnderWay
<1> QED BY <1>3, <1>4, <1>5 DEF SessionInv

\* The server answers for the account of the token, if there is one.
LEMMA ServeUserInv ==
  ASSUME SessionInv, NEW c \in Call, ServeUser(c)
  PROVE  SessionInv'
<1> DEFINE a == call[c].token
           user == IF a = None THEN None
                   ELSE [account |-> a,
                         votes |-> [t \in {"card", "comment"} |-> MapOf(vote[a][t])]]
           reply == [ok |-> TRUE, user |-> user]
<1>1. Reply(c, reply) /\ UNCHANGED <<userVars, pageVars, vote>> /\ UnderWay(c, "user")
  BY DEF ServeUser, Asked
<1>2. call[c] \in UserCall
  BY <1>1, TaskFacts DEF SessionInv
<1>3. call[c] \notin VoteCall
  BY <1>1 DEF UnderWay, VoteCall
<1>4. ASSUME a # None PROVE user \in UserObject
  <2>1. a \in Account
    BY <1>2, <1>4 DEF UserCall
  <2>2. \A t \in {"card", "comment"} : MapOf(vote[a][t]) \in Cast \cup {None, Absent}
    BY <2>1 DEF SessionInv, ServiceTypeOK, MapOf
  <2> QED BY <1>4, <2>1, <2>2 DEF UserObject
<1>5. reply \in [ok : {TRUE}, user : UserObject \cup {None}]
  BY <1>4
<1>6. a # None => reply.user # None
  BY <1>4, NoneAssumption
<1>7. vote' \in [Account -> [{"card", "comment"} -> Cast \cup {None}]]
  BY <1>1 DEF SessionInv, ServiceTypeOK
<1>8. call[c] # None
  BY <1>2, NoneAssumption
<1> HIDE DEF reply, user
<1> QED BY <1>1, <1>2, <1>3, <1>5, <1>6, <1>7, <1>8, AnswerInv

\* A vote changes nothing that the page knows until it is answered.
LEMMA ServeVoteInv ==
  ASSUME SessionInv, NEW c \in Call, NEW task \in {"vote", "revoke"}, ServeVote(c, task)
  PROVE  SessionInv'
<1> DEFINE a == call[c].token
           target == Target[call[c].button]
           value == IF task = "vote" THEN call[c].value ELSE None
           served == IF task = "vote" THEN MayVote(a, target) ELSE a # None
<1>1. UNCHANGED <<userVars, pageVars>> /\ UnderWay(c, task)
  BY DEF ServeVote, Asked
<1>2. call[c] \in VoteCall /\ call[c] \notin UserCall /\ call[c] # None
  BY <1>1, TaskFacts, NoneAssumption DEF SessionInv, UserCall, UnderWay
<1>3. CASE served
  <2>1. Reply(c, [ok |-> TRUE]) /\ vote' = [vote EXCEPT ![a] = [@ EXCEPT ![target] = value]]
    BY <1>3 DEF ServeVote
  <2>2. a \in Account /\ target \in {"card", "comment"} /\ value \in Cast \cup {None}
    BY <1>2, <1>3, SessionAssumption DEF VoteCall, MayVote
  <2>3. vote' \in [Account -> [{"card", "comment"} -> Cast \cup {None}]]
    BY <2>1, <2>2 DEF SessionInv, ServiceTypeOK
  <2> QED BY <1>1, <1>2, <2>1, <2>3, AnswerInv
<1>4. CASE ~served
  <2>1. Reply(c, Refusal) /\ vote' = vote
    BY <1>4 DEF ServeVote
  <2>2. vote' \in [Account -> [{"card", "comment"} -> Cast \cup {None}]]
    BY <2>1 DEF SessionInv, ServiceTypeOK
  <2> QED BY <1>1, <1>2, <2>1, <2>2, AnswerInv
<1> QED BY <1>3, <1>4

LEMMA LoseCallInv ==
  ASSUME SessionInv, NEW c \in Call, LoseCall(c)
  PROVE  SessionInv'
<1>1. Reply(c, Refusal) /\ call[c] # None /\ UNCHANGED <<userVars, pageVars, vote>>
  BY DEF LoseCall, Lose
<1>2. vote' \in [Account -> [{"card", "comment"} -> Cast \cup {None}]]
  BY <1>1 DEF SessionInv, ServiceTypeOK
<1> QED BY <1>1, <1>2, AnswerInv

\* Every step of the page and of the server keeps the invariant.
LEMMA StepInv == SessionInv /\ [SessionNext]_sessionVars => SessionInv'
<1> SUFFICES ASSUME SessionInv, [SessionNext]_sessionVars PROVE SessionInv'
  OBVIOUS
<1>1. CASE Logout
  BY <1>1, LogoutInv
<1>2. ASSUME NEW b \in Button, OpenButton(b) \/ CloseButton(b) PROVE SessionInv'
  BY <1>2, ButtonInv
<1>3. ASSUME NEW c \in Call, NEW a \in Account, Authenticate(c, a) PROVE SessionInv'
  BY <1>3, AuthenticateInv
<1>4. ASSUME NEW c \in Call, NEW b \in Button, NEW value \in Cast,
             CardVoteClicked(c, b, value) \/ CommentVoteClicked(c, b, value)
      PROVE  SessionInv'
  BY <1>4, VoteClickedInv DEF CardVoteClicked, CommentVoteClicked
<1>5. ASSUME NEW c \in Call, UserArrives(c) \/ UserFails(c) \/ ServeUser(c) \/ LoseCall(c)
      PROVE  SessionInv'
  BY <1>5, UserArrivesInv, UserFailsInv, ServeUserInv, LoseCallInv
<1>6. ASSUME NEW c \in Call, NEW task \in {"vote", "revoke"},
             \/ VoteFails(c, task) \/ ServeVote(c, task)
             \/ \E after \in Cast \cup {None} :
                    CardVoteArrives(c, task, after) \/ CommentVoteArrives(c, task, after)
      PROVE  SessionInv'
  BY <1>6, VoteFailsInv, ServeVoteInv, VoteArrivesInv
<1>7. CASE UNCHANGED sessionVars
  <2>1. UNCHANGED <<call, token, loggedInUser, users, failed, button, vote>>
    BY <1>7 DEF sessionVars, userVars, pageVars
  <2> QED BY <2>1 DEF SessionInv, ServiceTypeOK, ButtonsTypeOK, TokenAnswered, ButtonsWait,
                      UserKnown, ButtonsKnow, Users, Succeeded, Replied, UnderWay
<1>8. VoteKind \subseteq Cast /\ {"up", "down"} \subseteq Cast
  BY DEF Cast
<1> QED BY <1>1, <1>2, <1>3, <1>4, <1>5, <1>6, <1>7, <1>8 DEF SessionNext

-----------------------------------------------------------------------------
(***************************************************************************)
(* While the user is patient: what the page shows and what the server has. *)
(***************************************************************************)

Targets == {"card", "comment"}
Values(t) == IF t = "card" THEN VoteKind ELSE {"up", "down"}
VoteMaps == [Account -> [Targets -> Cast \cup {None}]]
Self == users[loggedInUser].account

Voting(c) == UnderWay(c, "vote") \/ UnderWay(c, "revoke")
Unheard(c) == Succeeded(c, "vote") \/ Succeeded(c, "revoke")
After(c) == IF call[c].task = "vote" THEN call[c].value ELSE None

\* The votes as the page knows them: without one whose answer is on its way.
WithVote(votes, a, t, value) == [votes EXCEPT ![a] = [@ EXCEPT ![t] = value]]
Without(c) == WithVote(vote, call[c].token, Target[call[c].button], call[c].before)
KnownVotes ==
    IF \E c \in Call : Unheard(c) THEN Without(CHOOSE c \in Call : Unheard(c)) ELSE vote

\* One call at a time, and one button for a target.
OneCall == \A c, d \in Call : call[c] # None /\ call[d] # None => c = d
OneButton ==
    \A b, d \in Button : button[b].open /\ button[d].open /\ Target[b] = Target[d] => b = d

TokenIsOfUser ==
    /\ loggedInUser # None => token \in {None, Self}
    /\ \A c \in Call : UnderWay(c, "user") => token \in {None, call[c].token}

\* The user's map, and the one that is on its way.
MapsKnow ==
    /\ loggedInUser # None =>
        \A t \in Targets : ValueOf(users[loggedInUser].votes[t]) = KnownVotes[Self][t]
    /\ \A c \in Call : Succeeded(c, "user") /\ call[c].reply.user # None =>
        /\ call[c].reply.user.account = call[c].token
        /\ \A t \in Targets :
            ValueOf(call[c].reply.user.votes[t]) = KnownVotes[call[c].token][t]

ButtonsShow ==
    \A b \in Button : button[b].open =>
        /\ Target[b] = "card" => button[b].meters = counters
        /\ button[b].user = None => button[b].shown = None
        /\ button[b].user # None =>
            button[b].user = loggedInUser /\ button[b].shown = KnownVotes[Self][Target[b]]

\* A vote is cast with the button of the user, for what the user is known to have voted.
VotesSent ==
    \A c \in Call : Voting(c) =>
        /\ loggedInUser # None /\ button[call[c].button].user = loggedInUser
        /\ call[c].token = token
        /\ \A d \in Button : button[d].open /\ Target[d] = Target[call[c].button] => d = call[c].button
        /\ call[c].value \in Values(Target[call[c].button])
        /\ call[c].before = KnownVotes[Self][Target[call[c].button]]
        /\ call[c].task = "revoke" <=> call[c].value = call[c].before
        /\ Unheard(c) => token # None /\ vote[Self][Target[call[c].button]] = After(c)

VotesTyped ==
    /\ KnownVotes \in VoteMaps
    /\ \A a \in Account, t \in Targets :
        vote[a][t] \in Values(t) \cup {None} /\ KnownVotes[a][t] \in Values(t) \cup {None}

Tally(votes, t, value) == Cardinality({a \in Account : votes[a][t] = value})
Tallied ==
    /\ counters = [type \in VoteKind |-> Tally(KnownVotes, "card", type)]
    /\ score = Tally(KnownVotes, "comment", "up") - Tally(KnownVotes, "comment", "down")
    /\ arcs = ArcsOf(counters)

PatientInv ==
    /\ OneCall /\ OneButton /\ TokenIsOfUser /\ MapsKnow /\ ButtonsShow /\ VotesSent
    /\ VotesTyped /\ Tallied


-----------------------------------------------------------------------------
(***************************************************************************)
(* Facts about what is known of the votes.                                 *)
(***************************************************************************)

\* As long as no answer to a vote is on its way, the page knows all votes.
LEMMA NoneUnheard == (\A c \in Call : ~Unheard(c)) => KnownVotes = vote
BY DEF KnownVotes

\* The page knows all votes but that one.
OneMissing == \A c \in Call : Unheard(c) => KnownVotes = Without(c)

\* With one call at a time, one vote at most is served and not heard of.
LEMMA OneUnheard == OneCall => OneMissing
<1> SUFFICES ASSUME NEW c \in Call, OneCall, Unheard(c) PROVE KnownVotes = Without(c)
  BY DEF OneMissing
<1>1. Unheard(CHOOSE d \in Call : Unheard(d)) /\ (CHOOSE d \in Call : Unheard(d)) \in Call
  OBVIOUS
<1>2. \A d \in Call : Unheard(d) => call[d] # None
  BY DEF Unheard, Succeeded, Replied, UnderWay
<1>3. (CHOOSE d \in Call : Unheard(d)) = c
  BY <1>1, <1>2 DEF OneCall
<1> QED BY <1>3 DEF KnownVotes

\* A user who changes a vote is counted with the new one instead of the old.
LEMMA TallyWithVote ==
  ASSUME NEW votes \in VoteMaps, NEW a \in Account, NEW t \in Targets,
         NEW value \in Cast \cup {None}
  PROVE  /\ WithVote(votes, a, t, value) \in VoteMaps
         /\ \A u \in Targets : u # t =>
                \A x : Tally(WithVote(votes, a, t, value), u, x) = Tally(votes, u, x)
         /\ \A x : /\ Tally(votes, t, x) \in Nat
                   /\ Tally(WithVote(votes, a, t, value), t, x)
                        = Tally(votes, t, x) + (IF x = value THEN 1 ELSE 0)
                                             - (IF x = votes[a][t] THEN 1 ELSE 0)
<1> DEFINE W == WithVote(votes, a, t, value)
           Of(v, u, x) == {b \in Account : v[b][u] = x}
<1>1. W \in VoteMaps
  BY DEF WithVote, VoteMaps
<1>2. W[a][t] = value /\ \A u \in Targets : u # t => W[a][u] = votes[a][u]
  BY DEF WithVote, VoteMaps
<1>3. \A b \in Account : b # a => W[b] = votes[b]
  BY DEF WithVote, VoteMaps
<1>4. ASSUME NEW u \in Targets, NEW x, u # t PROVE Tally(W, u, x) = Tally(votes, u, x)
  <2>1. \A b \in Account : W[b][u] = votes[b][u]
    BY <1>2, <1>3, <1>4
  <2> HIDE DEF W
  <2>2. Of(W, u, x) = Of(votes, u, x)
    BY <2>1
  <2> QED BY <2>2 DEF Tally
<1>5. ASSUME NEW x
      PROVE  /\ Tally(votes, t, x) \in Nat
             /\ Tally(W, t, x) = Tally(votes, t, x) + (IF x = value THEN 1 ELSE 0)
                                                    - (IF x = votes[a][t] THEN 1 ELSE 0)
  <2> DEFINE Old == Of(votes, t, x)
             New == Of(W, t, x)
  <2>1. IsFiniteSet(Old) /\ IsFiniteSet(New)
    BY FS_Subset, SessionAssumption
  <2>2. Cardinality(Old) \in Nat /\ Cardinality(New) \in Nat
    BY <2>1, FS_CardinalityType
  <2>3. Tally(votes, t, x) = Cardinality(Old) /\ Tally(W, t, x) = Cardinality(New)
    BY DEF Tally
  <2>4. Old \ {a} = New \ {a}
    BY <1>3
  <2>5. a \in Old <=> x = votes[a][t]
    OBVIOUS
  <2>6. a \in New <=> x = value
    BY <1>2
  <2> HIDE DEF Old, New, W
  <2>7. /\ Cardinality(Old \ {a}) = IF a \in Old THEN Cardinality(Old) - 1 ELSE Cardinality(Old)
        /\ Cardinality(New \ {a}) = IF a \in New THEN Cardinality(New) - 1 ELSE Cardinality(New)
    BY <2>1, FS_RemoveElement
  <2>8. Cardinality(Old \ {a}) = Cardinality(New \ {a})
    BY <2>4
  <2> DEFINE o == Cardinality(Old)
             n == Cardinality(New)
             p == x = value
             q == x = votes[a][t]
  <2>9. o \in Int /\ n \in Int /\ (IF q THEN o - 1 ELSE o) = (IF p THEN n - 1 ELSE n)
    BY <2>2, <2>5, <2>6, <2>7, <2>8
  <2> HIDE DEF o, n, p, q
  <2>10. n = o + (IF p THEN 1 ELSE 0) - (IF q THEN 1 ELSE 0)
    BY <2>9
  <2> QED BY <2>2, <2>3, <2>10 DEF o, n, p, q
<1> QED BY <1>1, <1>4, <1>5

-----------------------------------------------------------------------------
(***************************************************************************)
(* Steps of a patient user, on a kind network.                             *)
(***************************************************************************)

NoVotes == \A c \in Call : ~Voting(c)
NoVoteAnswered == \A c \in Call : Voting(c) => call[c].reply = None \/ call[c].reply = Refusal

\* With no vote under way, or with none answered, the page knows all.
LEMMA NoVoteUnheard == NoVoteAnswered => KnownVotes = vote
BY NoneUnheard DEF NoVoteAnswered, Voting, Unheard, Succeeded, Replied, Refusal

LEMMA NoVotesUnheard == NoVotes => KnownVotes = vote
BY NoVoteUnheard DEF NoVotes, NoVoteAnswered

\* The same after a step.
LEMMA UnheardNext ==
  /\ NoVoteAnswered' => KnownVotes' = vote'
  /\ NoVotes' => KnownVotes' = vote'
  /\ OneCall' => OneMissing'
<1>1. (NoVoteAnswered => KnownVotes = vote)'
  BY NoVoteUnheard, PTL
<1>2. (NoVotes => KnownVotes = vote)'
  BY NoVotesUnheard, PTL
<1>3. (OneCall => OneMissing)'
  BY OneUnheard, PTL
<1> QED BY <1>1, <1>2, <1>3

\* As KnownVotes reads them.
LEMMA KnownVotesFrame == UNCHANGED <<call, vote>> => KnownVotes' = KnownVotes
BY DEF KnownVotes, Without, Unheard, Succeeded, Replied, UnderWay

\* At first the user whose token the page has is being asked for.
LEMMA InitPatient == SessionInit /\ FirstCalls => PatientInv
<1> SUFFICES ASSUME SessionInit, FirstCalls PROVE PatientInv
  OBVIOUS
<1>1. PICK c \in Call : call = [x \in Call |-> IF x = c THEN AskUser(token) ELSE None]
  BY DEF FirstCalls
<1>2. /\ \A d \in Call : call[d] # None => d = c /\ call[d].task = "user"
      /\ \A d \in Call : call[d] # None => call[d].token = token /\ call[d].reply = None
  BY <1>1 DEF AskUser
<1>3. NoVotes
  BY <1>2 DEF NoVotes, Voting, UnderWay
<1>4. KnownVotes = vote
  BY <1>3, NoVotesUnheard
<1>5. OneCall /\ OneButton /\ TokenIsOfUser
  BY <1>2 DEF OneCall, OneButton, TokenIsOfUser, SessionInit, Closed, UnderWay
<1>6. MapsKnow /\ ButtonsShow /\ VotesSent
  BY <1>2, <1>3 DEF NoVotes, MapsKnow, ButtonsShow, VotesSent, SessionInit, Closed, Succeeded, Replied, UnderWay
<1>7. PICK v \in [card : {None} \cup VoteKind, comment : {None}] :
        vote = [a \in Account |-> [t \in Targets |-> v[t]]]
  BY DEF SessionInit, Targets
<1>8. v.card \in {None} \cup VoteKind /\ v.comment = None
  OBVIOUS
<1>9. vote \in VoteMaps /\ \A a \in Account, t \in Targets : vote[a][t] \in Values(t) \cup {None}
  BY <1>7, <1>8 DEF VoteMaps, Targets, Values, Cast
<1>10. VotesTyped
  BY <1>4, <1>9 DEF VotesTyped
<1>11. Tallied
  BY <1>4 DEF Tallied, Tally, SessionInit, VotesCounted, VotesScored
<1> QED BY <1>5, <1>6, <1>10, <1>11 DEF PatientInv

\* Logging out forgets the user and clears the buttons.
LEMMA LogoutPatient ==
  ASSUME SessionInv, PatientInv, SessionPatiently, Logout
  PROVE  PatientInv'
<1>1. /\ UNCHANGED <<call, users, button, counters, score, arcs, vote>>
      /\ token' = None /\ loggedInUser' = None /\ loggedInUser # None
  BY DEF Logout, pageVars
<1>2. /\ \A b \in Button : button[b].open => button[b].user = None
      /\ \A c \in Call : call[c] = None \/ UnderWay(c, "user")
  BY <1>1 DEF SessionPatiently
<1>3. KnownVotes' = KnownVotes
  BY <1>1, KnownVotesFrame
<1>4. OneCall' /\ OneButton' /\ TokenIsOfUser'
  BY <1>1 DEF PatientInv, OneCall, OneButton, TokenIsOfUser
<1>5. MapsKnow' /\ ButtonsShow'
  BY <1>1, <1>2, <1>3 DEF PatientInv, MapsKnow, ButtonsShow, Succeeded, Replied, UnderWay
<1>6. NoVotes'
  BY <1>1, <1>2 DEF NoVotes, Voting, UnderWay
<1>7. VotesSent' /\ VotesTyped' /\ Tallied'
  BY <1>1, <1>3, <1>6 DEF PatientInv, NoVotes, VotesSent, VotesTyped, Tallied, Tally
<1> QED BY <1>4, <1>5, <1>7 DEF PatientInv

\* Signing in, while nobody is signed in and nothing is under way.
LEMMA AuthenticatePatient ==
  ASSUME SessionInv, PatientInv, SessionPatiently, NEW c \in Call, NEW a \in Account,
         Authenticate(c, a)
  PROVE  PatientInv'
<1>1. UNCHANGED <<loggedInUser, users, button, counters, score, arcs, vote>> /\ token' = a
  BY DEF Authenticate, pageVars
<1>2. AskUser(a) \in UserCall
  BY DEF AskUser, UserCall
<1>3. /\ call'[c] = AskUser(a) /\ call'[c] # None /\ call[c] = None
      /\ \A d \in Call \ {c} : call'[d] = call[d]
  BY <1>2, SendFacts DEF SessionInv, Authenticate
<1>4. \A d \in Call \ {c} : call'[d] = None /\ call[d] = None
  BY <1>3 DEF SessionPatiently, Together
<1>5. call'[c].task = "user" /\ call'[c].reply = None /\ call'[c].token = a
  BY <1>3 DEF AskUser
<1>6. NoVotes /\ NoVotes'
  BY <1>3, <1>4, <1>5 DEF NoVotes, Voting, UnderWay
<1>7. KnownVotes = vote /\ KnownVotes' = vote'
  BY <1>6, NoVotesUnheard, UnheardNext
<1>8. token' # token => loggedInUser = None
  BY <1>1, SessionAssumption DEF SessionPatiently
<1>9. OneCall' /\ OneButton'
  BY <1>1, <1>4 DEF PatientInv, OneCall, OneButton
<1>10. TokenIsOfUser'
  BY <1>1, <1>4, <1>5, <1>8 DEF PatientInv, TokenIsOfUser, UnderWay, Self
<1>11. MapsKnow' /\ ButtonsShow'
  BY <1>1, <1>4, <1>5, <1>7 DEF PatientInv, MapsKnow, ButtonsShow, Succeeded, Replied, UnderWay, Self
<1>12. VotesSent' /\ VotesTyped' /\ Tallied'
  BY <1>1, <1>6, <1>7 DEF PatientInv, NoVotes, VotesSent, VotesTyped, Tallied, Tally
<1> QED BY <1>9, <1>10, <1>11, <1>12 DEF PatientInv

\* A new button shows what the user is known to have voted, if there is one.
LEMMA OpenButtonPatient ==
  ASSUME SessionInv, PatientInv, SessionPatiently, NEW b \in Button, OpenButton(b)
  PROVE  PatientInv'
<1>1. UNCHANGED <<call, token, loggedInUser, users, counters, score, arcs, vote>>
  BY DEF OpenButton, userVars
<1>2. KnownVotes' = KnownVotes
  BY <1>1, KnownVotesFrame
<1>3. /\ ~button[b].open /\ button'[b].open /\ button'[b].user = loggedInUser
      /\ button'[b].shown = IF loggedInUser = None THEN None
                            ELSE ValueOf(users[loggedInUser].votes[Target[b]])
      /\ Target[b] = "card" => button'[b].meters = counters
      /\ \A d \in Button \ {b} : button'[d] = button[d]
  BY DEF OpenButton, SessionInv, ButtonsTypeOK
<1>4. OneCall' /\ OneButton' /\ TokenIsOfUser' /\ MapsKnow'
  BY <1>1, <1>2 DEF PatientInv, SessionPatiently, OneCall, OneButton, TokenIsOfUser, MapsKnow,
                    Succeeded, Replied, UnderWay, Self
<1>5. ButtonsShow'
  <2>1. Target[b] \in Targets
    BY SessionAssumption DEF Targets
  <2>2. loggedInUser # None => button'[b].shown = KnownVotes[Self][Target[b]]
    BY <1>3, <2>1 DEF PatientInv, MapsKnow
  <2> QED BY <1>1, <1>2, <1>3, <2>2 DEF PatientInv, ButtonsShow, Self
<1>6. VotesSent'
  <2>1. \A c \in Call : Voting(c) => call[c].task # "user" /\ call[c] # None /\ call[c].button # b
    BY <1>3 DEF OpenButton, Voting, UnderWay
  <2>2. \A c \in Call : Voting(c) => Target[call[c].button] # Target[b]
    BY <1>3, <2>1 DEF SessionPatiently
  <2>3. \A c \in Call : Voting(c) => call[c].button \in Button
    BY TaskFacts DEF SessionInv, Voting, VoteCall
  <2>4. \A c \in Call : (Voting(c)' <=> Voting(c)) /\ (Unheard(c)' <=> Unheard(c)) /\ After(c)' = After(c)
    BY <1>1 DEF Voting, Unheard, Succeeded, Replied, UnderWay, After
  <2> QED BY <1>1, <1>2, <1>3, <2>1, <2>2, <2>3, <2>4 DEF PatientInv, VotesSent, Self
<1>7. VotesTyped' /\ Tallied'
  BY <1>1, <1>2 DEF PatientInv, VotesTyped, Tallied, Tally
<1> QED BY <1>4, <1>5, <1>6, <1>7 DEF PatientInv

\* A button is closed when its vote has been answered.
LEMMA CloseButtonPatient ==
  ASSUME SessionInv, PatientInv, SessionPatiently, NEW b \in Button, CloseButton(b)
  PROVE  PatientInv'
<1>1. UNCHANGED <<call, token, loggedInUser, users, counters, score, arcs, vote>>
  BY DEF CloseButton, userVars
<1>2. KnownVotes' = KnownVotes
  BY <1>1, KnownVotesFrame
<1>3. /\ ~button'[b].open /\ button'[b].user = button[b].user
      /\ \A d \in Button \ {b} : button'[d] = button[d]
  BY DEF CloseButton, SessionInv, ButtonsTypeOK, Closed
<1>4. OneCall' /\ OneButton' /\ TokenIsOfUser' /\ MapsKnow'
  BY <1>1, <1>2 DEF PatientInv, SessionPatiently, OneCall, OneButton, TokenIsOfUser, MapsKnow,
                    Succeeded, Replied, UnderWay, Self
<1>5. ButtonsShow'
  BY <1>1, <1>2, <1>3 DEF PatientInv, ButtonsShow, Self
<1>6. VotesSent'
  <2>1. \A c \in Call : (Voting(c)' <=> Voting(c)) /\ (Unheard(c)' <=> Unheard(c)) /\ After(c)' = After(c)
    BY <1>1 DEF Voting, Unheard, Succeeded, Replied, UnderWay, After
  <2>2. \A c \in Call : Voting(c) => call[c].button \in Button
    BY TaskFacts DEF SessionInv, Voting, VoteCall
  <2> QED BY <1>1, <1>2, <1>3, <2>1, <2>2 DEF PatientInv, VotesSent, Self
<1>7. VotesTyped' /\ Tallied'
  BY <1>1, <1>2 DEF PatientInv, VotesTyped, Tallied, Tally
<1> QED BY <1>4, <1>5, <1>6, <1>7 DEF PatientInv

\* What a call that ends without effect leaves: nothing under way.
LEMMA NothingLeft ==
  ASSUME SessionInv, PatientInv, NEW c \in Call, call[c] # None, Done(c), KnownVotes = vote,
         UNCHANGED <<token, loggedInUser, users, button, counters, score, arcs, vote>>
  PROVE  PatientInv'
<1>1. \A d \in Call : call'[d] = None
  BY DoneFacts DEF SessionInv, PatientInv, OneCall
<1>2. NoVotes' /\ \A d \in Call : ~UnderWay(d, "user")'
  BY <1>1 DEF NoVotes, Voting, UnderWay
<1>3. KnownVotes' = KnownVotes
  BY <1>2, UnheardNext
<1>4. OneCall' /\ OneButton' /\ TokenIsOfUser' /\ MapsKnow'
  BY <1>1, <1>2, <1>3 DEF PatientInv, OneCall, OneButton, TokenIsOfUser, MapsKnow,
                          Succeeded, Replied, Self
<1>5. ButtonsShow' /\ VotesSent'
  BY <1>2, <1>3 DEF PatientInv, ButtonsShow, VotesSent, NoVotes, Self
<1>6. VotesTyped' /\ Tallied'
  BY <1>3 DEF PatientInv, VotesTyped, Tallied, Tally
<1> QED BY <1>4, <1>5, <1>6 DEF PatientInv

\* A toast, and nothing else.
LEMMA FailsPatient ==
  ASSUME SessionInv, PatientInv, NEW c \in Call, NEW task \in {"vote", "revoke"},
         UserFails(c) \/ VoteFails(c, task)
  PROVE  PatientInv'
<1>1. /\ call[c] # None /\ ~Unheard(c) /\ Done(c)
      /\ UNCHANGED <<token, loggedInUser, users, button, counters, score, arcs, vote>>
  BY DEF UserFails, VoteFails, Failed, Replied, UnderWay, Unheard, Succeeded, userVars, pageVars
<1>2. \A d \in Call : ~Unheard(d)
  BY <1>1 DEF PatientInv, OneCall, Unheard, Succeeded, Replied, UnderWay
<1>3. KnownVotes = vote
  BY <1>2, NoneUnheard
<1> QED BY <1>1, <1>3, NothingLeft

\* The user arrives, and the buttons that waited show the votes.
LEMMA UserArrivesPatient ==
  ASSUME SessionInv, PatientInv, SessionPatiently, NEW c \in Call, UserArrives(c)
  PROVE  PatientInv'
<1> DEFINE user == call[c].reply.user
           position == Len(users) + 1
<1>1. /\ Succeeded(c, "user") /\ Done(c) /\ call[c] # None /\ UnderWay(c, "user")
      /\ UNCHANGED <<token, counters, score, arcs, vote>>
  BY DEF UserArrives, Succeeded, Replied, UnderWay
<1>2. NoVotes
  BY <1>1 DEF PatientInv, OneCall, NoVotes, Voting, UnderWay
<1>3. KnownVotes = vote
  BY <1>2, NoVotesUnheard
<1>4. CASE user = None
  <2>1. UNCHANGED <<loggedInUser, users, button>>
    BY <1>4 DEF UserArrives
  <2> QED BY <1>1, <1>3, <2>1, NothingLeft
<1>5. CASE user # None
  <2>1. /\ users' = Append(users, user) /\ loggedInUser' = position
        /\ button' = Notified(user, position)
    BY <1>5 DEF UserArrives
  <2>2. \A d \in Call : call'[d] = None
    BY <1>1, DoneFacts DEF SessionInv, PatientInv, OneCall
  <2>3. NoVotes' /\ \A d \in Call : ~UnderWay(d, "user")'
    BY <2>2 DEF NoVotes, Voting, UnderWay
  <2>4. KnownVotes' = KnownVotes
    BY <1>1, <1>3, <2>3, UnheardNext
  <2>5. users \in Seq(UserObject) /\ loggedInUser \in {None} \cup 1..Len(users)
    BY DEF SessionInv, ServiceTypeOK, Users
  <2>6. position # None /\ position # loggedInUser /\ position \in Nat
    BY <2>5, SessionAssumption
  <2>7. users'[position] = user /\ Self' = user.account
    BY <2>1, <2>5 DEF Self
  <2>8. \A b \in Button : button[b].open => button[b].user = None /\ button[b].subscribed
    BY <2>1, <2>6 DEF SessionPatiently, SessionInv, ButtonsWait
  <2>9. /\ user.account = call[c].token
        /\ \A t \in Targets : ValueOf(user.votes[t]) = KnownVotes[user.account][t]
    BY <1>1, <1>5 DEF PatientInv, MapsKnow
  <2>10. \A b \in Button :
            /\ button'[b].open = button[b].open
            /\ button[b].open =>
                /\ button'[b].user = position
                /\ button'[b].shown = Looked(b, user.votes[Target[b]])
                /\ button'[b].meters = button[b].meters
    BY <2>1, <2>8 DEF Notified, SessionInv, ButtonsTypeOK, Fields
  <2>11. OneCall' /\ OneButton'
    BY <2>2, <2>10 DEF PatientInv, OneCall, OneButton
  <2>12. TokenIsOfUser'
    BY <1>1, <2>3, <2>7, <2>9 DEF PatientInv, TokenIsOfUser
  <2>13. MapsKnow'
    BY <2>1, <2>2, <2>4, <2>7, <2>9 DEF MapsKnow, Succeeded, Replied, UnderWay
  <2>14. ASSUME NEW b \in Button, button[b].open
         PROVE  Looked(b, user.votes[Target[b]]) = KnownVotes[user.account][Target[b]]
    <3>1. Target[b] \in Targets
      BY SessionAssumption DEF Targets
    <3>2. button[b].shown = None
      BY <2>8, <2>14 DEF PatientInv, ButtonsShow
    <3> QED BY <2>9, <3>1, <3>2 DEF Looked, ValueOf
  <2>15. ButtonsShow'
    BY <1>1, <2>1, <2>4, <2>6, <2>7, <2>10, <2>14 DEF PatientInv, ButtonsShow
  <2>16. VotesSent' /\ VotesTyped' /\ Tallied'
    BY <1>1, <2>3, <2>4 DEF PatientInv, NoVotes, VotesSent, VotesTyped, Tallied, Tally
  <2> QED BY <2>11, <2>12, <2>13, <2>15, <2>16 DEF PatientInv
<1> QED BY <1>4, <1>5

\* A vote that is answered or lost stays the vote it is.
LEMMA VoteReplyFacts ==
  ASSUME ServiceTypeOK, NEW c \in Call, NEW reply, call[c] \in VoteCall, Reply(c, reply)
  PROVE  /\ call'[c].button = call[c].button /\ call'[c].value = call[c].value
         /\ call'[c].before = call[c].before
<1>1. call'[c] = [call[c] EXCEPT !.reply = reply]
  BY DEF ServiceTypeOK, Reply
<1> QED BY <1>1 DEF VoteCall

\* An answer of the server, or none: what the page shows is as it was.
LEMMA AnswerPatient ==
  ASSUME SessionInv, PatientInv, NEW c \in Call, NEW reply, call[c] # None, Reply(c, reply),
         call[c] \in UserCall =>
            reply \in {Refusal} \cup [ok : {TRUE}, user : UserObject \cup {None}],
         call[c] \in VoteCall => reply \in {Refusal, [ok |-> TRUE]},
         UNCHANGED <<userVars, pageVars>>,
         KnownVotes' = KnownVotes,
         \A a \in Account, t \in Targets : vote'[a][t] \in Values(t) \cup {None},
         Succeeded(c, "user")' /\ reply.user # None =>
            /\ reply.user.account = call[c].token
            /\ \A t \in Targets : ValueOf(reply.user.votes[t]) = KnownVotes[call[c].token][t],
         Unheard(c)' => token # None /\ vote'[Self][Target[call[c].button]] = After(c)
  PROVE  PatientInv'
<1>1. UNCHANGED <<token, loggedInUser, users, button, counters, score, arcs>>
  BY DEF userVars, pageVars
<1>2. /\ call'[c] # None /\ call'[c].task = call[c].task
      /\ call'[c].token = call[c].token /\ call'[c].reply = reply
      /\ \A d \in Call \ {c} : call'[d] = call[d]
  BY ReplyFacts DEF SessionInv
<1>3. \A d \in Call \ {c} : call'[d] = None /\ call[d] = None
  BY <1>2 DEF PatientInv, OneCall
<1>4. OneCall' /\ OneButton' /\ TokenIsOfUser'
  BY <1>1, <1>2, <1>3 DEF PatientInv, OneCall, OneButton, TokenIsOfUser, UnderWay, Self
<1>5. MapsKnow'
  BY <1>1, <1>2, <1>3 DEF PatientInv, MapsKnow, Succeeded, Replied, UnderWay, Self
<1>6. ButtonsShow'
  BY <1>1 DEF PatientInv, ButtonsShow, Self
<1>7. VotesSent'
  <2>1. \A d \in Call : Voting(d)' => d = c /\ Voting(c)
    BY <1>2, <1>3 DEF Voting, UnderWay
  <2>2. Voting(c) => call[c] \in VoteCall
    BY TaskFacts DEF SessionInv, Voting
  <2>3. Voting(c) => /\ call'[c].button = call[c].button /\ call'[c].value = call[c].value
                     /\ call'[c].before = call[c].before /\ After(c)' = After(c)
    BY <1>2, <2>2, VoteReplyFacts DEF SessionInv, After
  <2> QED BY <1>1, <1>2, <2>1, <2>3 DEF PatientInv, VotesSent, Self
<1>8. VotesTyped' /\ Tallied'
  BY <1>1 DEF PatientInv, VotesTyped, Tallied, Tally
<1> QED BY <1>4, <1>5, <1>6, <1>7, <1>8 DEF PatientInv

\* A call is lost before the server has it.
LEMMA LoseCallPatient ==
  ASSUME SessionInv, PatientInv, SessionPatiently, NEW c \in Call, LoseCall(c)
  PROVE  PatientInv'
<1>1. /\ Reply(c, Refusal) /\ call[c] # None /\ call[c].reply # Refusal
      /\ UNCHANGED <<userVars, pageVars, vote>>
  BY DEF LoseCall, Lose
<1>2. /\ call'[c] # None /\ call'[c].task = call[c].task /\ call'[c].reply = Refusal
      /\ \A d \in Call \ {c} : call'[d] = call[d]
  BY <1>1, ReplyFacts DEF SessionInv
<1>3. call[c].reply = None
  BY <1>1, <1>2 DEF SessionPatiently, LostUnserved, Fails
<1>4. NoVoteAnswered /\ NoVoteAnswered'
  BY <1>1, <1>2, <1>3 DEF PatientInv, OneCall, NoVoteAnswered, Voting, UnderWay
<1>5. KnownVotes' = KnownVotes
  BY <1>1, <1>4, NoVoteUnheard, UnheardNext
<1>6. ~Succeeded(c, "user")' /\ ~Unheard(c)'
  BY <1>2 DEF Succeeded, Unheard, Refusal
<1>7. \A a \in Account, t \in Targets : vote'[a][t] \in Values(t) \cup {None}
  BY <1>1 DEF PatientInv, VotesTyped
<1> QED BY <1>1, <1>5, <1>6, <1>7, AnswerPatient

\* The server sends the user with the votes as they are.
LEMMA ServeUserPatient ==
  ASSUME SessionInv, PatientInv, NEW c \in Call, ServeUser(c)
  PROVE  PatientInv'
<1> DEFINE a == call[c].token
           user == IF a = None THEN None
                   ELSE [account |-> a, votes |-> [t \in Targets |-> MapOf(vote[a][t])]]
           reply == [ok |-> TRUE, user |-> user]
<1>1. /\ Reply(c, reply) /\ UNCHANGED <<userVars, pageVars, vote>> /\ UnderWay(c, "user")
      /\ call[c] # None
  BY DEF ServeUser, Asked, UnderWay, Targets
<1>2. call[c] \in UserCall /\ call[c] \notin VoteCall
  BY <1>1, TaskFacts DEF SessionInv, UnderWay, VoteCall
<1>3. ASSUME a # None PROVE user \in UserObject
  <2>1. a \in Account
    BY <1>2, <1>3 DEF UserCall
  <2>2. \A t \in Targets : MapOf(vote[a][t]) \in Cast \cup {None, Absent}
    BY <2>1 DEF SessionInv, ServiceTypeOK, MapOf, Targets
  <2> QED BY <1>3, <2>1, <2>2 DEF UserObject, Targets
<1>4. reply \in [ok : {TRUE}, user : UserObject \cup {None}]
  BY <1>3
<1>5. NoVotes
  BY <1>1 DEF PatientInv, OneCall, NoVotes, Voting, UnderWay
<1>6. /\ call'[c] # None /\ call'[c].task = call[c].task
      /\ \A d \in Call \ {c} : call'[d] = call[d]
  BY <1>1, <1>2, <1>4, ReplyFacts DEF SessionInv
<1>7. NoVotes'
  BY <1>1, <1>5, <1>6 DEF NoVotes, Voting, UnderWay
<1>8. KnownVotes = vote /\ KnownVotes' = KnownVotes
  BY <1>1, <1>5, <1>7, NoVotesUnheard, UnheardNext
<1>9. ~Unheard(c)'
  BY <1>7 DEF NoVotes, Voting, Unheard, Succeeded, Replied
<1>10. ASSUME reply.user # None
       PROVE  /\ reply.user.account = call[c].token
              /\ \A t \in Targets : ValueOf(reply.user.votes[t]) = KnownVotes[call[c].token][t]
  <2>1. a \in Account
    BY <1>2, <1>10 DEF UserCall
  <2>2. \A t \in Targets : ValueOf(MapOf(vote[a][t])) = vote[a][t]
    BY <2>1, SessionAssumption DEF SessionInv, ServiceTypeOK, Cast, Targets, ValueOf, MapOf, Absent
  <2> QED BY <1>8, <1>10, <2>1, <2>2
<1>11. \A x \in Account, t \in Targets : vote'[x][t] \in Values(t) \cup {None}
  BY <1>1 DEF PatientInv, VotesTyped
<1> HIDE DEF reply, user
<1> QED BY <1>1, <1>2, <1>4, <1>8, <1>9, <1>10, <1>11, AnswerPatient

\* The server stores a vote that the page does not know of yet.
LEMMA ServeVotePatient ==
  ASSUME SessionInv, PatientInv, NEW c \in Call, NEW task \in {"vote", "revoke"},
         ServeVote(c, task)
  PROVE  PatientInv'
<1> DEFINE a == call[c].token
           target == Target[call[c].button]
           value == IF task = "vote" THEN call[c].value ELSE None
           served == IF task = "vote" THEN MayVote(a, target) ELSE a # None
<1>1. /\ UNCHANGED <<userVars, pageVars>> /\ UnderWay(c, task) /\ call[c].reply = None
      /\ call[c] # None /\ call[c].task = task
  BY DEF ServeVote, Asked, UnderWay
<1>2. call[c] \in VoteCall /\ call[c] \notin UserCall
  BY <1>1, TaskFacts DEF SessionInv, UserCall
<1>3. NoVoteAnswered
  BY <1>1 DEF PatientInv, OneCall, NoVoteAnswered, Voting, UnderWay
<1>4. KnownVotes = vote
  BY <1>3, NoVoteUnheard
<1>5. /\ a = token /\ loggedInUser # None /\ call[c].before = vote[Self][target]
      /\ call[c].value \in Values(target)
  BY <1>1, <1>4 DEF PatientInv, VotesSent, Voting
<1>6. target \in Targets
  BY <1>2, SessionAssumption DEF VoteCall, Targets
<1>7. UNCHANGED <<users, loggedInUser>>
  BY <1>1 DEF userVars
<1>8. CASE served
  <2>1. Reply(c, [ok |-> TRUE]) /\ vote' = WithVote(vote, a, target, value)
    BY <1>8 DEF ServeVote, WithVote
  <2>2. /\ call'[c] # None /\ call'[c].task = task /\ call'[c].token = a
        /\ call'[c].reply = [ok |-> TRUE]
        /\ call'[c].button = call[c].button /\ call'[c].before = call[c].before
        /\ \A d \in Call \ {c} : call'[d] = call[d]
    <3> HIDE DEF value, served, target
    <3>1. ServiceTypeOK /\ Reply(c, [ok |-> TRUE]) /\ [ok |-> TRUE] \in {Refusal, [ok |-> TRUE]}
      BY <2>1 DEF SessionInv
    <3>2. /\ call'[c].button = call[c].button /\ call'[c].before = call[c].before
      BY <1>2, <3>1, VoteReplyFacts
    <3>3. /\ call'[c] # None /\ call'[c].task = call[c].task
          /\ call'[c].token = call[c].token /\ call'[c].reply = [ok |-> TRUE]
          /\ \A d \in Call \ {c} : call'[d] = call[d]
      BY <1>1, <1>2, <3>1, ReplyFacts
    <3> QED BY <1>1, <3>2, <3>3
  <2>3. a # None /\ a \in Account /\ Self = a
    BY <1>2, <1>5, <1>8 DEF MayVote, VoteCall, PatientInv, TokenIsOfUser
  <2>4. vote \in VoteMaps
    BY DEF SessionInv, ServiceTypeOK, VoteMaps, Targets
  <2>5. Unheard(c)'
    <3>1. [ok |-> TRUE] # None
      <4>1. [ok |-> TRUE] \in [ok : BOOLEAN]
        OBVIOUS
      <4> QED BY <4>1, NoneAssumption
    <3>2. call'[c].reply # None
      BY <2>2, <3>1
    <3>3. call'[c].reply.ok
      BY <2>2
    <3> QED BY <2>2, <3>2, <3>3 DEF Unheard, Succeeded, Replied, UnderWay
  <2>6. OneCall'
    BY <1>1, <2>2 DEF PatientInv, OneCall
  <2>7. KnownVotes' = Without(c)'
    BY <2>5, <2>6, UnheardNext DEF OneMissing
  <2>8. KnownVotes' = WithVote(vote', a, target, vote[a][target])
    BY <1>5, <2>2, <2>3, <2>7 DEF Without
  <2>9. KnownVotes' = vote
    BY <1>6, <2>1, <2>3, <2>4, <2>8 DEF WithVote, VoteMaps
  <2>10. value \in Values(target) \cup {None}
    BY <1>5
  <2>11. vote'[a][target] = value
    BY <1>6, <2>1, <2>3, <2>4 DEF WithVote, VoteMaps
  <2>12. \A x \in Account, t \in Targets : vote'[x][t] \in Values(t) \cup {None}
    BY <1>6, <2>1, <2>3, <2>4, <2>10 DEF WithVote, VoteMaps, PatientInv, VotesTyped
  <2>13. token # None /\ vote'[Self][target] = After(c)
    BY <1>1, <1>5, <2>3, <2>11 DEF After
  <2>14. ~Succeeded(c, "user")'
    BY <2>2 DEF Succeeded, Replied, UnderWay
  <2> QED BY <1>1, <1>2, <1>4, <2>1, <2>9, <2>12, <2>13, <2>14, AnswerPatient
<1>9. CASE ~served
  <2>1. Reply(c, Refusal) /\ vote' = vote
    BY <1>9 DEF ServeVote
  <2>2. /\ call'[c] # None /\ call'[c].task = task /\ call'[c].reply = Refusal
        /\ \A d \in Call \ {c} : call'[d] = call[d]
    BY <1>1, <1>2, <2>1, ReplyFacts DEF SessionInv
  <2>3. NoVoteAnswered' /\ ~Unheard(c)' /\ ~Succeeded(c, "user")'
    BY <1>3, <2>2 DEF NoVoteAnswered, Voting, Unheard, Succeeded, Replied, UnderWay, Refusal
  <2>4. KnownVotes' = KnownVotes
    BY <1>4, <2>1, <2>3, UnheardNext
  <2>5. \A x \in Account, t \in Targets : vote'[x][t] \in Values(t) \cup {None}
    BY <2>1 DEF PatientInv, VotesTyped
  <2> QED BY <1>1, <1>2, <2>1, <2>3, <2>4, <2>5, AnswerPatient
<1> QED BY <1>8, <1>9

\* What a button shows of a user whose vote is known.
LEMMA LookedFacts ==
  ASSUME SessionInv, PatientInv, NEW b \in Button, button[b].open, button[b].user # None
  PROVE  /\ loggedInUser # None /\ button[b].user = loggedInUser /\ Target[b] \in Targets
         /\ CurrentVote(b) = KnownVotes[Self][Target[b]]
         /\ Looked(b, FoundVote(b)) = KnownVotes[Self][Target[b]]
<1>1. /\ button[b].user = loggedInUser /\ loggedInUser # None
      /\ button[b].shown = KnownVotes[Self][Target[b]]
  BY DEF PatientInv, ButtonsShow
<1>2. Target[b] \in Targets
  BY SessionAssumption DEF Targets
<1>3. ValueOf(users[loggedInUser].votes[Target[b]]) = KnownVotes[Self][Target[b]]
  BY <1>1, <1>2 DEF PatientInv, MapsKnow
<1>4. CurrentVote(b) = KnownVotes[Self][Target[b]]
  BY <1>1, <1>3 DEF CurrentVote, FoundVote
<1> QED BY <1>1, <1>2, <1>4 DEF Looked, CurrentVote, ValueOf

\* A click sends the vote, or revokes it, and says what it was before.
LEMMA VoteClickedPatient ==
  ASSUME SessionInv, PatientInv, SessionPatiently, NEW c \in Call, NEW b \in Button,
         NEW value \in Values(Target[b]), VoteClicked(c, b, value)
  PROVE  PatientInv'
<1> DEFINE before == CurrentVote(b)
           request == [task |-> IF value = before THEN "revoke" ELSE "vote",
                       token |-> token, button |-> b, value |-> value,
                       before |-> before, reply |-> None]
<1>1. /\ UNCHANGED <<token, loggedInUser, users, counters, score, arcs, vote>>
      /\ Send(c, request) /\ button[b].open /\ button[b].user # None
      /\ button' = [button EXCEPT ![b] = [@ EXCEPT !.shown = Looked(b, FoundVote(b))]]
  BY DEF VoteClicked, userVars
<1>2. /\ loggedInUser # None /\ button[b].user = loggedInUser /\ Target[b] \in Targets
      /\ before = KnownVotes[Self][Target[b]]
      /\ Looked(b, FoundVote(b)) = KnownVotes[Self][Target[b]]
  BY <1>1, LookedFacts
<1>3. request \in VoteCall
  <2>1. Self \in Account
    <3>1. users \in Seq(UserObject) /\ loggedInUser \in 1..Len(users)
      BY <1>2 DEF SessionInv, ServiceTypeOK, Users
    <3>2. users[loggedInUser] \in UserObject
      BY <3>1
    <3> QED BY <3>2 DEF UserObject, Self
  <2>2. before \in Cast \cup {None}
    BY <1>2, <2>1 DEF PatientInv, VotesTyped, VoteMaps
  <2>3. value \in Cast
    BY DEF Values, Cast
  <2>4. token \in Account \cup {None}
    BY DEF SessionInv, ServiceTypeOK
  <2> HIDE DEF before
  <2> QED BY <2>2, <2>3, <2>4 DEF VoteCall
<1> HIDE DEF before
<1>4. /\ call[c] = None /\ call'[c] = request /\ call'[c] # None
      /\ \A d \in Call \ {c} : call'[d] = call[d]
  BY <1>1, <1>3, SendFacts DEF SessionInv
<1>5. \A d \in Call \ {c} : call'[d] = None /\ call[d] = None
  BY <1>4 DEF SessionPatiently, Together
<1>6. /\ call'[c].task \in {"vote", "revoke"} /\ call'[c].task = "revoke" <=> value = before
      /\ call'[c].token = token /\ call'[c].button = b /\ call'[c].value = value
      /\ call'[c].before = before /\ call'[c].reply = None
  BY <1>4
<1>7. NoVotes /\ NoVoteAnswered'
  BY <1>4, <1>5, <1>6 DEF NoVotes, NoVoteAnswered, Voting, UnderWay
<1>8. KnownVotes' = KnownVotes
  BY <1>1, <1>7, NoVotesUnheard, UnheardNext
<1>9. /\ \A d \in Button : /\ button'[d].open = button[d].open /\ button'[d].user = button[d].user
                           /\ button'[d].meters = button[d].meters
      /\ button'[b].shown = Looked(b, FoundVote(b))
      /\ \A d \in Button \ {b} : button'[d].shown = button[d].shown
  BY <1>1 DEF SessionInv, ButtonsTypeOK, Fields
<1>10. OneCall' /\ OneButton'
  BY <1>5, <1>9 DEF PatientInv, OneCall, OneButton
<1>11. TokenIsOfUser'
  BY <1>1, <1>5, <1>6 DEF PatientInv, TokenIsOfUser, UnderWay, Self
<1>12. MapsKnow'
  BY <1>1, <1>5, <1>6, <1>8 DEF PatientInv, MapsKnow, Succeeded, Replied, UnderWay, Self
<1>13. ButtonsShow'
  BY <1>1, <1>2, <1>8, <1>9 DEF PatientInv, ButtonsShow, Self
<1>14. VotesSent'
  <2>1. \A d \in Call : Voting(d)' => d = c
    BY <1>5 DEF Voting, UnderWay
  <2>2. ~Unheard(c)'
    BY <1>6 DEF Unheard, Succeeded, Replied
  <2>3. \A d \in Button : button'[d].open /\ Target[d] = Target[b] => d = b
    BY <1>1, <1>9 DEF PatientInv, OneButton
  <2> QED BY <1>1, <1>2, <1>6, <1>8, <1>9, <2>1, <2>2, <2>3 DEF VotesSent, Self
<1>15. VotesTyped' /\ Tallied'
  BY <1>1, <1>8 DEF PatientInv, VotesTyped, Tallied, Tally
<1> QED BY <1>10, <1>11, <1>12, <1>13, <1>14, <1>15 DEF PatientInv

\* The map of the user who has voted.
LEMMA UsersWithVote ==
  ASSUME SessionInv, NEW b \in Button, NEW value \in Cast \cup {None}, loggedInUser # None,
         button[b].user = loggedInUser, users' = UsersWith(b, value),
         UNCHANGED loggedInUser
  PROVE  /\ Self' = Self /\ Self \in Account
         /\ users'[loggedInUser].votes[Target[b]] = value
         /\ \A t \in Targets : t # Target[b] =>
                users'[loggedInUser].votes[t] = users[loggedInUser].votes[t]
<1> DEFINE u == users[loggedInUser]
           votes == [u.votes EXCEPT ![Target[b]] = value]
<1>1. users \in Seq(UserObject) /\ loggedInUser \in 1..Len(users) /\ Target[b] \in Targets
  BY SessionAssumption DEF SessionInv, ServiceTypeOK, Users, Targets
<1>2. u \in UserObject
  BY <1>1
<1>3. users'[loggedInUser] = [u EXCEPT !.votes = votes]
  BY <1>1 DEF UsersWith
<1>4. users'[loggedInUser].account = u.account /\ users'[loggedInUser].votes = votes
  BY <1>2, <1>3 DEF UserObject
<1>5. u.account \in Account
  BY <1>2 DEF UserObject
<1>6. /\ votes[Target[b]] = value
      /\ \A t \in Targets : t # Target[b] => votes[t] = u.votes[t]
  BY <1>1, <1>2 DEF UserObject, Targets
<1> HIDE DEF votes
<1> QED BY <1>4, <1>5, <1>6 DEF Self

\* What is known of a vote when its answer is there, and that the page is right then.
LEMMA VoteHeard ==
  ASSUME SessionInv, PatientInv, NEW c \in Call, NEW task \in {"vote", "revoke"},
         NEW after \in Cast \cup {None}, VoteArrives(c, task, after)
  PROVE  LET b == call[c].button
             target == Target[b]
         IN  /\ b \in Button /\ target \in Targets /\ call[c].before = KnownVotes[Self][target]
             /\ loggedInUser # None /\ button[b].user = loggedInUser /\ Self \in Account
             /\ \A d \in Button : button[d].open /\ Target[d] = target => d = b
             /\ after \in Values(target) \cup {None} /\ after # call[c].before
             /\ vote = WithVote(KnownVotes, Self, target, after)
             /\ \A d \in Call : call'[d] = None
             /\ KnownVotes' = vote
<1> DEFINE b == call[c].button
           target == Target[b]
           before == call[c].before
<1>1. /\ Succeeded(c, task) /\ Done(c) /\ UNCHANGED vote /\ call[c].task = task /\ call[c] # None
      /\ after = After(c)
  BY DEF VoteArrives, Succeeded, Replied, UnderWay, After
<1>2. Voting(c) /\ Unheard(c)
  BY <1>1 DEF Voting, Unheard, Succeeded, Replied
<1>3. call[c] \in VoteCall
  BY <1>2, TaskFacts DEF SessionInv, Voting
<1>4. b \in Button /\ target \in Targets
  BY <1>3, SessionAssumption DEF VoteCall, Targets
<1>5. /\ loggedInUser # None /\ button[b].user = loggedInUser /\ call[c].token = token
      /\ \A d \in Button : button[d].open /\ Target[d] = target => d = b
      /\ call[c].value \in Values(target) /\ before = KnownVotes[Self][target]
      /\ call[c].task = "revoke" <=> call[c].value = before
      /\ token # None /\ vote[Self][target] = after
  BY <1>1, <1>2 DEF PatientInv, VotesSent
<1>6. Self = token /\ Self \in Account
  BY <1>5 DEF PatientInv, TokenIsOfUser, SessionInv, ServiceTypeOK
<1>7. None \notin Values(target)
  BY SessionAssumption DEF Values
<1>8. after \in Values(target) \cup {None} /\ after # before
  BY <1>1, <1>5, <1>7 DEF After
<1>9. \A d \in Call : call'[d] = None
  BY <1>1, DoneFacts DEF SessionInv, PatientInv, OneCall
<1>10. NoVotes'
  BY <1>9 DEF NoVotes, Voting, UnderWay
<1>11. KnownVotes' = vote
  BY <1>1, <1>10, UnheardNext
<1>12. KnownVotes = WithVote(vote, Self, target, before)
  BY <1>2, <1>5, <1>6, OneUnheard DEF PatientInv, OneMissing, Without
<1>13. vote \in VoteMaps
  BY DEF SessionInv, ServiceTypeOK, VoteMaps, Targets
<1>14. vote = WithVote(KnownVotes, Self, target, after)
  <2> DEFINE a == Self
             W == WithVote(KnownVotes, a, target, after)
  <2> HIDE DEF a
  <2>1. a \in Account /\ KnownVotes \in VoteMaps /\ vote[a][target] = after
        /\ KnownVotes = WithVote(vote, a, target, before)
    BY <1>5, <1>6, <1>12 DEF PatientInv, VotesTyped, a
  <2>2. /\ \A x \in Account : x # a => KnownVotes[x] = vote[x]
        /\ \A t \in Targets : t # target => KnownVotes[a][t] = vote[a][t]
    BY <1>4, <1>13, <2>1 DEF WithVote, VoteMaps
  <2>3. /\ \A x \in Account : x # a => W[x] = vote[x]
        /\ \A t \in Targets : W[a][t] = vote[a][t]
    BY <1>4, <2>1, <2>2 DEF WithVote, VoteMaps
  <2>4. W \in VoteMaps
    BY <1>4, <2>1, TallyWithVote
  <2> HIDE DEF W
  <2>5. W[a] = vote[a]
    BY <1>13, <2>1, <2>3, <2>4 DEF VoteMaps
  <2>6. W = vote
    BY <1>13, <2>3, <2>4, <2>5 DEF VoteMaps
  <2> QED BY <2>6 DEF W, a
<1> QED BY <1>4, <1>5, <1>6, <1>8, <1>9, <1>11, <1>14

\* The map, the buttons and what is said of calls, whichever the target is.
LEMMA VoteShown ==
  ASSUME SessionInv, PatientInv, NEW c \in Call, NEW task \in {"vote", "revoke"},
         NEW after \in Cast \cup {None}, VoteArrives(c, task, after),
         \A d \in Button :
            /\ button'[d].open = button[d].open /\ button'[d].user = button[d].user
            /\ d = call[c].button => button'[d].shown = after
            /\ d # call[c].button => button'[d].shown = button[d].shown
            /\ Target[d] = "card" /\ button[d].open => button'[d].meters = counters'
  PROVE  /\ OneCall' /\ OneButton' /\ TokenIsOfUser' /\ MapsKnow' /\ ButtonsShow' /\ VotesSent'
         /\ VotesTyped'
<1> DEFINE b == call[c].button
           target == Target[b]
<1>1. /\ b \in Button /\ target \in Targets
      /\ loggedInUser # None /\ button[b].user = loggedInUser /\ Self \in Account
      /\ \A d \in Button : button[d].open /\ Target[d] = target => d = b
      /\ after \in Values(target) \cup {None}
      /\ vote = WithVote(KnownVotes, Self, target, after)
      /\ \A d \in Call : call'[d] = None
      /\ KnownVotes' = vote
  BY VoteHeard
<1>2. UNCHANGED <<token, loggedInUser, vote>> /\ users' = UsersWith(b, after)
  BY DEF VoteArrives
<1>3. /\ Self' = Self
      /\ users'[loggedInUser].votes[target] = after
      /\ \A t \in Targets : t # target =>
            users'[loggedInUser].votes[t] = users[loggedInUser].votes[t]
  BY <1>1, <1>2, UsersWithVote
<1>4. KnownVotes \in VoteMaps
  BY DEF PatientInv, VotesTyped
<1>5. /\ KnownVotes'[Self][target] = after
      /\ \A t \in Targets : t # target => KnownVotes'[Self][t] = KnownVotes[Self][t]
  BY <1>1, <1>4 DEF WithVote, VoteMaps
<1>6. NoVotes' /\ \A d \in Call : ~UnderWay(d, "user")'
  BY <1>1 DEF NoVotes, Voting, UnderWay
<1>7. OneCall' /\ OneButton' /\ TokenIsOfUser'
  BY <1>1, <1>2, <1>3, <1>6 DEF PatientInv, OneCall, OneButton, TokenIsOfUser
<1>8. after # Absent
  BY <1>1, SessionAssumption DEF Values, Absent
<1>9. ASSUME NEW t \in Targets
      PROVE  ValueOf(users'[loggedInUser].votes[t]) = KnownVotes'[Self][t]
  <2>1. CASE t = target
    BY <1>3, <1>5, <1>8, <2>1 DEF ValueOf
  <2>2. CASE t # target
    BY <1>1, <1>3, <1>5, <2>2 DEF PatientInv, MapsKnow
  <2> QED BY <2>1, <2>2
<1>10. MapsKnow'
  BY <1>2, <1>3, <1>6, <1>9 DEF MapsKnow, Succeeded, Replied
<1>11. ASSUME NEW d \in Button, button'[d].open
       PROVE  /\ Target[d] = "card" => button'[d].meters = counters'
              /\ button'[d].user = None => button'[d].shown = None
              /\ button'[d].user # None =>
                    button'[d].user = loggedInUser /\ button'[d].shown = KnownVotes'[Self][Target[d]]
  <2>1. button[d].open /\ (Target[d] = "card" => button'[d].meters = counters')
    BY <1>11
  <2>2. CASE d = b
    BY <1>1, <1>5, <2>1, <2>2
  <2>3. CASE d # b
    <3>1. Target[d] \in Targets /\ Target[d] # target
      BY <1>1, <2>1, <2>3, SessionAssumption DEF Targets
    <3>2. KnownVotes'[Self][Target[d]] = KnownVotes[Self][Target[d]]
      BY <1>5, <3>1
    <3> QED BY <2>1, <2>3, <3>2 DEF PatientInv, ButtonsShow
  <2> QED BY <2>2, <2>3
<1>12. ButtonsShow'
  BY <1>2, <1>3, <1>11 DEF ButtonsShow
<1>13. VotesSent'
  BY <1>6 DEF VotesSent, NoVotes
<1>14. VotesTyped'
  <2>1. vote \in VoteMaps
    BY DEF SessionInv, ServiceTypeOK, VoteMaps, Targets
  <2> QED BY <1>1, <1>2, <2>1 DEF PatientInv, VotesTyped
<1> QED BY <1>7, <1>10, <1>12, <1>13, <1>14

\* The vote on the card arrives: the meters and the map follow it.
LEMMA CardVoteArrivesPatient ==
  ASSUME SessionInv, PatientInv, NEW c \in Call, NEW task \in {"vote", "revoke"},
         NEW after \in Cast \cup {None}, CardVoteArrives(c, task, after)
  PROVE  PatientInv'
<1> DEFINE b == call[c].button
           before == call[c].before
<1>1. /\ VoteArrives(c, task, after) /\ Target[b] = "card" /\ UNCHANGED score
      /\ counters' = Recounted(before, after) /\ arcs' = ArcsOf(counters')
      /\ button' = [button EXCEPT ![b] = [@ EXCEPT !.shown = after, !.meters = counters']]
  BY DEF CardVoteArrives, VoteChanged
<1>2. /\ before = KnownVotes[Self]["card"] /\ Self \in Account
      /\ vote = WithVote(KnownVotes, Self, "card", after)
      /\ \A d \in Button : button[d].open /\ Target[d] = "card" => d = b
      /\ KnownVotes' = vote /\ b \in Button
  BY <1>1, VoteHeard
<1>3. KnownVotes \in VoteMaps
  BY DEF PatientInv, VotesTyped
<1>4. /\ \A x : Tally(vote, "comment", x) = Tally(KnownVotes, "comment", x)
      /\ \A x : /\ Tally(KnownVotes, "card", x) \in Nat
                /\ Tally(vote, "card", x) = Tally(KnownVotes, "card", x)
                        + (IF x = after THEN 1 ELSE 0) - (IF x = before THEN 1 ELSE 0)
  BY <1>2, <1>3, TallyWithVote DEF Targets
<1>5. Tallied'
  <2>1. counters = [type \in VoteKind |-> Tally(KnownVotes, "card", type)]
    BY DEF PatientInv, Tallied
  <2>2. counters' = [type \in VoteKind |-> Tally(vote, "card", type)]
    BY <1>1, <1>4, <2>1 DEF Recounted
  <2>3. score' = Tally(vote, "comment", "up") - Tally(vote, "comment", "down")
    BY <1>1, <1>4 DEF PatientInv, Tallied
  <2>4. \A x, t : Tally(vote, t, x) = Tally(KnownVotes', t, x)
    BY <1>2
  <2> QED BY <1>1, <1>2, <2>2, <2>3 DEF Tallied, Tally
<1>6. \A d \in Button :
            /\ button'[d].open = button[d].open /\ button'[d].user = button[d].user
            /\ d = b => button'[d].shown = after
            /\ d # b => button'[d].shown = button[d].shown
            /\ Target[d] = "card" /\ button[d].open => button'[d].meters = counters'
  BY <1>1, <1>2 DEF SessionInv, ButtonsTypeOK, Fields
<1> QED BY <1>1, <1>5, <1>6, VoteShown DEF PatientInv

\* The vote on a comment arrives: the score and the map follow it.
LEMMA CommentVoteArrivesPatient ==
  ASSUME SessionInv, PatientInv, NEW c \in Call, NEW task \in {"vote", "revoke"},
         NEW after \in Cast \cup {None}, CommentVoteArrives(c, task, after)
  PROVE  PatientInv'
<1> DEFINE b == call[c].button
           before == call[c].before
<1>1. /\ VoteArrives(c, task, after) /\ Target[b] = "comment" /\ UNCHANGED <<counters, arcs>>
      /\ score' = Rescored(before, after)
      /\ button' = [button EXCEPT ![b] = [@ EXCEPT !.shown = after]]
  BY DEF CommentVoteArrives
<1>2. /\ before = KnownVotes[Self]["comment"] /\ Self \in Account
      /\ vote = WithVote(KnownVotes, Self, "comment", after)
      /\ KnownVotes' = vote /\ b \in Button
      /\ after \in Values("comment") \cup {None} /\ after # before
  BY <1>1, VoteHeard
<1>3. KnownVotes \in VoteMaps
  BY DEF PatientInv, VotesTyped
<1>4. /\ \A x : Tally(vote, "card", x) = Tally(KnownVotes, "card", x)
      /\ \A x : /\ Tally(KnownVotes, "comment", x) \in Nat
                /\ Tally(vote, "comment", x) = Tally(KnownVotes, "comment", x)
                        + (IF x = after THEN 1 ELSE 0) - (IF x = before THEN 1 ELSE 0)
  BY <1>2, <1>3, TallyWithVote DEF Targets
<1>5. before \in {None, "up", "down"} /\ after \in {None, "up", "down"}
  BY <1>2 DEF PatientInv, VotesTyped, Values, Targets
<1>6. score' = Tally(vote, "comment", "up") - Tally(vote, "comment", "down")
  <2> DEFINE up == Tally(KnownVotes, "comment", "up")
             down == Tally(KnownVotes, "comment", "down")
  <2>1. score = up - down /\ up \in Nat /\ down \in Nat
    BY <1>4 DEF PatientInv, Tallied
  <2>2. /\ Tally(vote, "comment", "up") = up + (IF "up" = after THEN 1 ELSE 0)
                                             - (IF "up" = before THEN 1 ELSE 0)
        /\ Tally(vote, "comment", "down") = down + (IF "down" = after THEN 1 ELSE 0)
                                                 - (IF "down" = before THEN 1 ELSE 0)
    BY <1>4
  <2> HIDE DEF up, down
  <2>3. None \notin {"up", "down"}
    BY SessionAssumption
  <2>4. CASE after = None
    <3>1. score' = score - Up(before) /\ before \in {"up", "down"}
      BY <1>1, <1>2, <1>5, <2>4 DEF Rescored
    <3> QED BY <2>1, <2>2, <2>3, <2>4, <3>1 DEF Up
  <2>5. CASE after # None /\ before # None
    <3>1. score' = score + 2 * Up(after) /\ before \in {"up", "down"} /\ after \in {"up", "down"}
      BY <1>1, <1>5, <2>5 DEF Rescored
    <3> QED BY <1>2, <2>1, <2>2, <3>1 DEF Up
  <2>6. CASE after # None /\ before = None
    <3>1. score' = score + Up(after) /\ after \in {"up", "down"}
      BY <1>1, <1>5, <2>6 DEF Rescored
    <3> QED BY <2>1, <2>2, <2>3, <2>6, <3>1 DEF Up
  <2> QED BY <2>4, <2>5, <2>6
<1>7. Tallied'
  <2>1. counters' = [type \in VoteKind |-> Tally(vote, "card", type)]
    BY <1>1, <1>4 DEF PatientInv, Tallied
  <2> QED BY <1>1, <1>2, <1>6, <2>1 DEF PatientInv, Tallied, Tally
<1>8. \A d \in Button :
            /\ button'[d].open = button[d].open /\ button'[d].user = button[d].user
            /\ d = b => button'[d].shown = after
            /\ d # b => button'[d].shown = button[d].shown
            /\ Target[d] = "card" /\ button[d].open => button'[d].meters = counters'
  <2>1. \A d \in Button :
            /\ button'[d].open = button[d].open /\ button'[d].user = button[d].user
            /\ d = b => button'[d].shown = after
            /\ d # b => button'[d].shown = button[d].shown
            /\ button'[d].meters = button[d].meters
    BY <1>1, <1>2 DEF SessionInv, ButtonsTypeOK, Fields
  <2> QED BY <1>1, <2>1 DEF PatientInv, ButtonsShow
<1> QED BY <1>1, <1>7, <1>8, VoteShown DEF PatientInv

\* Every step keeps the invariant while the user is patient and the network kind.
LEMMA PatientStep ==
  patient /\ SessionInv /\ PatientInv /\ [SessionSteps]_<<sessionVars, patient>> => PatientInv'
<1> SUFFICES ASSUME patient, SessionInv, PatientInv, [SessionSteps]_<<sessionVars, patient>>
             PROVE  PatientInv'
  OBVIOUS
<1>1. CASE UNCHANGED sessionVars
  <2>1. UNCHANGED <<call, token, loggedInUser, users, button, counters, score, arcs, vote>>
    BY <1>1 DEF sessionVars, userVars, pageVars
  <2>2. KnownVotes' = KnownVotes
    BY <2>1, KnownVotesFrame
  <2>3. \A c \in Call : (Voting(c)' <=> Voting(c)) /\ (Unheard(c)' <=> Unheard(c)) /\ After(c)' = After(c)
    BY <2>1 DEF Voting, Unheard, Succeeded, Replied, UnderWay, After
  <2>4. VotesSent'
    BY <2>1, <2>2, <2>3 DEF PatientInv, VotesSent, Self
  <2> QED BY <2>1, <2>2, <2>4 DEF PatientInv, OneCall, OneButton, TokenIsOfUser, MapsKnow, ButtonsShow,
             VotesTyped, Tallied, Tally, Self, Succeeded, Replied, UnderWay
<1>2. CASE SessionNext /\ SessionPatiently
  <2>1. CASE Logout
    BY <1>2, <2>1, LogoutPatient
  <2>2. ASSUME NEW b \in Button, OpenButton(b) \/ CloseButton(b) PROVE PatientInv'
    BY <1>2, <2>2, OpenButtonPatient, CloseButtonPatient
  <2>3. ASSUME NEW c \in Call, NEW a \in Account, Authenticate(c, a) PROVE PatientInv'
    BY <1>2, <2>3, AuthenticatePatient
  <2>4. ASSUME NEW c \in Call, NEW b \in Button, NEW value \in VoteKind, CardVoteClicked(c, b, value)
        PROVE  PatientInv'
    BY <1>2, <2>4, VoteClickedPatient DEF CardVoteClicked, Values
  <2>5. ASSUME NEW c \in Call, NEW b \in Button, NEW value \in {"up", "down"},
               CommentVoteClicked(c, b, value)
        PROVE  PatientInv'
    BY <1>2, <2>5, VoteClickedPatient DEF CommentVoteClicked, Values
  <2>6. ASSUME NEW c \in Call, UserArrives(c) \/ UserFails(c) \/ ServeUser(c) \/ LoseCall(c)
        PROVE  PatientInv'
    BY <1>2, <2>6, UserArrivesPatient, FailsPatient, ServeUserPatient, LoseCallPatient
  <2>7. ASSUME NEW c \in Call, NEW task \in {"vote", "revoke"},
               \/ VoteFails(c, task) \/ ServeVote(c, task)
               \/ \E after \in Cast \cup {None} :
                    CardVoteArrives(c, task, after) \/ CommentVoteArrives(c, task, after)
        PROVE  PatientInv'
    BY <2>7, FailsPatient, ServeVotePatient, CardVoteArrivesPatient, CommentVoteArrivesPatient
  <2> QED BY <1>2, <2>1, <2>2, <2>3, <2>4, <2>5, <2>6, <2>7 DEF SessionNext
<1> QED BY <1>1, <1>2 DEF SessionSteps

-----------------------------------------------------------------------------
(***************************************************************************)
(* The theorems.                                                           *)
(***************************************************************************)

\* The invariant of the user service, the buttons and their calls: what user-service.js
\* and the vote directives rely on when an answer arrives.
THEOREM SessionInvCorrect == SessionSpec => []SessionInv
<1>1. [SessionSteps]_<<sessionVars, patient>> => [SessionNext]_sessionVars
  BY DEF SessionSteps
<1> QED BY <1>1, InitInv, StepInv, PTL DEF SessionSpec

\* Whoever has signed in is known, or being asked for, unless an answer about the user
\* was lost, and once the user is known every button of the page has one: also those
\* made before, by the event successful-login (user-service.js, subscribeSuccessfulLogin).
THEOREM SignedInCanVoteCorrect == SessionSpec => []SignedInCanVote
<1>1. SessionInv => SignedInCanVote
  BY DEF SessionInv, UserKnown, ButtonsKnow, SignedInCanVote
<1> QED BY <1>1, SessionInvCorrect, PTL

\* The invariant behind it: one call at a time, the buttons of a target show what the
\* user's map says, and map, counters, score and arcs know all votes but one that is
\* served and not heard of.
THEOREM PatientInvCorrect == SessionSpec => [](patient => PatientInv)
<1>1. SessionInv /\ (patient => PatientInv) /\ [SessionSteps]_<<sessionVars, patient>>
        => (patient => PatientInv)'
  BY PatientStep DEF SessionSteps
<1>2. SessionInit /\ FirstCalls => (patient => PatientInv)
  BY InitPatient
<1> QED BY <1>1, <1>2, SessionInvCorrect, PTL DEF SessionSpec

\* When nothing is under way, the counters, the score and the arcs are those of the votes
\* the server has, and every button of a known user shows that user's vote, for a user who
\* does one thing at a time and a network that loses no call the server has got: also
\* after signing out and in again, opening buttons anew and revoking (vote-button-directive.js,
\* comment-vote-directive.js).
THEOREM VotesAgreeCorrect == SessionSpec => []VotesAgree
<1>1. SessionInv /\ (patient => PatientInv) => VotesAgree
  <2> SUFFICES ASSUME SessionInv, PatientInv, Quiet
               PROVE  /\ counters = VotesCounted /\ score = VotesScored
                      /\ arcs = ArcsOf(VotesCounted)
                      /\ \A b \in Button : button[b].open /\ button[b].user # None =>
                            /\ button[b].shown = vote[users[button[b].user].account][Target[b]]
                            /\ Target[b] = "card" => button[b].meters = counters
    BY DEF VotesAgree
  <2>1. NoVotes
    BY DEF Quiet, NoVotes, Voting, UnderWay
  <2>2. KnownVotes = vote
    BY <2>1, NoVotesUnheard
  <2>3. counters = VotesCounted /\ score = VotesScored /\ arcs = ArcsOf(VotesCounted)
    BY <2>2 DEF PatientInv, Tallied, Tally, VotesCounted, VotesScored
  <2> QED BY <2>2, <2>3 DEF PatientInv, ButtonsShow, Self
<1> QED BY <1>1, SessionInvCorrect, PatientInvCorrect, PTL
=============================================================================
