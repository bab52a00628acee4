------------------------------- MODULE Services -------------------------------
(***************************************************************************)
(* Calls of the services of the pages to the server.  Calls are sent by    *)
(* $http and answered in any order; the callbacks of a call run in one     *)
(* step.                                                                   *)
(***************************************************************************)
EXTENDS Integers, Sequences, SequencesExt

CONSTANTS Call,   \* bound: the calls at the same time
          None

VARIABLES call,     \* what is under way: its task, what it says, and its reply
          patient   \* the user and the network are kind, as the *Patiently actions say;
                    \* this does not change

Quiet == \A c \in Call : call[c] = None

UnderWay(c, task) == call[c] # None /\ call[c].task = task

Send(c, request) ==
    /\ call[c] = None
    /\ call' = [call EXCEPT ![c] = request]

\* The server has received the call and not answered, it answers; then its callback runs.
Asked(c, task) == UnderWay(c, task) /\ call[c].reply = None
Reply(c, reply) == call' = [call EXCEPT ![c] = [@ EXCEPT !.reply = reply]]
Replied(c, task) == UnderWay(c, task) /\ call[c].reply # None
Done(c) == call' = [call EXCEPT ![c] = None]

Refusal == [ok |-> FALSE]
Succeeded(c, task) == Replied(c, task) /\ call[c].reply.ok
Failed(c, task) == Replied(c, task) /\ ~call[c].reply.ok

Together(c, d) == c # d /\ call'[c] # None /\ call'[d] # None
Fails(c) == call'[c] # None /\ call'[c].reply = Refusal

\* The connection breaks before the server has the call, or before its answer is here.
Lose(c) == call[c] # None /\ call[c].reply # Refusal /\ Reply(c, Refusal)

\* A kind network loses no call that the server has got.
LostUnserved == \A c \in Call : Fails(c) => call[c].reply \in {None, Refusal}
=============================================================================
