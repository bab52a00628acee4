------------------------------ MODULE MCServices ------------------------------
(***************************************************************************)
(* The services on small instances, and what is expected of them.  The     *)
(* parts of a page do not wait for each other; here one of them moves.     *)
(*                                                                         *)
(* In the patient scenarios the user and the network are kind, as the      *)
(* *Patiently actions say.                                                 *)
(***************************************************************************)
EXTENDS Session, Comments, ErrorLog, Profile, TLC

CONSTANTS Parts    \* which parts move, patiently and not

VARIABLE scenario  \* the part that moves: part, patient

servicesVars == <<patient, sessionVars, commentVars, errorLogVars, profileVars, scenario>>

MCInit ==
    /\ scenario \in Parts
    /\ patient = scenario.patient
    /\ SessionInit /\ CommentsInit /\ ErrorLogInit /\ ProfileInit
    /\ scenario.part # "session" => token = None /\ \A a \in Account : vote[a]["card"] = None
    /\ \A a \in Account : vote[a]["card"] # "TRASH"
    /\ scenario.part # "comments" => thread = <<>> /\ node.there
    /\ scenario.part # "profile" =>
        /\ place = "profile" /\ own
        /\ stored.log = <<>> /\ stored.name = CHOOSE name \in Name : TRUE
    /\ CASE scenario.part = "session" -> FirstCalls
         [] scenario.part = "profile" -> PageCalls
         [] OTHER -> call = [c \in Call |-> None]

\* Bound on an impatient session: signing in and out, in whatever order the answers come,
\* and no votes.
SignInsOnly ==
    /\ \A c \in Call : call'[c] # None => call'[c].task = "user"
    /\ \A b \in Button : button'[b].open => Target[b] = "card"

\* Bounds on the comments: one form at a time; new ones say one thing, and edited ones another.
Forms ==
    {v \in DOMAIN view' : view'[v].editingTopLevel}
        \cup {-o : o \in {p \in DOMAIN comment' : comment'[p].editing \/ comment'[p].writingReply}}
FewForms ==
    /\ \A f, g \in Forms : f = g
    /\ \A c \in Call : call[c] = None /\ Writes(c) =>
        call'[c].body = IF call'[c].task = "create" THEN "a" ELSE "b"

MCNext ==
    /\ UNCHANGED scenario
    /\ \/ /\ scenario.part = "session"
          /\ SessionSteps /\ (~patient => SignInsOnly)
          /\ UNCHANGED <<thread, node, comment, view, loaded, lines, errors, bufferVars, tracing,
                         reports, untraced, stored, own, waiting, draftNodes, chart, alias, place>>
       \/ /\ scenario.part = "comments"
          /\ CommentsSteps /\ FewForms
          /\ UNCHANGED <<userVars, pageVars, vote, loaded, lines, errors, bufferVars, tracing,
                         reports, untraced, stored, own, waiting, draftNodes, chart, alias, place>>
       \/ /\ scenario.part = "errors" /\ ErrorLogNext
          /\ UNCHANGED <<patient, userVars, pageVars, vote, thread, node, comment, view,
                         stored, own, waiting, draftNodes, chart, alias, place>>
       \/ /\ scenario.part = "profile"
          /\ ProfileSteps
          /\ UNCHANGED <<userVars, pageVars, vote, thread, node, comment, view, loaded, lines,
                         errors, bufferVars, tracing, reports, untraced>>

MCSpec == MCInit /\ [][MCNext]_servicesVars

MCParts == {[part |-> "session", patient |-> TRUE], [part |-> "session", patient |-> FALSE],
            [part |-> "comments", patient |-> TRUE], [part |-> "errors", patient |-> TRUE],
            [part |-> "profile", patient |-> TRUE]}
MCSteps == {10, -4}
MCTarget == [b \in Button |-> IF b = 1 THEN "card" ELSE "comment"]

Bounds ==
    /\ Len(users) <= IF patient THEN 2 ELSE 3
    /\ \A b, d \in Button : button[b].open /\ button[d].open => b = d
    /\ Cardinality({i \in DOMAIN thread : thread[i].author = Writer}) <= 2 /\ Len(view) <= 2
    /\ errors <= 3
    /\ Len(stored.log) <= 2 /\ Len(draftNodes) <= 4 /\ alias.number <= 1

Symmetry == Permutations(Call)

=============================================================================
