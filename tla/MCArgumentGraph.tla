--------------------------- MODULE MCArgumentGraph -------------------------
(***************************************************************************)
(* ArgumentGraph on small instances.  The exploration starts either from   *)
(* the empty database or from one published argument, which leaves more    *)
(* identifiers for what is done to it.                                     *)
(***************************************************************************)
EXTENDS ArgumentGraphProperties, FiniteSets, TLC

CONSTANTS Source, Interpretation, Claim,  \* the three nodes of that argument,
          LeafSeed,                       \* the type of the first,
          Seeds,                          \* which of them there are at first,
          Founder,                        \* and the author of all of them
          NewTypes, BlankTexts, MaxLinks  \* bounds: what else is created, whether
                                          \* texts may be blank, how many children
                                          \* a version may ever have had

Symmetry == Permutations(Id \ Seeds) \cup Permutations(Author \ {Founder})

\* From the empty database every identifier is like any other.
AnySymmetry == Permutations(Id)

SeedNode(x, type, support) ==
    [type |-> type, body |-> x, support |-> support, previousVersion |-> None]

SeedBody(x, text) ==
    [author |-> Founder, majorVersion |-> x, minorVersion |-> 0, isPublic |-> TRUE,
     previousVersion |-> None, text |-> text]

SeedVersion(support) ==
    [author |-> Founder, edgeOwners |-> [w \in support |-> Founder]]

SeededInit ==
    /\ node = Restrict(Source :> SeedNode(Source, LeafSeed, {})
                       @@ Interpretation :> SeedNode(Interpretation, "interpretation", {Source})
                       @@ Claim :> SeedNode(Claim, "assertion", {Interpretation}), Seeds)
    /\ body = Restrict(Source :> SeedBody(Source, NoText)
                       @@ Interpretation :> SeedBody(Interpretation, NoText)
                       @@ Claim :> SeedBody(Claim, {Interpretation}), Seeds)
    /\ version = Restrict(Source :> SeedVersion({})
                          @@ Interpretation :> SeedVersion({Source})
                          @@ Claim :> SeedVersion({Interpretation}), Seeds)
    /\ calls = <<>>
    /\ saved = None
    /\ discarding = {}

Bounds ==
    /\ \A n \in DOMAIN node : n \in Seeds \/ node[n].type \in NewTypes
    /\ \A b \in DOMAIN body : body[b].text = NoText =>
            BlankTexts \/ \A n \in DOMAIN node : node[n].body = b => node[n].type # "assertion"
    /\ \A v \in DOMAIN version : Cardinality(DOMAIN version[v].edgeOwners) <= MaxLinks

SeededSpec == SeededInit /\ [][Next]_vars

\* The thread that serves a publication keeps running.
FairSeededSpec == SeededSpec /\ WF_vars(PublishStep)
=============================================================================
