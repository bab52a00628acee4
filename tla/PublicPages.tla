----------------------------- MODULE PublicPages ----------------------------
(***************************************************************************)
(* What the argument graph promises its readers: "Publish always modifies  *)
(* an existing id" (data-model-notes.md).  A page is a public node.  It    *)
(* never goes away and never changes its kind; what it says is only ever   *)
(* replaced by content that was never published before; what it rests on   *)
(* changes only together with what it says, and is public too.             *)
(***************************************************************************)
VARIABLES page,      \* page[n] = [content, type, support], for the public nodes n
          published  \* all content that was published so far

Closed == \A n \in DOMAIN page : page[n].support \subseteq DOMAIN page

ContentUnique ==
    \A m, n \in DOMAIN page : page[m].content = page[n].content => m = n

\* The record may start with content in it.
Init ==
    /\ Closed
    /\ ContentUnique
    /\ {page[n].content : n \in DOMAIN page} \subseteq published

\* Any number of pages appear or are rewritten at once.  Content may be published
\* and replaced again in one such step: a draft can rest on another draft of its
\* own page.
Publish ==
    /\ DOMAIN page \subseteq DOMAIN page'
    /\ \A n \in DOMAIN page' :
        \/ n \in DOMAIN page /\ page'[n] = page[n]
        \/ /\ page'[n].content \notin published
           /\ n \in DOMAIN page => page'[n].type = page[n].type
    /\ Closed'
    /\ ContentUnique'
    /\ published \cup {page'[n].content : n \in DOMAIN page'} \subseteq published'

Spec == Init /\ [][Publish]_<<page, published>>
=============================================================================
