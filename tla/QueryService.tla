---------------------------- MODULE QueryService ----------------------------
(***************************************************************************)
(* What the device classes count on when they send a query: the call ends, *)
(* with the whole answer to that very query, or with nothing.              *)
(***************************************************************************)
EXTENDS Naturals

CONSTANTS Queries,      \* identities of queries
          None,         \* no query is in progress
          Answer(_),    \* the instrument's whole answer to a query
          Nothing       \* the result of a query that is not answered

VARIABLES asked,    \* the query in progress, or None
          result    \* what the last finished query returned

Init == asked = None /\ result = Nothing

Ask == /\ asked = None
       /\ asked' \in Queries
       /\ result' = Nothing

Return == /\ asked # None
          /\ asked' = None
          /\ result' \in {Answer(asked), Nothing}

Next == Ask \/ Return

\* What is returned, and that it is.
Safety == Init /\ [][Next]_<<asked, result>>

Spec == Safety /\ WF_<<asked, result>>(Return)
=============================================================================
