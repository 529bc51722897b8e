---------------------------- MODULE Deduplication ----------------------------
(***************************************************************************)
(* What IncidentPipeline.process promises those who call it, without the   *)
(* debounce keys, the clock, the buckets, the retries and the databases:   *)
(* a content has at most one work item, its creation is announced at most  *)
(* once, and no call is refused for a content nobody was let through with. *)
(***************************************************************************)
CONSTANTS
  Workers,   \* those who call
  Contents,  \* what they submit
  Idle       \* the value of a caller that waits for nothing

VARIABLES
  items,  \* the contents that have a work item
  known,  \* the contents somebody was let through with
  asks    \* Workers -> a content and the answer to it, or Idle

dedupVars == <<items, known, asks>>

DedupInit ==
  /\ items = {}
  /\ known = {}
  /\ asks = [w \in Workers |-> Idle]

Pending(w) == asks[w] # Idle /\ asks[w].answer = "none"

Answered(w, answer) == asks' = [asks EXCEPT ![w].answer = answer]
-------------------------------------------------------------------------------
Ask(w) ==
  /\ asks[w] = Idle
  /\ \E content \in Contents : asks' = [asks EXCEPT ![w] = [content |-> content, answer |-> "none"]]
  /\ UNCHANGED <<items, known>>

\* The caller is let through.
Admit(w) ==
  /\ Pending(w)
  /\ known' = known \union {asks[w].content}
  /\ UNCHANGED <<items, asks>>

\* The content of a caller that was let through gets its work item, and nobody else has it ...
Enter(w) ==
  /\ Pending(w)
  /\ asks[w].content \in known \ items
  /\ items' = items \union {asks[w].content}
  /\ UNCHANGED known

\* ... and the caller is told so,
Create(w) == Enter(w) /\ Answered(w, "created")

\* or it is not: it goes on asking, or is told of an error.
CreateUnnoticed(w) == Enter(w) /\ (UNCHANGED asks \/ Answered(w, "error"))

\* The caller is refused.  An error may be answered any time; a duplicate, or a rejection,
\* only if somebody was let through with the content, if only this caller.
Refuse(w) ==
  /\ Pending(w)
  /\ known' \in {known, known \union {asks[w].content}}
  /\ \/ Answered(w, "error")
     \/ asks[w].content \in known' /\ (Answered(w, "dropped") \/ Answered(w, "rejected"))
  /\ UNCHANGED items

\* The caller has its answer, or is gone.
Leave(w) ==
  /\ asks[w] # Idle
  /\ asks' = [asks EXCEPT ![w] = Idle]
  /\ UNCHANGED <<items, known>>

DedupNext ==
  \E w \in Workers :
    Ask(w) \/ Admit(w) \/ Create(w) \/ CreateUnnoticed(w) \/ Refuse(w) \/ Leave(w)

DedupSpec == DedupInit /\ [][DedupNext]_dedupVars
==============================================================================
