---------------------------- MODULE SignalConsumer ----------------------------
(***************************************************************************)
(* SignalConsumer._handle (signals/consumer.py): the NATS subscriber of    *)
(* every process, over IncidentPipeline.process and the signal collection  *)
(* in MongoDB (signals/store.py).                                          *)
(*                                                                         *)
(* The subscription has no queue group, so every process gets every        *)
(* message, and NATS core delivers it at most once.  A process handles its *)
(* messages one after the other.  Up to the insert the handler never       *)
(* awaits, so no route of the same process runs in between; other          *)
(* processes may, and each access to Redis or a database is one action.    *)
(*                                                                         *)
(* A signal names a component, and a component has a type.  The incident   *)
(* the consumer builds has a title and a description that depend on the    *)
(* type alone: its content is the type.                                    *)
(*                                                                         *)
(* The end of lifespan closes the database and the MongoDB client first    *)
(* and drains NATS afterwards: the messages a process has been delivered   *)
(* are then handled without either.                                        *)
(***************************************************************************)
EXTENDS Pipeline, Sequences, SequencesExt

CONSTANTS
  Signals,     \* the signals there may be
  Component,   \* Signals -> their component_id
  TypeOf,      \* component_id -> component_type, a content
  RouteContents, \* the contents submitted through POST /incidents
  Refused,     \* the types whose generated RCA texts the policy refuses
  LinkWindow,  \* link_window_seconds (10)
  NoItem       \* the work_item_id of a signal without one

Components == {Component[s] : s \in Signals}

Content(s) == TypeOf[Component[s]]

ASSUME ConsumerAssumption ==
  /\ \A s \in Signals : Content(s) \in Contents
  /\ Refused \subseteq Contents
  /\ RouteContents \subseteq Contents
  /\ LinkWindow \in Nat \ {0}
  /\ NoItem \notin Contents

Handler ==
  [phase : {"look", "process", "link", "insert"}, signal : Signals,
   item : Contents \union {NoItem}, attempt : 1 .. Attempts]

ASSUME HandlerAssumption == Idle \notin Handler

VARIABLES
  published,  \* the signals published to NATS
  inbox,      \* Workers -> the messages delivered to it and not yet handled
  handler,    \* Workers -> the run of _handle, or Idle
  linkTo,     \* component -> the work item under its signal-link key
  linkUntil,  \* component -> when that key expires (0: never set)
  docs,       \* Signals -> the work item ids of its documents in MongoDB
  closing,    \* the processes whose lifespan is ending, or over
  handled,    \* history: the signals each process has finished with
  late        \* history: the signals a process had still to handle when it was shut down

lifespanVars == <<closing, late>>
consumerVars == <<published, inbox, handler, linkTo, linkUntil, docs, handled, lifespanVars>>
vars == <<pipelineVars, consumerVars>>

TypeOK ==
  /\ PipelineTypeOK
  /\ published \subseteq Signals
  /\ inbox \in [Workers -> Seq(Signals)]
  /\ handler \in [Workers -> Handler \union {Idle}]
  /\ linkTo \in [Components -> Contents \union {NoItem}]
  /\ linkUntil \in [Components -> 0 .. (MaxTime + LinkWindow)]
  /\ docs \in [Signals -> Seq(Contents \union {NoItem})]
  /\ closing \subseteq Workers
  /\ handled \in [Workers -> SUBSET Signals]
  /\ late \subseteq Signals

ConsumerInit ==
  /\ PipelineInit
  /\ published = {}
  /\ inbox = [w \in Workers |-> <<>>]
  /\ handler = [w \in Workers |-> Idle]
  /\ linkTo = [c \in Components |-> NoItem]
  /\ linkUntil = [c \in Components |-> 0]
  /\ docs = [s \in Signals |-> <<>>]
  /\ closing = {}
  /\ handled = [w \in Workers |-> {}]
  /\ late = {}

Handling(w, phase) == handler[w] # Idle /\ handler[w].phase = phase

\* (mutant) The handler keeps the loop while it inserts.
LoopHeldByInsert(w) == call[w] = Idle /\ handler[w] = Idle

\* Nothing runs on the event loop of w that does not await.
LoopFree(w) ==
  /\ call[w] = Idle
  /\ handler[w] = Idle \/ Handling(w, "insert")

Moves(w, phase) == handler' = [handler EXCEPT ![w].phase = phase]

\* _handle has returned; its exceptions are logged and go nowhere.
Finishes(w) ==
  /\ handler' = [handler EXCEPT ![w] = Idle]
  /\ handled' = [handled EXCEPT ![w] = @ \union {handler[w].signal}]

\* (mutant) The attempts are counted from zero.
InsertsFromZero(w, item) ==
  handler' = [handler EXCEPT ![w].phase = "insert", ![w].item = item, ![w].attempt = 0]

\* The handler goes on to insert its signal, linked to item.
InsertsWith(w, item) ==
  handler' = [handler EXCEPT ![w].phase = "insert", ![w].item = item, ![w].attempt = 1]
-------------------------------------------------------------------------------
\* SignalProducer.publish: NATS delivers to every subscriber, unless it loses some.
Publish(s) ==
  /\ s \notin published
  /\ closing # Workers
  /\ published' = published \union {s}
  /\ \E W \in SUBSET (Workers \ closing) :
       /\ IF W = Workers \ closing THEN UNCHANGED faults ELSE Fault
       /\ inbox' = [w \in Workers |-> IF w \in W THEN Append(inbox[w], s) ELSE inbox[w]]
  /\ UNCHANGED <<now, expires, stored, call, claims, handler, linkTo, linkUntil, docs, handled, lifespanVars>>

\* The subscription takes the next message.
Receive(w) ==
  /\ LoopFree(w)
  /\ handler[w] = Idle
  /\ inbox[w] # <<>>
  /\ handler' = [handler EXCEPT ![w] =
       [phase |-> "look", signal |-> Head(inbox[w]), item |-> NoItem, attempt |-> 1]]
  /\ inbox' = [inbox EXCEPT ![w] = Tail(@)]
  /\ UNCHANGED <<pipelineVars, published, linkTo, linkUntil, docs, handled, lifespanVars>>

ComponentOf(w) == Component[handler[w].signal]

\* (mutant) A linked signal is not inserted.
LookFindsReturns(w) ==
  /\ Handling(w, "look")
  /\ now < linkUntil[ComponentOf(w)]
  /\ Finishes(w)
  /\ UNCHANGED <<pipelineVars, published, inbox, linkTo, linkUntil, docs, lifespanVars>>

\* redis.get finds the signal-link key of the component: insert, linked.
LookFinds(w) ==
  /\ Handling(w, "look")
  /\ now < linkUntil[ComponentOf(w)]
  /\ InsertsWith(w, linkTo[ComponentOf(w)])
  /\ UNCHANGED <<pipelineVars, published, inbox, linkTo, linkUntil, docs, handled, lifespanVars>>

\* It does not: an incident is built and handed to process.
LookMisses(w) ==
  /\ Handling(w, "look")
  /\ ~(now < linkUntil[ComponentOf(w)])
  /\ Moves(w, "process")
  /\ LET content == Content(handler[w].signal)
     IN Called(w, content, Bucket, content \notin Refused)
  /\ UNCHANGED <<now, expires, stored, faults, claims,
                 published, inbox, linkTo, linkUntil, docs, handled, lifespanVars>>

\* The component is linked to the work item of its type, for link_window_seconds.
Linked(w) ==
  /\ linkTo' = [linkTo EXCEPT ![ComponentOf(w)] = Content(handler[w].signal)]
  /\ linkUntil' = [linkUntil EXCEPT ![ComponentOf(w)] = now + LinkWindow]

\* process has created the work item: setex links the component to it,
ProcessCreated(w) ==
  /\ Handling(w, "process")
  /\ InCall(w, "done")
  /\ call[w].result = "created"
  /\ Moves(w, "link")
  /\ call' = [call EXCEPT ![w] = Idle]
  /\ UNCHANGED <<now, expires, stored, faults, claims,
                 published, inbox, linkTo, linkUntil, docs, handled, lifespanVars>>

SetLink(w) ==
  /\ Handling(w, "link")
  /\ Linked(w)
  /\ InsertsWith(w, Content(handler[w].signal))
  /\ UNCHANGED <<pipelineVars, published, inbox, docs, handled, lifespanVars>>

\* (mutant) The component is linked whatever process returned.
ProcessRefusedLinks(w) ==
  /\ Handling(w, "process")
  /\ InCall(w, "done")
  /\ call[w].result \in {"dropped", "rejected"}
  /\ Moves(w, "link")
  /\ call' = [call EXCEPT ![w] = Idle]
  /\ UNCHANGED <<now, expires, stored, faults, claims,
                 published, inbox, linkTo, linkUntil, docs, handled, lifespanVars>>

\* or has dropped or rejected it: the signal is inserted without a work item,
ProcessRefused(w) ==
  /\ Handling(w, "process")
  /\ InCall(w, "done")
  /\ call[w].result \in {"dropped", "rejected"}
  /\ InsertsWith(w, NoItem)
  /\ call' = [call EXCEPT ![w] = Idle]
  /\ UNCHANGED <<now, expires, stored, faults, claims,
                 published, inbox, linkTo, linkUntil, docs, handled, lifespanVars>>

\* (mutant) The signal is inserted with the work item that could not be created.
ProcessRaisedInserts(w) ==
  /\ Handling(w, "process")
  /\ InCall(w, "done")
  /\ call[w].result = "error"
  /\ InsertsWith(w, Content(handler[w].signal))
  /\ call' = [call EXCEPT ![w] = Idle]
  /\ UNCHANGED <<now, expires, stored, faults, claims,
                 published, inbox, linkTo, linkUntil, docs, handled, lifespanVars>>

\* (mutant) The signal is inserted without a work item.
ProcessRaisedUnlinked(w) ==
  /\ Handling(w, "process")
  /\ InCall(w, "done")
  /\ call[w].result = "error"
  /\ InsertsWith(w, NoItem)
  /\ call' = [call EXCEPT ![w] = Idle]
  /\ UNCHANGED <<now, expires, stored, faults, claims,
                 published, inbox, linkTo, linkUntil, docs, handled, lifespanVars>>

\* or has raised: the signal is not inserted at all.
ProcessRaised(w) ==
  /\ Handling(w, "process")
  /\ InCall(w, "done")
  /\ call[w].result = "error"
  /\ Finishes(w)
  /\ call' = [call EXCEPT ![w] = Idle]
  /\ UNCHANGED <<now, expires, stored, faults, claims,
                 published, inbox, linkTo, linkUntil, docs, lifespanVars>>

\* Redis fails in get or in setex: the exception ends the handler.  setex may have been applied.
RedisFails(w) ==
  /\ Handling(w, "look") \/ Handling(w, "link")
  /\ Fault
  /\ Finishes(w)
  /\ \/ UNCHANGED <<linkTo, linkUntil>>
     \/ Handling(w, "link") /\ Linked(w)
  /\ UNCHANGED <<now, expires, stored, call, claims, published, inbox, docs, lifespanVars>>
-------------------------------------------------------------------------------
Document(w) ==
  docs' = [docs EXCEPT ![handler[w].signal] = Append(@, handler[w].item)]

\* SignalStore.insert: insert_one is acknowledged.
InsertReturns(w) ==
  /\ Handling(w, "insert")
  /\ LoopFree(w)
  /\ Document(w)
  /\ Finishes(w)
  /\ UNCHANGED <<pipelineVars, published, inbox, linkTo, linkUntil, lifespanVars>>

\* with_async_retry after an exception: once more, or the last one ends the handler.
InsertRetried(w) ==
  IF handler[w].attempt < Attempts
  THEN /\ handler' = [handler EXCEPT ![w].attempt = @ + 1]
       /\ UNCHANGED handled
  ELSE Finishes(w)

\* MongoDB fails, with the document inserted (its acknowledgement is lost) or not.  Every
\* attempt inserts a new document.
InsertFails(w) ==
  /\ Handling(w, "insert")
  /\ LoopFree(w)
  /\ Fault
  /\ Document(w) \/ UNCHANGED docs
  /\ InsertRetried(w)
  /\ UNCHANGED <<now, expires, stored, call, claims, published, inbox, linkTo, linkUntil, lifespanVars>>

\* The MongoDB client is closed: insert_one raises, unless it opens the client again as
\* earlier versions of the client do (InsertReturns).
InsertRefused(w) ==
  /\ Handling(w, "insert")
  /\ w \in closing
  /\ InsertRetried(w)
  /\ UNCHANGED <<pipelineVars, published, inbox, linkTo, linkUntil, docs, lifespanVars>>

\* The end of lifespan: no request is left, the database and the MongoDB client are closed,
\* and the subscription is drained.
Shutdown(w) ==
  /\ w \notin closing
  /\ LoopFree(w)
  /\ closing' = closing \union {w}
  /\ late' = late \union ToSet(inbox[w])
       \union (IF handler[w] = Idle THEN {} ELSE {handler[w].signal})
  /\ UNCHANGED <<pipelineVars, published, inbox, handler, linkTo, linkUntil, docs, handled>>

\* Drained, the process ends; another one takes its place.
Restart(w) ==
  /\ w \in closing
  /\ handler[w] = Idle /\ inbox[w] = <<>>
  /\ closing' = closing \ {w}
  /\ UNCHANGED <<pipelineVars, published, inbox, handler, linkTo, linkUntil, docs, handled, late>>

\* The process dies with its handler and the messages it had been delivered.
Crash(w) ==
  /\ call[w] # Idle \/ handler[w] # Idle \/ inbox[w] # <<>>
  /\ Fault
  /\ call' = [call EXCEPT ![w] = Idle]
  /\ handler' = [handler EXCEPT ![w] = Idle]
  /\ inbox' = [inbox EXCEPT ![w] = <<>>]
  /\ handled' = [handled EXCEPT ![w] = @ \union ToSet(inbox[w])
       \union (IF handler[w] = Idle THEN {} ELSE {handler[w].signal})]
  /\ UNCHANGED <<now, expires, stored, claims, published, linkTo, linkUntil, docs, lifespanVars>>

HandlerStep(w) ==
  \/ LookFinds(w)
  \/ LookMisses(w)
  \/ ProcessCreated(w)
  \/ ProcessRefused(w)
  \/ ProcessRaised(w)
  \/ SetLink(w)
  \/ RedisFails(w)
  \/ InsertReturns(w)
  \/ InsertFails(w)
  \/ InsertRefused(w)

\* POST /incidents, in a process whose loop is free; and its response.
SubmitByRoute(w) ==
  /\ LoopFree(w)
  /\ w \notin closing
  /\ \E content \in RouteContents, bucket \in BodyBuckets \union {Bucket}, acceptable \in BOOLEAN :
       Called(w, content, bucket, acceptable)
  /\ UNCHANGED <<now, expires, stored, faults, claims, consumerVars>>

ReturnToRoute(w) == ~Handling(w, "process") /\ Return(w) /\ UNCHANGED consumerVars

\* A step of process; on the closed connection of a closing process create only raises.
PipelineStep(w) ==
  /\ IF w \in closing /\ InCall(w, "store")
     THEN Retried(w) /\ UNCHANGED <<now, expires, stored, faults, claims>>
     ELSE ProcessStep(w)
  /\ UNCHANGED consumerVars

ConsumerNext ==
  \/ Tick /\ UNCHANGED consumerVars
  \/ \E s \in Signals : Publish(s)
  \/ \E w \in Workers :
       \/ Receive(w) \/ HandlerStep(w) \/ Crash(w) \/ Shutdown(w) \/ Restart(w)
       \/ PipelineStep(w) \/ SubmitByRoute(w) \/ ReturnToRoute(w)

ConsumerSpec == ConsumerInit /\ [][ConsumerNext]_vars

\* The accesses return or raise.  The callbacks of one event loop run in the order they
\* became ready, but routes may occupy it in between over and over: strong fairness for
\* the steps that wait for the loop.
ConsumerFairSpec ==
  /\ ConsumerSpec
  /\ \A w \in Workers :
       /\ WF_vars(PipelineStep(w) \/ ReturnToRoute(w))
       /\ SF_vars(Receive(w))
       /\ SF_vars(HandlerStep(w))
-------------------------------------------------------------------------------
\* A signal-link key never names a work item that is not in the database, nor one of
\* another type of component.
LinkRefersToItem ==
  \A c \in Components : linkTo[c] # NoItem => linkTo[c] = TypeOf[c] /\ linkTo[c] \in stored

\* Neither does a document, whatever failed or died after the work item was stored.
DocsReferToItem ==
  \A s \in Signals : \A i \in 1 .. Len(docs[s]) :
    docs[s][i] # NoItem => docs[s][i] = Content(s) /\ docs[s][i] \in stored

\* Without faults, a process stores exactly one document for every signal it has handled,
\* unless the type of its component was let through by the debouncer more than once, or a
\* process had still to handle the signal when it was shut down.
LostOnlyByRecurrence ==
  faults = 0 =>
    \A s \in Signals :
      LET times == Cardinality({w \in Workers : s \in handled[w]})
      IN \/ Len(docs[s]) = times
         \/ Len(docs[s]) < times /\ (PassedAgain(Content(s)) \/ s \in late)

\* A signal is stored without a work item only if the debouncer had let one of its type
\* through: it is a duplicate, or its incident was refused for its RCA.
UnlinkedWasPassed ==
  \A s \in Signals : \A i \in 1 .. Len(docs[s]) :
    docs[s][i] = NoItem => Passed(Content(s))

\* Every signal handled is in the signal collection, the audit log of all of them, unless a
\* process had still to handle it when it was shut down.
EverySignalStored == \A w \in Workers : \A s \in handled[w] \ late : docs[s] # <<>>

\* Every message delivered to a process is handled by it, or dies with it.
DeliveredIsHandled ==
  \A w \in Workers : \A s \in Signals :
    (\E i \in 1 .. Len(inbox[w]) : inbox[w][i] = s) ~> s \in handled[w]
==============================================================================
