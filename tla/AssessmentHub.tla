---------------------------- MODULE AssessmentHub ----------------------------
(***************************************************************************)
(* Live progress of a tenant's account assessment: the in-process pub/sub  *)
(* of internal/service/assessment_hub.go, the assessment runs that publish *)
(* to it (RunDiscoveryAssessment), the server-sent-event handler that      *)
(* serves it (StreamEvents) and the browser that watches                   *)
(* (apps/web/src/hooks/use-assessment-sse.ts).                             *)
(*                                                                         *)
(* A method of the hub looks the tenant's stream up under the hub's lock   *)
(* and then takes that stream's own lock, so a lookup and what is done     *)
(* under the stream's lock are two actions.  StartStream keeps the hub's   *)
(* lock all the time and is one.  Streams are private to a tenant, so one  *)
(* tenant is modelled; a stream is named after the run that started it.    *)
(* The browser's batching of events per animation frame is left out: an    *)
(* event is shown when it is received.                                     *)
(***************************************************************************)
EXTENDS Naturals, Sequences, SequencesExt

CONSTANTS
    Runs,          \* assessment runs, first ones and rescans
    Viewers,       \* browsers of the tenant that watch
    None,          \* no stream
    MaxHistory,    \* events kept for late joiners (500 in the code)
    Buffer,        \* capacity of a subscriber's channel (64 in the code)
    MaxEvents,     \* bound: events a run emits
    MaxConnects    \* bound: times a browser connects

ASSUME NoneAssumption == None \notin Runs
ASSUME BoundsAssumption == {MaxHistory, Buffer, MaxEvents, MaxConnects} \subseteq Nat

VARIABLES
    current,       \* the stream the hub's map holds
    stream,        \* the streams, by run
    run,           \* what each run is doing
    viewer,        \* what each viewer and its handler are doing
    sweeps         \* streams whose clean-up goroutine sleeps

vars == <<current, stream, run, viewer, sweeps>>

Event == [by : Runs, n : Nat \ {0}]

\* done is also true of a stream that was not started.
Stream == [done : BOOLEAN, history : Seq(Event), subscribers : SUBSET Viewers]

\* ts: the stream looked up; sent: the events the run has emitted so far.
Run == [at : {"new", "requested", "working", "publishing", "ending", "ended"},
        ts : Runs \cup {None}, sent : Nat]

\* ts: the stream of the connection; shown: the events the page shows;
\* chan and open: the channel of the connection.
Viewer == [at : {"off", "subscribing", "streaming", "lost", "told_done"},
           ts : Runs \cup {None}, shown : Seq(Event), chan : Seq(Event), open : BOOLEAN,
           connects : Nat]

TypeOK ==
    /\ current \in Runs \cup {None}
    /\ stream \in [Runs -> Stream]
    /\ run \in [Runs -> Run]
    /\ viewer \in [Viewers -> Viewer]
    /\ sweeps \subseteq Runs
    /\ \A s \in Runs : Len(stream[s].history) <= MaxHistory
    /\ \A v \in Viewers : Len(viewer[v].chan) <= Buffer

Init ==
    /\ current = None
    /\ stream = [s \in Runs |-> [done |-> TRUE, history |-> <<>>, subscribers |-> {}]]
    /\ run = [r \in Runs |-> [at |-> "new", ts |-> None, sent |-> 0]]
    /\ viewer = [v \in Viewers |->
                    [at |-> "off", ts |-> None, shown |-> <<>>, chan |-> <<>>, open |-> FALSE,
                     connects |-> 0]]
    /\ sweeps = {}
-----------------------------------------------------------------------------
(* Variants with one slip in each, used by nothing.                        *)

EndedStillSubscribed(st) == [st EXCEPT !.done = TRUE]
SweepWhatever(s) == TRUE
JoinedWithoutHistory(old, history) == old
KeepsChannelsOpen(vs) == viewer
NeverSwept(s) == sweeps
-----------------------------------------------------------------------------
(* Closing a stream, in StartStream and EndStream.                         *)

Ended(st) == [st EXCEPT !.done = TRUE, !.subscribers = {}]

ChannelsClosed(vs) == [v \in Viewers |-> IF v \in vs THEN [viewer[v] EXCEPT !.open = FALSE]
                                                      ELSE viewer[v]]
-----------------------------------------------------------------------------
(* A run: Start asks for it, the workflow calls RunDiscoveryAssessment     *)
(* some time later, which emits events between StartStream and the         *)
(* deferred EndStream.                                                     *)

Request(r) ==
    /\ run[r].at = "new"
    /\ run' = [run EXCEPT ![r].at = "requested"]
    /\ UNCHANGED <<current, stream, viewer, sweeps>>

FreshStream == [done |-> FALSE, history |-> <<>>, subscribers |-> {}]

StartStream(r) ==
    /\ run[r].at = "requested"
    /\ run' = [run EXCEPT ![r].at = "working"]
    /\ current' = r
    /\ IF current = None
       THEN /\ stream' = [stream EXCEPT ![r] = FreshStream]
            /\ UNCHANGED viewer
       ELSE /\ stream' = [stream EXCEPT ![current] = Ended(@), ![r] = FreshStream]
            /\ viewer' = ChannelsClosed(stream[current].subscribers)
    /\ UNCHANGED sweeps

\* Publish, first lock; without a stream the event is lost.
LookupToPublish(r) ==
    /\ run[r].at = "working"
    /\ run[r].sent < MaxEvents
    /\ run' = IF current = None
              THEN [run EXCEPT ![r].sent = @ + 1]
              ELSE [run EXCEPT ![r].sent = @ + 1, ![r].ts = current, ![r].at = "publishing"]
    /\ UNCHANGED <<current, stream, viewer, sweeps>>

Recorded(st, e) == IF Len(st.history) < MaxHistory THEN [st EXCEPT !.history = Append(@, e)] ELSE st

\* A full channel drops the event.
Offered(v, e) ==
    IF Len(viewer[v].chan) < Buffer THEN [viewer[v] EXCEPT !.chan = Append(@, e)] ELSE viewer[v]

\* Publish, second lock.
Publish(r) ==
    LET s == run[r].ts
        e == [by |-> r, n |-> run[r].sent]
    IN  /\ run[r].at = "publishing"
        /\ run' = [run EXCEPT ![r].at = "working", ![r].ts = None]
        /\ IF stream[s].done
           THEN UNCHANGED <<stream, viewer>>
           ELSE /\ stream' = [stream EXCEPT ![s] = Recorded(@, e)]
                /\ viewer' = [v \in Viewers |-> IF v \in stream[s].subscribers THEN Offered(v, e)
                                                                                ELSE viewer[v]]
        /\ UNCHANGED <<current, sweeps>>

\* EndStream, first lock: it ends the tenant's stream, whoever started it.
LookupToEnd(r) ==
    /\ run[r].at = "working"
    /\ run' = IF current = None
              THEN [run EXCEPT ![r].at = "ended"]
              ELSE [run EXCEPT ![r].at = "ending", ![r].ts = current]
    /\ UNCHANGED <<current, stream, viewer, sweeps>>

Scheduled(s) == sweeps \cup {s}

EndStream(r) ==
    LET s == run[r].ts
    IN  /\ run[r].at = "ending"
        /\ run' = [run EXCEPT ![r].at = "ended", ![r].ts = None]
        /\ stream' = [stream EXCEPT ![s] = Ended(@)]
        /\ viewer' = ChannelsClosed(stream[s].subscribers)
        /\ sweeps' = Scheduled(s)
        /\ UNCHANGED current

StillCurrent(s) == current = s

\* The goroutine EndStream leaves behind, after its grace period.
Sweep(s) ==
    /\ s \in sweeps
    /\ sweeps' = sweeps \ {s}
    /\ current' = IF StillCurrent(s) THEN None ELSE current
    /\ UNCHANGED <<stream, run, viewer>>
-----------------------------------------------------------------------------
(* A viewer: the page connects, the handler subscribes, sends the history  *)
(* and then what arrives on the channel.                                   *)

\* Subscribe, first lock.  Without a stream the handler gets a closed channel.
Connect(v) ==
    /\ viewer[v].at \in {"off", "lost"}
    /\ viewer[v].connects < MaxConnects
    /\ \E r \in Runs : run[r].at # "new"
    /\ viewer' = [viewer EXCEPT ![v].at = IF current = None THEN "streaming" ELSE "subscribing",
                                ![v].ts = current,
                                ![v].connects = @ + 1]
    /\ UNCHANGED <<current, stream, run, sweeps>>

\* The catch-up replaces what the page shows; an empty history sends none.
Joined(old, history) == IF history = <<>> THEN old ELSE history

Closed(s) == stream[s].done

\* Subscribe, second lock.
Subscribe(v) ==
    LET s == viewer[v].ts
    IN  /\ viewer[v].at = "subscribing"
        /\ viewer' = [viewer EXCEPT ![v].at = "streaming",
                                    ![v].open = ~Closed(s),
                                    ![v].shown = Joined(@, stream[s].history)]
        /\ stream' = IF Closed(s) THEN stream
                     ELSE [stream EXCEPT ![s].subscribers = @ \cup {v}]
        /\ UNCHANGED <<current, run, sweeps>>

Receive(v) ==
    /\ viewer[v].at = "streaming"
    /\ viewer[v].chan # <<>>
    /\ viewer' = [viewer EXCEPT ![v].shown = Append(@, Head(viewer[v].chan)), ![v].chan = Tail(@)]
    /\ UNCHANGED <<current, stream, run, sweeps>>

Unsubscribed(v) == [s \in Runs |-> IF s = viewer[v].ts
                                   THEN [stream[s] EXCEPT !.subscribers = @ \ {v}]
                                   ELSE stream[s]]

\* A closed channel that is empty: "done", the page closes its connection.
TellDone(v) ==
    /\ viewer[v].at = "streaming"
    /\ ~viewer[v].open
    /\ viewer[v].chan = <<>>
    /\ viewer' = [viewer EXCEPT ![v].at = "told_done"]
    /\ stream' = Unsubscribed(v)
    /\ UNCHANGED <<current, run, sweeps>>

\* The connection breaks; the page keeps what it shows and will connect again.
Lose(v) ==
    /\ viewer[v].at = "streaming"
    /\ viewer' = [viewer EXCEPT ![v].at = "lost", ![v].chan = <<>>, ![v].open = FALSE,
                                ![v].ts = None]
    /\ stream' = Unsubscribed(v)
    /\ UNCHANGED <<current, run, sweeps>>

\* The page is paused or left: the hook forgets everything.
TurnOff(v) ==
    /\ viewer[v].at \in {"streaming", "lost", "told_done"}
    /\ viewer' = [viewer EXCEPT ![v].at = "off", ![v].chan = <<>>, ![v].open = FALSE,
                                ![v].ts = None, ![v].shown = <<>>]
    /\ stream' = Unsubscribed(v)
    /\ UNCHANGED <<current, run, sweeps>>
-----------------------------------------------------------------------------
RunStep(r) ==
    \/ StartStream(r) \/ LookupToPublish(r) \/ Publish(r) \/ LookupToEnd(r) \/ EndStream(r)

HandlerStep(v) == Subscribe(v) \/ Receive(v) \/ TellDone(v)

Next ==
    \/ \E r \in Runs : Request(r) \/ RunStep(r) \/ Sweep(r)
    \/ \E v \in Viewers : Connect(v) \/ HandlerStep(v) \/ Lose(v) \/ TurnOff(v)

Spec == Init /\ [][Next]_vars

\* A run comes to its end (its phases are bounded and EndStream is deferred),
\* a handler serves its connection and a sleeping goroutine wakes up.  Nobody
\* has to ask for a run or to watch.
Fairness ==
    /\ \A r \in Runs : WF_vars(RunStep(r)) /\ WF_vars(Sweep(r))
    /\ \A v \in Viewers : WF_vars(HandlerStep(v))
-----------------------------------------------------------------------------
(* Properties of any overlap of runs, viewers and clean-ups.               *)

\* A channel registered with a stream is open and belongs to a connection that
\* is being served: no event is sent on a closed channel and none is closed
\* twice, either of which would panic (Publish, StartStream, EndStream, unsub).
SubscribersOpen ==
    \A s \in Runs : \A v \in stream[s].subscribers :
        viewer[v].at = "streaming" /\ viewer[v].ts = s /\ viewer[v].open

\* Whoever is subscribed is subscribed to the stream the hub still knows, so a
\* later EndStream or StartStream will find and close the channel.
NoOrphans == \A s \in Runs : stream[s].subscribers # {} => current = s

\* A page shows the events of each run in the order they were published and
\* none twice, however often it reconnects.
ShownInOrder ==
    \A v \in Viewers :
        LET all == viewer[v].shown \o viewer[v].chan
        IN  \A i, j \in DOMAIN all :
               (i < j /\ all[i].by = all[j].by) => all[i].n < all[j].n

\* As long as a stream has had no more events than a channel holds and its
\* history is not full, a viewer that joined it at whatever moment has, shown
\* or in its channel, every event from the first to the last.
NothingLost ==
    \A v \in Viewers :
        LET s == viewer[v].ts
        IN  (/\ viewer[v].at \in {"streaming", "told_done"}
             /\ s # None
             /\ Len(stream[s].history) < MaxHistory
             /\ Len(stream[s].history) <= Buffer)
            => IsSuffix(stream[s].history, viewer[v].shown \o viewer[v].chan)

\* No event is sent on a closed channel, none is closed twice, histories and
\* channels keep within their capacities, and whoever ends the tenant's stream
\* closes every channel there is (Publish, Subscribe, StartStream, EndStream).
ChannelsSound == TypeOK /\ SubscribersOpen /\ NoOrphans

\* A page shows a run's events once, in order, and, while nothing had to be
\* dropped, without a gap (Subscribe's replay, sseReducer).
ShownFaithfully == ShownInOrder /\ NothingLost

\* A connection that is served ends: it is told so, breaks or is turned off.
EveryViewerReleased ==
    \A v \in Viewers : (viewer[v].at = "streaming") ~> (viewer[v].at # "streaming")

\* A stream does not stay in the hub's map for ever.
StreamsForgotten ==
    \A s \in Runs : (current = s) ~> (current # s)

(***************************************************************************)
(* Properties of runs that do not overlap, see MCAssessmentHub.            *)
(***************************************************************************)

\* From StartStream to its own EndStream a run publishes into its own stream,
\* and neither the clean-up of an earlier stream nor anything else ends it.
RunKeepsStream ==
    \A r \in Runs :
        run[r].at \in {"working", "publishing", "ending"} =>
            /\ current = r
            /\ ~stream[r].done
            /\ run[r].at # "working" => run[r].ts = r
=============================================================================
