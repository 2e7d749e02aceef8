------------------------ MODULE AssessmentHub_proofs ------------------------
(***************************************************************************)
(* Proofs about AssessmentHub, for any number of runs and viewers, whether *)
(* runs overlap or not, and for any capacities.  The strengthening says    *)
(* that a stream that is not done is the one in the hub's map and that a   *)
(* stream that is done has no subscribers: the two are what the separate   *)
(* locks of the hub and of its streams have to keep together.              *)
(***************************************************************************)
EXTENDS MCAssessmentHub, SequenceTheorems, TLAPS

Started(s) == run[s].at \notin {"new", "requested"}

DoneIsEmpty == \A s \in Runs : stream[s].done => stream[s].subscribers = {}

LiveIsCurrent == \A s \in Runs : ~stream[s].done => current = s

Lookups ==
    /\ \A r \in Runs : run[r].at \in {"publishing", "ending"} =>
          run[r].ts \in Runs /\ Started(run[r].ts)
    /\ \A r \in Runs : run[r].at = "publishing" => run[r].sent # 0
    /\ \A v \in Viewers : viewer[v].at = "subscribing" => viewer[v].ts \in Runs

OnlyStarted ==
    /\ current # None => Started(current)
    /\ \A s \in sweeps : Started(s) /\ stream[s].done

Locked == SubscribersOpen /\ DoneIsEmpty /\ LiveIsCurrent /\ Lookups /\ OnlyStarted

IInv == TypeOK /\ Locked

LEMMA InitIInv == Init => IInv
BY BoundsAssumption
   DEF Init, IInv, Locked, TypeOK, Stream, Run, Viewer, SubscribersOpen, DoneIsEmpty, LiveIsCurrent,
       Lookups, OnlyStarted, Started

\* Ending a stream empties it and closes the channels that were in it, and
\* nobody else has any.
LEMMA EndingKeeps ==
    ASSUME IInv, NEW s \in Runs,
           stream' = [stream EXCEPT ![s] = Ended(@)],
           viewer' = ChannelsClosed(stream[s].subscribers)
    PROVE  /\ stream' \in [Runs -> Stream] /\ viewer' \in [Viewers -> Viewer]
           /\ \A q \in Runs : Len(stream'[q].history) <= MaxHistory
           /\ \A v \in Viewers : Len(viewer'[v].chan) <= Buffer
           /\ SubscribersOpen'
           /\ stream'[s].done /\ stream'[s].subscribers = {}
           /\ \A q \in Runs \ {s} : stream'[q] = stream[q]
           /\ \A v \in Viewers : viewer'[v].at = viewer[v].at /\ viewer'[v].ts = viewer[v].ts
<1>0. stream \in [Runs -> Stream] /\ viewer \in [Viewers -> Viewer]
  BY DEF IInv, TypeOK
<1>1. /\ stream' \in [Runs -> Stream]
      /\ stream'[s].done /\ stream'[s].subscribers = {} /\ stream'[s].history = stream[s].history
      /\ \A q \in Runs \ {s} : stream'[q] = stream[q]
  BY <1>0 DEF Ended, Stream
<1>2. \A v \in Viewers : /\ viewer'[v] \in Viewer
                         /\ viewer'[v].at = viewer[v].at /\ viewer'[v].ts = viewer[v].ts
                         /\ viewer'[v].chan = viewer[v].chan
                         /\ v \notin stream[s].subscribers => viewer'[v] = viewer[v]
  BY <1>0 DEF ChannelsClosed, Viewer
<1>3. viewer' \in [Viewers -> Viewer]
  BY <1>2 DEF ChannelsClosed
<1>4. SubscribersOpen'
  <2>. SUFFICES ASSUME NEW q \in Runs, NEW v \in stream'[q].subscribers
                PROVE  viewer'[v].at = "streaming" /\ viewer'[v].ts = q /\ viewer'[v].open
    BY DEF SubscribersOpen
  <2>1. q # s /\ v \in stream[q].subscribers /\ v \in Viewers
    BY <1>0, <1>1 DEF Stream
  <2>2. v \notin stream[s].subscribers
    BY <2>1 DEF IInv, Locked, SubscribersOpen
  <2>. QED  BY <1>2, <2>1, <2>2 DEF IInv, Locked, SubscribersOpen
<1>. QED  BY <1>1, <1>2, <1>3, <1>4 DEF IInv, TypeOK

\* What publishing does to the history of a stream and to a channel.
LEMMA RecordedKeeps ==
    ASSUME NEW st \in Stream, NEW e \in Event, Len(st.history) <= MaxHistory
    PROVE  /\ Recorded(st, e) \in Stream
           /\ Recorded(st, e).done = st.done
           /\ Recorded(st, e).subscribers = st.subscribers
           /\ Len(Recorded(st, e).history) <= MaxHistory
<1>. DEFINE h == Append(st.history, e)
<1>1. st.history \in Seq(Event) /\ MaxHistory \in Nat
  BY BoundsAssumption DEF Stream
<1>2. h \in Seq(Event) /\ Len(h) = Len(st.history) + 1 /\ Len(st.history) \in Nat
  BY <1>1
<1>3. CASE Len(st.history) < MaxHistory
  <2>1. Recorded(st, e) = [st EXCEPT !.history = h]
    BY <1>3 DEF Recorded
  <2>. HIDE DEF h
  <2>2. [st EXCEPT !.history = h] \in Stream
    BY <1>2 DEF Stream
  <2>3. /\ [st EXCEPT !.history = h].done = st.done
        /\ [st EXCEPT !.history = h].subscribers = st.subscribers
        /\ [st EXCEPT !.history = h].history = h
    BY DEF Stream
  <2>. QED  BY <1>1, <1>2, <1>3, <2>1, <2>2, <2>3
<1>4. CASE ~(Len(st.history) < MaxHistory)
  BY <1>4 DEF Recorded
<1>. QED  BY <1>3, <1>4

LEMMA OfferedKeeps ==
    ASSUME NEW v \in Viewers, viewer[v] \in Viewer, NEW e \in Event,
           Len(viewer[v].chan) <= Buffer
    PROVE  /\ Offered(v, e) \in Viewer
           /\ Offered(v, e).at = viewer[v].at /\ Offered(v, e).ts = viewer[v].ts
           /\ Offered(v, e).open = viewer[v].open
           /\ Len(Offered(v, e).chan) <= Buffer
<1>. DEFINE c == Append(viewer[v].chan, e)
<1>1. viewer[v].chan \in Seq(Event) /\ Buffer \in Nat
  BY BoundsAssumption DEF Viewer
<1>2. c \in Seq(Event) /\ Len(c) = Len(viewer[v].chan) + 1 /\ Len(viewer[v].chan) \in Nat
  BY <1>1
<1>3. CASE Len(viewer[v].chan) < Buffer
  <2>1. Offered(v, e) = [viewer[v] EXCEPT !.chan = c]
    BY <1>3 DEF Offered
  <2>. HIDE DEF c
  <2>2. [viewer[v] EXCEPT !.chan = c] \in Viewer
    BY <1>2 DEF Viewer
  <2>3. /\ [viewer[v] EXCEPT !.chan = c].at = viewer[v].at
        /\ [viewer[v] EXCEPT !.chan = c].ts = viewer[v].ts
        /\ [viewer[v] EXCEPT !.chan = c].open = viewer[v].open
        /\ [viewer[v] EXCEPT !.chan = c].chan = c
    BY DEF Viewer
  <2>. QED  BY <1>1, <1>2, <1>3, <2>1, <2>2, <2>3
<1>4. CASE ~(Len(viewer[v].chan) < Buffer)
  BY <1>4 DEF Offered
<1>. QED  BY <1>3, <1>4

\* A handler that is done with its channel takes it out of the stream.
LEMMA LeavingKeeps ==
    ASSUME IInv, NEW v \in Viewers, NEW w \in Viewer,
           viewer' = [viewer EXCEPT ![v] = w], Len(w.chan) <= Buffer,
           w.at = "subscribing" => w.ts \in Runs,
           stream' = Unsubscribed(v), UNCHANGED <<current, run, sweeps>>
    PROVE  IInv'
<1>0. /\ stream \in [Runs -> Stream] /\ viewer \in [Viewers -> Viewer]
  BY DEF IInv, TypeOK
<1>1. \A s \in Runs : /\ stream'[s] \in Stream
                      /\ stream'[s].done = stream[s].done
                      /\ stream'[s].history = stream[s].history
                      /\ stream'[s].subscribers \subseteq stream[s].subscribers
                      /\ s = viewer[v].ts => v \notin stream'[s].subscribers
  BY <1>0 DEF Unsubscribed, Stream
<1>2. stream' \in [Runs -> Stream]
  BY <1>1 DEF Unsubscribed
<1>3. TypeOK'
  BY <1>0, <1>1, <1>2 DEF IInv, TypeOK
<1>4. \A s \in Runs : v \notin stream'[s].subscribers
  BY <1>1 DEF IInv, Locked, SubscribersOpen
<1>5. SubscribersOpen'
  BY <1>0, <1>1, <1>2, <1>4 DEF IInv, Locked, SubscribersOpen, Stream
<1>6. DoneIsEmpty' /\ LiveIsCurrent' /\ OnlyStarted'
  BY <1>0, <1>1 DEF IInv, TypeOK, Locked, DoneIsEmpty, LiveIsCurrent, OnlyStarted, Started
<1>7. Lookups'
  BY <1>0 DEF IInv, Locked, Lookups, Started
<1>. QED  BY <1>3, <1>5, <1>6, <1>7 DEF IInv, Locked

LEMMA NextIInv == IInv /\ [Next]_vars => IInv'
<1>. SUFFICES ASSUME IInv, [Next]_vars PROVE IInv'
  OBVIOUS
<1>0. /\ TypeOK /\ stream \in [Runs -> Stream] /\ viewer \in [Viewers -> Viewer]
      /\ run \in [Runs -> Run] /\ current \in Runs \cup {None} /\ None \notin Runs
  BY NoneAssumption DEF IInv, TypeOK
<1>1. ASSUME NEW r \in Runs, Request(r)
      PROVE  IInv'
  <2>1. /\ UNCHANGED <<current, stream, viewer, sweeps>>
        /\ run' = [run EXCEPT ![r].at = "requested"] /\ run[r].at = "new"
    BY <1>1 DEF Request
  <2>2. run' \in [Runs -> Run]
    BY <1>0, <2>1 DEF Run
  <2>3. TypeOK'
    BY <1>0, <2>1, <2>2 DEF TypeOK
  <2>4. /\ run'[r].at = "requested"
        /\ \A q \in Runs : q # r => run'[q] = run[q]
    BY <1>0, <2>1 DEF Run
  <2>5. SubscribersOpen' /\ DoneIsEmpty' /\ LiveIsCurrent'
    BY <2>1 DEF IInv, Locked, SubscribersOpen, DoneIsEmpty, LiveIsCurrent
  <2>6. Lookups'
    BY <1>0, <2>1, <2>4 DEF IInv, Locked, Lookups, Started
  <2>7. OnlyStarted'
    BY <1>0, <2>1, <2>4 DEF IInv, TypeOK, Locked, OnlyStarted, Started
  <2>. QED  BY <2>3, <2>5, <2>6, <2>7 DEF IInv, Locked
<1>2. ASSUME NEW r \in Runs, StartStream(r)
      PROVE  IInv'
  <2>1. /\ run[r].at = "requested" /\ current' = r /\ sweeps' = sweeps
        /\ run' = [run EXCEPT ![r].at = "working"]
    BY <1>2 DEF StartStream
  <2>2. /\ run' \in [Runs -> Run]
        /\ run'[r].at = "working"
        /\ \A q \in Runs : q # r => run'[q] = run[q]
    BY <1>0, <2>1 DEF Run
  <2>3. current # r /\ r \notin sweeps /\ stream[r].done /\ stream[r].subscribers = {}
    BY <1>0, <2>1 DEF IInv, Locked, OnlyStarted, Started, LiveIsCurrent, DoneIsEmpty
  \* The table of streams before the new one is put in it.
  <2>. DEFINE closed == IF current = None THEN stream ELSE [stream EXCEPT ![current] = Ended(@)]
              told   == IF current = None THEN viewer
                                          ELSE ChannelsClosed(stream[current].subscribers)
  <2>4. stream' = [closed EXCEPT ![r] = FreshStream] /\ viewer' = told
    BY <1>0, <1>2, <2>3 DEF StartStream
  <2>5. /\ closed \in [Runs -> Stream] /\ told \in [Viewers -> Viewer]
        /\ \A q \in Runs : Len(closed[q].history) <= MaxHistory
        /\ \A v \in Viewers : Len(told[v].chan) <= Buffer
        /\ \A q \in Runs : \A v \in closed[q].subscribers :
              told[v].at = "streaming" /\ told[v].ts = q /\ told[v].open
        /\ \A q \in Runs : closed[q].done /\ closed[q].subscribers = {}
        /\ \A v \in Viewers : told[v].at = viewer[v].at /\ told[v].ts = viewer[v].ts
    <3>1. CASE current = None
      BY <1>0, <3>1 DEF IInv, TypeOK, Locked, SubscribersOpen, LiveIsCurrent, DoneIsEmpty
    <3>2. CASE current # None
      <4>1. current \in Runs
        BY <1>0, <3>2
      <4>2. /\ closed = [stream EXCEPT ![current] = Ended(stream[current])]
            /\ told = ChannelsClosed(stream[current].subscribers)
        BY <3>2
      <4>3. /\ closed[current].done /\ closed[current].subscribers = {}
            /\ \A q \in Runs : closed[q] \in Stream /\ closed[q].history = stream[q].history
            /\ \A q \in Runs \ {current} : closed[q] = stream[q]
            /\ closed \in [Runs -> Stream]
        BY <1>0, <4>1, <4>2 DEF Ended, Stream
      <4>4. \A v \in Viewers : /\ told[v] \in Viewer
                               /\ told[v].at = viewer[v].at /\ told[v].ts = viewer[v].ts
                               /\ told[v].chan = viewer[v].chan
        BY <1>0, <4>2, ZenonT(60) DEF ChannelsClosed, Viewer
      <4>5. told \in [Viewers -> Viewer]
        BY <4>2, <4>4 DEF ChannelsClosed
      <4>6. \A q \in Runs : closed[q].done /\ closed[q].subscribers = {}
        BY <4>1, <4>3 DEF IInv, Locked, LiveIsCurrent, DoneIsEmpty
      <4>. QED  BY <4>3, <4>4, <4>5, <4>6 DEF IInv, TypeOK
    <3>. QED  BY <3>1, <3>2
  <2>. HIDE DEF closed, told
  <2>6. /\ stream' \in [Runs -> Stream] /\ ~stream'[r].done /\ stream'[r].history = <<>>
        /\ stream'[r].subscribers = {}
        /\ \A q \in Runs : q # r => stream'[q] = closed[q]
    BY <2>4, <2>5 DEF FreshStream, Stream
  <2>7. TypeOK'
    BY <1>0, <2>1, <2>2, <2>4, <2>5, <2>6, BoundsAssumption DEF TypeOK
  <2>8. SubscribersOpen' /\ DoneIsEmpty' /\ LiveIsCurrent'
    BY <2>1, <2>5, <2>6 DEF SubscribersOpen, DoneIsEmpty, LiveIsCurrent
  <2>9. Lookups'
    BY <1>0, <2>1, <2>2, <2>3, <2>4, <2>5, <2>6 DEF IInv, Locked, Lookups, Started
  <2>10. OnlyStarted'
    BY <1>0, <2>1, <2>2, <2>3, <2>4, <2>5, <2>6 DEF IInv, TypeOK, Locked, OnlyStarted, Started
  <2>. QED  BY <2>7, <2>8, <2>9, <2>10 DEF IInv, Locked
<1>3. ASSUME NEW r \in Runs, LookupToPublish(r) \/ LookupToEnd(r)
      PROVE  IInv'
  <2>1. UNCHANGED <<current, stream, viewer, sweeps>> /\ run[r].at = "working"
    BY <1>3 DEF LookupToPublish, LookupToEnd
  <2>2. /\ run' \in [Runs -> Run]
        /\ run'[r].at \in {"working", "publishing", "ending", "ended"}
        /\ run'[r].at \in {"publishing", "ending"} => run'[r].ts = current /\ current \in Runs
        /\ run'[r].at = "publishing" => run'[r].sent # 0
        /\ \A q \in Runs : q # r => run'[q] = run[q]
    <3>1. CASE LookupToPublish(r)
      BY <1>0, <3>1 DEF LookupToPublish, Run
    <3>2. CASE LookupToEnd(r)
      BY <1>0, <3>2 DEF LookupToEnd, Run
    <3>. QED  BY <1>3, <3>1, <3>2
  <2>3. TypeOK'
    BY <1>0, <2>1, <2>2 DEF TypeOK
  <2>4. SubscribersOpen' /\ DoneIsEmpty' /\ LiveIsCurrent'
    BY <2>1 DEF IInv, Locked, SubscribersOpen, DoneIsEmpty, LiveIsCurrent
  <2>5. \A s \in Runs : Started(s) => Started(s)'
    BY <1>0, <2>1, <2>2 DEF Started
  <2>6. current # None => Started(current) /\ current \in Runs
    BY <1>0 DEF IInv, Locked, OnlyStarted
  <2>7. OnlyStarted'
    <3>1. current # None => run'[current].at \notin {"new", "requested"}
      BY <2>5, <2>6 DEF Started
    <3>2. \A s \in sweeps : s \in Runs /\ Started(s) /\ stream[s].done
      BY DEF IInv, Locked, OnlyStarted, TypeOK
    <3>3. \A s \in sweeps : Started(s)' /\ stream[s].done
      BY <2>5, <3>2
    <3>. QED  BY <2>1, <3>1, <3>3 DEF OnlyStarted, Started
  <2>8. Lookups'
    <3>1. ASSUME NEW q \in Runs, run'[q].at \in {"publishing", "ending"}
          PROVE  run'[q].ts \in Runs /\ run'[run'[q].ts].at \notin {"new", "requested"}
      <4>1. CASE q = r
        <5>1. run'[q].ts = current /\ current \in Runs /\ current # None
          BY <1>0, <2>2, <3>1, <4>1
        <5>2. run'[current].at \notin {"new", "requested"}
          BY <2>5, <2>6, <5>1 DEF Started
        <5>. QED  BY <5>1, <5>2
      <4>2. CASE q # r
        <5>1. run'[q] = run[q]
          BY <2>2, <4>2
        <5>2. run[q].ts \in Runs /\ Started(run[q].ts)
          BY <3>1, <5>1 DEF IInv, Locked, Lookups
        <5>3. run'[run[q].ts].at \notin {"new", "requested"}
          BY <2>5, <5>2 DEF Started
        <5>. QED  BY <5>1, <5>2, <5>3
      <4>. QED  BY <4>1, <4>2
    <3>2. \A q \in Runs : run'[q].at = "publishing" => run'[q].sent # 0
      BY <2>2 DEF IInv, Locked, Lookups
    <3>3. \A v \in Viewers : viewer'[v].at = "subscribing" => viewer'[v].ts \in Runs
      BY <2>1 DEF IInv, Locked, Lookups
    <3>. QED  BY <3>1, <3>2, <3>3 DEF Lookups, Started
  <2>. QED  BY <2>3, <2>4, <2>7, <2>8 DEF IInv, Locked
<1>4. ASSUME NEW r \in Runs, Publish(r)
      PROVE  IInv'
  <2>. DEFINE s == run[r].ts
              e == [by |-> r, n |-> run[r].sent]
  <2>1. /\ run[r].at = "publishing" /\ s \in Runs
        /\ run' = [run EXCEPT ![r].at = "working", ![r].ts = None]
        /\ UNCHANGED <<current, sweeps>>
    BY <1>4 DEF Publish, IInv, Locked, Lookups
  <2>2. /\ run' \in [Runs -> Run] /\ run'[r].at = "working"
        /\ \A q \in Runs : q # r => run'[q] = run[q]
    BY <1>0, <2>1 DEF Run
  <2>3. /\ stream' \in [Runs -> Stream] /\ viewer' \in [Viewers -> Viewer]
        /\ \A q \in Runs : /\ stream'[q].done = stream[q].done
                          /\ stream'[q].subscribers = stream[q].subscribers
                          /\ Len(stream'[q].history) <= MaxHistory
        /\ \A v \in Viewers : /\ viewer'[v].at = viewer[v].at /\ viewer'[v].ts = viewer[v].ts
                              /\ viewer'[v].open = viewer[v].open
                              /\ Len(viewer'[v].chan) <= Buffer
    <3>1. CASE stream[s].done
      BY <1>0, <1>4, <3>1 DEF Publish, TypeOK
    <3>2. CASE ~stream[s].done
      <4>1. /\ stream' = [stream EXCEPT ![s] = Recorded(stream[s], e)]
            /\ viewer' = [v \in Viewers |-> IF v \in stream[s].subscribers THEN Offered(v, e)
                                                                          ELSE viewer[v]]
        BY <1>4, <3>2 DEF Publish
      <4>2. e \in Event
        BY <1>0, <2>1 DEF Event, Run, IInv, Locked, Lookups
      <4>3. /\ Recorded(stream[s], e) \in Stream
            /\ Recorded(stream[s], e).done = stream[s].done
            /\ Recorded(stream[s], e).subscribers = stream[s].subscribers
            /\ Len(Recorded(stream[s], e).history) <= MaxHistory
        BY <1>0, <2>1, <4>2, RecordedKeeps DEF TypeOK
      <4>4. ASSUME NEW v \in Viewers
            PROVE  /\ Offered(v, e) \in Viewer
                   /\ Offered(v, e).at = viewer[v].at /\ Offered(v, e).ts = viewer[v].ts
                   /\ Offered(v, e).open = viewer[v].open
                   /\ Len(Offered(v, e).chan) <= Buffer
        BY <1>0, <4>2, OfferedKeeps DEF TypeOK
      <4>5. /\ stream' \in [Runs -> Stream]
            /\ \A q \in Runs : q # s => stream'[q] = stream[q]
            /\ stream'[s] = Recorded(stream[s], e)
        BY <1>0, <2>1, <4>1, <4>3
      <4>6. /\ viewer' \in [Viewers -> Viewer]
            /\ \A v \in Viewers : viewer'[v] = Offered(v, e) \/ viewer'[v] = viewer[v]
        BY <1>0, <4>1, <4>4
      <4>. QED  BY <1>0, <4>3, <4>4, <4>5, <4>6 DEF TypeOK
    <3>. QED  BY <3>1, <3>2
  <2>4. TypeOK'
    BY <1>0, <2>1, <2>2, <2>3 DEF TypeOK
  <2>5. SubscribersOpen'
    <3>. SUFFICES ASSUME NEW q \in Runs, NEW v \in stream'[q].subscribers
                  PROVE  viewer'[v].at = "streaming" /\ viewer'[v].ts = q /\ viewer'[v].open
      BY DEF SubscribersOpen
    <3>1. v \in stream[q].subscribers /\ v \in Viewers
      BY <1>0, <2>3 DEF Stream
    <3>. QED  BY <2>3, <3>1 DEF IInv, Locked, SubscribersOpen
  <2>7. DoneIsEmpty' /\ LiveIsCurrent'
    BY <2>1, <2>3 DEF IInv, Locked, DoneIsEmpty, LiveIsCurrent
  <2>6. Lookups'
    BY <1>0, <2>1, <2>2, <2>3 DEF IInv, Locked, Lookups, Started
  <2>8. OnlyStarted'
    BY <1>0, <2>1, <2>2, <2>3 DEF IInv, TypeOK, Locked, OnlyStarted, Started
  <2>. QED  BY <2>4, <2>5, <2>6, <2>7, <2>8 DEF IInv, Locked
<1>5. ASSUME NEW r \in Runs, EndStream(r)
      PROVE  IInv'
  <2>. DEFINE s == run[r].ts
  <2>1. /\ run[r].at = "ending" /\ s \in Runs /\ current' = current
        /\ run' = [run EXCEPT ![r].at = "ended", ![r].ts = None]
        /\ stream' = [stream EXCEPT ![s] = Ended(@)]
        /\ viewer' = ChannelsClosed(stream[s].subscribers)
        /\ sweeps' = sweeps \cup {s}
    BY <1>5 DEF EndStream, Scheduled, IInv, Locked, Lookups
  <2>2. /\ run' \in [Runs -> Run] /\ run'[r].at = "ended"
        /\ \A q \in Runs : q # r => run'[q] = run[q]
    BY <1>0, <2>1 DEF Run
  <2>3. /\ stream' \in [Runs -> Stream] /\ viewer' \in [Viewers -> Viewer]
        /\ \A q \in Runs : Len(stream'[q].history) <= MaxHistory
        /\ \A v \in Viewers : Len(viewer'[v].chan) <= Buffer
        /\ SubscribersOpen'
        /\ stream'[s].done /\ stream'[s].subscribers = {}
        /\ \A q \in Runs \ {s} : stream'[q] = stream[q]
        /\ \A v \in Viewers : viewer'[v].at = viewer[v].at /\ viewer'[v].ts = viewer[v].ts
    BY <2>1, EndingKeeps
  <2>4. TypeOK'
    BY <1>0, <2>1, <2>2, <2>3 DEF TypeOK
  <2>5. DoneIsEmpty' /\ LiveIsCurrent'
    BY <2>1, <2>3 DEF IInv, Locked, DoneIsEmpty, LiveIsCurrent
  <2>6. \A q \in Runs : Started(q) => Started(q)'
    BY <2>2 DEF Started
  <2>7. Started(s)
    BY <2>1 DEF IInv, Locked, Lookups
  <2>9. Lookups'
    BY <2>2, <2>3, <2>6 DEF IInv, Locked, Lookups
  <2>8. OnlyStarted'
    <3>1. /\ current # None => Started(current) /\ current \in Runs
          /\ \A q \in sweeps : q \in Runs /\ Started(q) /\ stream[q].done
      BY <1>0 DEF IInv, Locked, OnlyStarted, TypeOK
    <3>2. current' # None => Started(current)'
      BY <2>1, <2>6, <3>1 DEF Started
    <3>3. \A q \in sweeps' : Started(q)'
      BY <2>1, <2>2, <2>3, <2>6, <2>7, <3>1, ZenonT(60)
    <3>4. \A q \in sweeps' : stream'[q].done
      BY <1>0, <2>1, <2>2, <2>3, <3>1
    <3>. QED  BY <3>2, <3>3, <3>4 DEF OnlyStarted, Started
  <2>. QED  BY <2>3, <2>4, <2>5, <2>8, <2>9 DEF IInv, Locked
<1>6. ASSUME NEW s \in Runs, Sweep(s)
      PROVE  IInv'
  <2>1. /\ s \in sweeps /\ sweeps' = sweeps \ {s} /\ UNCHANGED <<stream, run, viewer>>
        /\ current' = IF current = s THEN None ELSE current
    BY <1>6 DEF Sweep, StillCurrent
  <2>2. TypeOK'
    BY <1>0, <2>1 DEF TypeOK
  <2>3. SubscribersOpen' /\ DoneIsEmpty' /\ LiveIsCurrent' /\ Lookups' /\ OnlyStarted'
    BY <1>0, <2>1 DEF IInv, Locked, SubscribersOpen, DoneIsEmpty, LiveIsCurrent, Lookups,
                      OnlyStarted, Started
  <2>. QED  BY <2>2, <2>3 DEF IInv, Locked
\* A viewer's step that registers nothing and whose new state keeps its channel.
<1>v. ASSUME NEW v \in Viewers, NEW w \in Viewer, viewer' = [viewer EXCEPT ![v] = w],
             UNCHANGED <<current, stream, run, sweeps>>, Len(w.chan) <= Buffer,
             w.at = "subscribing" => w.ts \in Runs,
             \/ \A s \in Runs : v \notin stream[s].subscribers
             \/ w.at = viewer[v].at /\ w.ts = viewer[v].ts /\ w.open = viewer[v].open
      PROVE  IInv'
  <2>1. TypeOK'
    BY <1>0, <1>v DEF TypeOK
  <2>2. SubscribersOpen'
    BY <1>0, <1>v DEF IInv, Locked, SubscribersOpen, Stream
  <2>3. DoneIsEmpty' /\ LiveIsCurrent' /\ OnlyStarted' /\ Lookups'
    BY <1>0, <1>v DEF IInv, Locked, DoneIsEmpty, LiveIsCurrent, OnlyStarted, Started, Lookups
  <2>. QED  BY <2>1, <2>2, <2>3 DEF IInv, Locked
<1>7. ASSUME NEW v \in Viewers, Connect(v)
      PROVE  IInv'
  <2>. DEFINE w == [viewer[v] EXCEPT !.at = IF current = None THEN "streaming" ELSE "subscribing",
                                     !.ts = current, !.connects = @ + 1]
  <2>1. /\ viewer[v].at \in {"off", "lost"} /\ UNCHANGED <<current, stream, run, sweeps>>
        /\ viewer' = [viewer EXCEPT ![v] = w]
    BY <1>0, <1>7 DEF Connect, Viewer
  <2>2. w \in Viewer /\ w.chan = viewer[v].chan /\ (w.at = "subscribing" => w.ts \in Runs)
    <3>. DEFINE a == IF current = None THEN "streaming" ELSE "subscribing"
                c == viewer[v].connects + 1
    <3>1. viewer[v] \in Viewer /\ viewer[v].connects \in Nat
      BY <1>0 DEF Viewer
    <3>2. a \in {"streaming", "subscribing"} /\ (a = "subscribing" => current \in Runs) /\ c \in Nat
      BY <1>0, <3>1
    <3>3. w = [viewer[v] EXCEPT !.at = a, !.ts = current, !.connects = c]
      OBVIOUS
    <3>. HIDE DEF a, c, w
    <3>4. w \in Viewer /\ w.chan = viewer[v].chan /\ w.at = a /\ w.ts = current
      BY <1>0, <3>1, <3>2, <3>3 DEF Viewer
    <3>. QED  BY <3>2, <3>4
  <2>3. \A s \in Runs : v \notin stream[s].subscribers
    BY <2>1 DEF IInv, Locked, SubscribersOpen
  <2>. HIDE DEF w
  <2>. QED  BY <1>0, <1>v, <2>1, <2>2, <2>3 DEF TypeOK
<1>8. ASSUME NEW v \in Viewers, Subscribe(v)
      PROVE  IInv'
  <2>. DEFINE s == viewer[v].ts
              w == [viewer[v] EXCEPT !.at = "streaming", !.open = ~Closed(s),
                                     !.shown = Joined(@, stream[s].history)]
  <2>1. /\ viewer[v].at = "subscribing" /\ s \in Runs /\ UNCHANGED <<current, run, sweeps>>
        /\ viewer' = [viewer EXCEPT ![v] = w]
        /\ stream' = IF Closed(s) THEN stream
                     ELSE [stream EXCEPT ![s].subscribers = @ \cup {v}]
    BY <1>0, <1>8 DEF Subscribe, Viewer, IInv, Locked, Lookups
  <2>2. /\ w \in Viewer /\ w.at = "streaming" /\ w.ts = s /\ w.chan = viewer[v].chan
        /\ w.open = ~stream[s].done
    <3>. DEFINE j == Joined(viewer[v].shown, stream[s].history)
                b == ~Closed(s)
    <3>1. viewer[v] \in Viewer /\ b \in BOOLEAN /\ stream[s] \in Stream
      BY <1>0, <2>1
    <3>2. j \in Seq(Event)
      BY <3>1 DEF Viewer, Stream, Joined
    <3>3. w = [viewer[v] EXCEPT !.at = "streaming", !.open = b, !.shown = j]
      OBVIOUS
    <3>. HIDE DEF j, b, w
    <3>4. /\ w \in Viewer /\ w.at = "streaming" /\ w.ts = viewer[v].ts
          /\ w.chan = viewer[v].chan /\ w.open = b
      BY <3>1, <3>2, <3>3 DEF Viewer
    <3>. QED  BY <3>4 DEF b, Closed
  <2>3. \A q \in Runs : v \notin stream[q].subscribers
    BY <2>1 DEF IInv, Locked, SubscribersOpen
  <2>. HIDE DEF w
  <2>4. CASE stream[s].done
    BY <1>0, <1>v, <2>1, <2>2, <2>3, <2>4 DEF TypeOK, Closed
  <2>5. CASE ~stream[s].done
    <3>1. /\ stream' \in [Runs -> Stream]
          /\ stream'[s].subscribers = stream[s].subscribers \cup {v}
          /\ stream'[s].done = stream[s].done /\ stream'[s].history = stream[s].history
          /\ \A q \in Runs : q # s => stream'[q] = stream[q]
      BY <1>0, <2>1, <2>5, ZenonT(60) DEF Closed, Stream
    <3>2. TypeOK'
      BY <1>0, <2>1, <2>2, <3>1 DEF TypeOK
    <3>3. SubscribersOpen'
      <4>. SUFFICES ASSUME NEW q \in Runs, NEW u \in stream'[q].subscribers
                    PROVE  viewer'[u].at = "streaming" /\ viewer'[u].ts = q /\ viewer'[u].open
        BY DEF SubscribersOpen
      <4>1. CASE u = v
        BY <1>0, <2>1, <2>2, <2>3, <2>5, <3>1, <4>1
      <4>2. CASE u # v
        <5>1. u \in stream[q].subscribers
          BY <3>1, <4>2
        <5>2. viewer'[u] = viewer[u]
          BY <1>0, <2>1, <4>2, <5>1 DEF Stream
        <5>. QED  BY <5>1, <5>2 DEF IInv, Locked, SubscribersOpen
      <4>. QED  BY <4>1, <4>2
    <3>4. DoneIsEmpty' /\ LiveIsCurrent' /\ OnlyStarted' /\ Lookups'
      <4>1. DoneIsEmpty'
        BY <1>0, <2>5, <3>1 DEF IInv, Locked, DoneIsEmpty
      <4>2. LiveIsCurrent'
        BY <1>0, <2>1, <2>5, <3>1 DEF IInv, Locked, LiveIsCurrent
      <4>3. OnlyStarted'
        <5>1. sweeps \subseteq Runs
          BY <1>0 DEF IInv, TypeOK
        <5>. QED  BY <1>0, <2>1, <3>1, <5>1 DEF IInv, Locked, OnlyStarted, Started
      <4>4. Lookups'
        BY <1>0, <2>1, <2>2 DEF IInv, TypeOK, Locked, Lookups, Started
      <4>. QED  BY <4>1, <4>2, <4>3, <4>4
    <3>. QED  BY <3>2, <3>3, <3>4 DEF IInv, Locked
  <2>. QED  BY <2>4, <2>5
<1>9. ASSUME NEW v \in Viewers, Receive(v)
      PROVE  IInv'
  <2>. DEFINE w == [viewer[v] EXCEPT !.shown = Append(@, Head(viewer[v].chan)), !.chan = Tail(@)]
  <2>1. /\ viewer[v].at = "streaming" /\ viewer[v].chan # <<>>
        /\ UNCHANGED <<current, stream, run, sweeps>> /\ viewer' = [viewer EXCEPT ![v] = w]
    BY <1>0, <1>9 DEF Receive, Viewer
  <2>2. /\ viewer[v].chan \in Seq(Event) /\ viewer[v].shown \in Seq(Event)
        /\ Len(viewer[v].chan) <= Buffer /\ Buffer \in Nat
    BY <1>0, BoundsAssumption DEF TypeOK, Viewer
  <2>3. /\ Tail(viewer[v].chan) \in Seq(Event) /\ Len(Tail(viewer[v].chan)) <= Buffer
        /\ Append(viewer[v].shown, Head(viewer[v].chan)) \in Seq(Event)
    BY <2>1, <2>2
  <2>4. /\ w \in Viewer /\ w.at = viewer[v].at /\ w.ts = viewer[v].ts /\ w.open = viewer[v].open
        /\ w.chan = Tail(viewer[v].chan)
    BY <1>0, <2>3 DEF Viewer
  <2>. HIDE DEF w
  <2>. QED  BY <1>v, <2>1, <2>3, <2>4
<1>10. ASSUME NEW v \in Viewers, TellDone(v) \/ Lose(v) \/ TurnOff(v)
       PROVE  IInv'
  <2>1. /\ stream' = Unsubscribed(v) /\ UNCHANGED <<current, run, sweeps>>
    BY <1>10 DEF TellDone, Lose, TurnOff
  <2>2. \E w \in Viewer : /\ viewer' = [viewer EXCEPT ![v] = w] /\ Len(w.chan) <= Buffer
                          /\ w.at # "subscribing"
    <3>a. viewer[v] \in Viewer
      BY <1>0
    <3>0. <<>> \in Seq(Event) /\ Len(<<>>) = 0 /\ Buffer \in Nat /\ Len(viewer[v].chan) <= Buffer
      BY <1>0, BoundsAssumption DEF TypeOK
    <3>1. CASE TellDone(v)
      <4>. DEFINE w == [viewer[v] EXCEPT !.at = "told_done"]
      <4>1. viewer' = [viewer EXCEPT ![v] = w]
        BY <1>0, <3>1 DEF TellDone, Viewer
      <4>2. w \in Viewer /\ w.chan = viewer[v].chan /\ w.at = "told_done"
        BY <1>0 DEF Viewer
      <4>. QED  BY <3>0, <4>1, <4>2
    <3>2. CASE Lose(v)
      <4>. DEFINE w == [viewer[v] EXCEPT !.at = "lost", !.chan = <<>>, !.open = FALSE, !.ts = None]
      <4>1. viewer' = [viewer EXCEPT ![v] = w]
        BY <1>0, <3>2 DEF Lose, Viewer
      <4>2. w \in Viewer /\ w.chan = <<>> /\ w.at = "lost"
        BY <1>0, <3>a, <3>0 DEF Viewer
      <4>. HIDE DEF w
      <4>3. Len(w.chan) <= Buffer
        BY <3>0, <4>2
      <4>. QED  BY <4>1, <4>2, <4>3
    <3>3. CASE TurnOff(v)
      <4>. DEFINE w == [viewer[v] EXCEPT !.at = "off", !.chan = <<>>, !.open = FALSE, !.ts = None,
                                         !.shown = <<>>]
      <4>1. viewer' = [viewer EXCEPT ![v] = w]
        BY <1>0, <3>3 DEF TurnOff, Viewer
      <4>2. w \in Viewer /\ w.chan = <<>> /\ w.at = "off"
        BY <1>0, <3>a, <3>0 DEF Viewer
      <4>. HIDE DEF w
      <4>3. Len(w.chan) <= Buffer
        BY <3>0, <4>2
      <4>. QED  BY <4>1, <4>2, <4>3
    <3>. QED  BY <1>10, <3>1, <3>2, <3>3
  <2>. QED  BY <2>1, <2>2, LeavingKeeps
<1>11. CASE UNCHANGED vars
  BY <1>11 DEF vars, IInv, TypeOK, Locked, SubscribersOpen, DoneIsEmpty, LiveIsCurrent, Lookups,
               OnlyStarted, Started
<1>. QED
  BY <1>1, <1>2, <1>3, <1>4, <1>5, <1>6, <1>7, <1>8, <1>9, <1>10, <1>11
     DEF Next, RunStep, HandlerStep

THEOREM Invariance == Spec => []IInv
BY InitIInv, NextIInv, PTL DEF Spec

\* The variables keep their types; a history and a channel never hold more than
\* their capacity (Publish).
THEOREM TypeCorrect == Spec => []TypeOK
<1>1. IInv => TypeOK
  BY DEF IInv
<1>. QED  BY <1>1, Invariance, PTL

\* No event is ever sent on a closed channel and no channel is closed twice
\* (Publish, StartStream, EndStream).
THEOREM ChannelsSafe == Spec => []SubscribersOpen
<1>1. IInv => SubscribersOpen
  BY DEF IInv, Locked
<1>. QED  BY <1>1, Invariance, PTL

\* Every subscriber sits in the stream the hub knows, so that whatever ends
\* the tenant's stream closes its channel (Subscribe, EndStream).
THEOREM SubscribersReachable == Spec => []NoOrphans
<1>1. IInv => NoOrphans
  BY DEF IInv, Locked, DoneIsEmpty, LiveIsCurrent, NoOrphans
<1>. QED  BY <1>1, Invariance, PTL

\* For any number of overlapping runs and viewers the channels are used as they
\* may be (Publish, Subscribe, StartStream, EndStream).
THEOREM ChannelsHold == Spec => []ChannelsSound
<1>1. TypeOK /\ SubscribersOpen /\ NoOrphans => ChannelsSound
  BY DEF ChannelsSound
<1>. QED  BY <1>1, TypeCorrect, ChannelsSafe, SubscribersReachable, PTL
-----------------------------------------------------------------------------
(* What a page shows.  Events of a run carry its counter, which only grows:*)
(* a new event is later than all there are, in histories and on pages.     *)

Page(v) == viewer[v].shown \o viewer[v].chan

Ordered(q) == \A i, j \in DOMAIN q : (i < j /\ q[i].by = q[j].by) => q[i].n < q[j].n

\* No event is ahead of its run, nor equal to the one that is about to be published.
Past(q, runs) ==
    \A i \in DOMAIN q :
        /\ q[i].n <= runs[q[i].by].sent
        /\ runs[q[i].by].at = "publishing" => q[i].n < runs[q[i].by].sent

InOrder ==
    /\ \A s \in Runs : Ordered(stream[s].history) /\ Past(stream[s].history, run)
    /\ \A v \in Viewers : Ordered(Page(v)) /\ Past(Page(v), run)
    /\ \A v \in Viewers : viewer[v].at # "streaming" => viewer[v].chan = <<>>

\* A connection belongs to a stream that was started, and is registered with it
\* as long as that one is live; it waits for no more events than the stream has had.
Attached ==
    /\ \A v \in Viewers : viewer[v].ts # None => viewer[v].ts \in Runs /\ Started(viewer[v].ts)
    /\ \A v \in Viewers, s \in Runs : viewer[v].at \in {"streaming", "told_done"} /\ viewer[v].ts = s =>
          /\ stream[s].done \/ v \in stream[s].subscribers
          /\ Len(stream[s].history) < MaxHistory => Len(viewer[v].chan) <= Len(stream[s].history)

PageInv == IInv /\ InOrder /\ Attached /\ NothingLost

\* A suffix is what the other sequence ends with.
LEMMA SuffixMeans ==
    ASSUME NEW S, NEW s \in Seq(S), NEW t \in Seq(S)
    PROVE  IsSuffix(s, t) <=> /\ Len(s) <= Len(t)
                              /\ \A i \in 1 .. Len(s) : s[i] = t[Len(t) - Len(s) + i]
<1>. DEFINE a == Len(s)
            b == Len(t)
            rs == [i \in 1 .. a |-> s[a - i + 1]]
            rt == [i \in 1 .. b |-> t[b - i + 1]]
<1>0. a \in Nat /\ b \in Nat /\ (\A i \in 1 .. a : s[i] \in S) /\ (\A i \in 1 .. b : t[i] \in S)
  OBVIOUS
<1>1. Reverse(s) = rs /\ Reverse(t) = rt
  BY DEF Reverse
<1>2. rs \in Seq(S) /\ Len(rs) = a /\ rt \in Seq(S) /\ Len(rt) = b
  <2>1. (\A i \in 1 .. a : a - i + 1 \in 1 .. a) /\ (\A i \in 1 .. b : b - i + 1 \in 1 .. b)
    BY <1>0
  <2>2. (\A i \in 1 .. a : s[a - i + 1] \in S) /\ (\A i \in 1 .. b : t[b - i + 1] \in S)
    BY <1>0, <2>1
  <2>. HIDE DEF a, b
  <2>3. rs \in Seq(S)
    BY <1>0, <2>2
  <2>4. rt \in Seq(S)
    BY <1>0, <2>2
  <2>5. Len(rs) = a
    BY <1>0
  <2>6. Len(rt) = b
    BY <1>0
  <2>. QED  BY <2>3, <2>4, <2>5, <2>6
<1>3. IsSuffix(s, t) <=> a <= b /\ SubSeq(rs, 1, a) = SubSeq(rt, 1, a)
  BY <1>1, <1>2 DEF IsSuffix, IsPrefix
<1>4. ASSUME a <= b
      PROVE  SubSeq(rs, 1, a) = SubSeq(rt, 1, a) <=> \A i \in 1 .. a : rs[i] = rt[i]
  <2>1. /\ SubSeq(rs, 1, a) \in Seq(S) /\ Len(SubSeq(rs, 1, a)) = a
        /\ SubSeq(rt, 1, a) \in Seq(S) /\ Len(SubSeq(rt, 1, a)) = a
        /\ \A i \in 1 .. a : SubSeq(rs, 1, a)[i] = rs[i] /\ SubSeq(rt, 1, a)[i] = rt[i]
    <3>. HIDE DEF rs, rt
    <3>. QED  BY <1>0, <1>2, <1>4
  <2>. HIDE DEF rs, rt
  <2>. QED  BY <2>1, SeqEqual
<1>5. ASSUME a <= b
      PROVE  (\A i \in 1 .. a : rs[i] = rt[i]) <=> \A i \in 1 .. a : s[i] = t[b - a + i]
  <2>1. \A i \in 1 .. a : rs[i] = s[a - i + 1] /\ rt[i] = t[b - i + 1]
    BY <1>0, <1>5
  <2>2. ASSUME \A i \in 1 .. a : rs[i] = rt[i], NEW i \in 1 .. a
        PROVE  s[i] = t[b - a + i]
    <3>1. a - i + 1 \in 1 .. a /\ a - (a - i + 1) + 1 = i /\ b - (a - i + 1) + 1 = b - a + i
      BY <1>0
    <3>. HIDE DEF rs, rt
    <3>2. rs[a - i + 1] = rt[a - i + 1] /\ rs[a - i + 1] = s[a - (a - i + 1) + 1]
          /\ rt[a - i + 1] = t[b - (a - i + 1) + 1]
      BY <2>1, <2>2, <3>1
    <3>. QED  BY <3>1, <3>2
  <2>3. ASSUME \A i \in 1 .. a : s[i] = t[b - a + i], NEW i \in 1 .. a
        PROVE  rs[i] = rt[i]
    <3>1. a - i + 1 \in 1 .. a /\ b - a + (a - i + 1) = b - i + 1
      BY <1>0
    <3>. HIDE DEF rs, rt
    <3>2. s[a - i + 1] = t[b - a + (a - i + 1)]
      BY <2>3, <3>1
    <3>. QED  BY <2>1, <3>1, <3>2
  <2>. QED  BY <2>2, <2>3
<1>. QED  BY <1>3, <1>4, <1>5

\* The same event at the end of both keeps one the suffix of the other.
LEMMA SuffixGrows ==
    ASSUME NEW S, NEW s \in Seq(S), NEW t \in Seq(S), NEW e \in S, IsSuffix(s, t)
    PROVE  IsSuffix(Append(s, e), Append(t, e))
<1>1. /\ Len(s) \in Nat /\ Len(t) \in Nat /\ Len(s) <= Len(t)
      /\ \A i \in 1 .. Len(s) : s[i] = t[Len(t) - Len(s) + i]
  BY SuffixMeans
<1>2. /\ Append(s, e) \in Seq(S) /\ Len(Append(s, e)) = Len(s) + 1
      /\ Append(t, e) \in Seq(S) /\ Len(Append(t, e)) = Len(t) + 1
      /\ \A i \in 1 .. Len(s) : Append(s, e)[i] = s[i]
      /\ \A i \in 1 .. Len(t) : Append(t, e)[i] = t[i]
      /\ Append(s, e)[Len(s) + 1] = e /\ Append(t, e)[Len(t) + 1] = e
  OBVIOUS
<1>3. ASSUME NEW i \in 1 .. Len(s) + 1
      PROVE  Append(s, e)[i] = Append(t, e)[Len(t) + 1 - (Len(s) + 1) + i]
  <2>1. CASE i = Len(s) + 1
    <3>1. Len(t) + 1 - (Len(s) + 1) + i = Len(t) + 1
      BY <1>1, <2>1
    <3>. QED  BY <1>2, <2>1, <3>1
  <2>2. CASE i # Len(s) + 1
    <3>1. /\ i \in 1 .. Len(s) /\ Len(t) - Len(s) + i \in 1 .. Len(t)
          /\ Len(t) + 1 - (Len(s) + 1) + i = Len(t) - Len(s) + i
      BY <1>1, <2>2
    <3>. QED  BY <1>1, <1>2, <3>1
  <2>. QED  BY <2>1, <2>2
<1>4. Len(Append(s, e)) <= Len(Append(t, e))
  BY <1>1, <1>2
<1>. DEFINE s2 == Append(s, e)
            t2 == Append(t, e)
<1>5. s2 \in Seq(S) /\ t2 \in Seq(S) /\ Len(s2) <= Len(t2)
  BY <1>2, <1>4
<1>6. \A i \in 1 .. Len(s2) : s2[i] = t2[Len(t2) - Len(s2) + i]
  <2>1. Len(s2) = Len(s) + 1 /\ Len(t2) = Len(t) + 1
    BY <1>2
  <2>2. \A i \in 1 .. Len(s) + 1 : s2[i] = t2[Len(t) + 1 - (Len(s) + 1) + i]
    BY <1>3
  <2>. HIDE DEF s2, t2
  <2>. QED  BY <2>1, <2>2
<1>. HIDE DEF s2, t2
<1>7. IsSuffix(s2, t2)
  BY <1>5, <1>6, SuffixMeans
<1>. QED  BY <1>7 DEF s2, t2

\* The head of one sequence moved to the end of another.
LEMMA HeadMoves ==
    ASSUME NEW S, NEW a \in Seq(S), NEW c \in Seq(S), c # <<>>
    PROVE  Append(a, Head(c)) \o Tail(c) = a \o c
<1>. DEFINE h == <<Head(c)>>
            d == Tail(c)
<1>1. Head(c) \in S /\ d \in Seq(S) /\ h \in Seq(S) /\ Len(h) = 1 /\ h[1] = Head(c)
  OBVIOUS
<1>2. /\ Len(c) \in Nat \ {0} /\ Len(d) = Len(c) - 1 /\ Head(c) = c[1]
      /\ \A i \in 1 .. Len(d) : d[i] = c[i + 1]
  BY HeadTailProperties, EmptySeq
<1>. HIDE DEF h, d
<1>3. /\ h \o d \in Seq(S) /\ Len(h \o d) = Len(h) + Len(d)
      /\ \A i \in 1 .. Len(h) + Len(d) : (h \o d)[i] = IF i <= Len(h) THEN h[i] ELSE d[i - Len(h)]
  BY <1>1, ConcatProperties
<1>4. Len(h \o d) = Len(c) /\ \A i \in 1 .. Len(c) : (h \o d)[i] = c[i]
  <2>1. Len(h \o d) = Len(c)
    BY <1>1, <1>2, <1>3
  <2>2. ASSUME NEW i \in 1 .. Len(c)
        PROVE  (h \o d)[i] = c[i]
    <3>1. CASE i = 1
      BY <1>1, <1>2, <1>3, <3>1
    <3>2. CASE i # 1
      <4>1. i - 1 \in 1 .. Len(d) /\ i - 1 + 1 = i /\ ~(i <= 1)
        BY <1>2, <3>2
      <4>2. (h \o d)[i] = d[i - 1]
        BY <1>1, <1>2, <1>3, <4>1
      <4>. QED  BY <1>2, <4>1, <4>2
    <3>. QED  BY <3>1, <3>2
  <2>. QED  BY <2>1, <2>2
<1>5. h \o d = c
  BY <1>3, <1>4, SeqEqual
<1>6. Append(a, Head(c)) = a \o h
  BY <1>1, AppendIsConcat DEF h
<1>7. (a \o h) \o d = a \o (h \o d)
  BY <1>1, ConcatAssociative, SMTT(40)
<1>. QED  BY <1>5, <1>6, <1>7 DEF d

\* What is appended to the second is appended to both together.
LEMMA AppendMoves ==
    ASSUME NEW S, NEW a \in Seq(S), NEW c \in Seq(S), NEW e \in S
    PROVE  a \o Append(c, e) = Append(a \o c, e)
<1>. DEFINE h == <<e>>
<1>1. h \in Seq(S) /\ a \o c \in Seq(S)
  OBVIOUS
<1>2. Append(c, e) = c \o h /\ Append(a \o c, e) = (a \o c) \o h
  BY <1>1, AppendIsConcat
<1>. HIDE DEF h
<1>3. (a \o c) \o h = a \o (c \o h)
  BY <1>1, ConcatAssociative
<1>. QED  BY <1>2, <1>3

\* A later event of its run keeps a sequence in order.
LEMMA OrderGrows ==
    ASSUME NEW q \in Seq(Event), NEW e \in Event, NEW runs \in [Runs -> Run], Ordered(q), Past(q, runs),
           runs[e.by].at = "publishing", runs[e.by].sent = e.n
    PROVE  /\ Append(q, e) \in Seq(Event) /\ Ordered(Append(q, e))
           /\ \A i \in DOMAIN Append(q, e) : (i \in DOMAIN q /\ Append(q, e)[i] = q[i]) \/ Append(q, e)[i] = e
<1>1. /\ Len(q) \in Nat /\ DOMAIN q = 1 .. Len(q) /\ DOMAIN Append(q, e) = 1 .. Len(q) + 1
      /\ \A i \in 1 .. Len(q) : Append(q, e)[i] = q[i]
      /\ Append(q, e)[Len(q) + 1] = e
  OBVIOUS
<1>2. \A i \in 1 .. Len(q) : q[i].by = e.by => q[i].n < e.n
  BY <1>1 DEF Past
<1>3. Ordered(Append(q, e))
  <2>. SUFFICES ASSUME NEW i \in 1 .. Len(q) + 1, NEW j \in 1 .. Len(q) + 1, i < j,
                       Append(q, e)[i].by = Append(q, e)[j].by
                PROVE  Append(q, e)[i].n < Append(q, e)[j].n
    BY <1>1 DEF Ordered
  <2>1. i \in 1 .. Len(q)
    BY <1>1
  <2>2. CASE j = Len(q) + 1
    BY <1>1, <1>2, <2>1, <2>2
  <2>3. CASE j # Len(q) + 1
    <3>1. j \in 1 .. Len(q)
      BY <1>1, <2>3
    <3>. QED  BY <1>1, <2>1, <3>1 DEF Ordered
  <2>. QED  BY <2>2, <2>3
<1>4. \A i \in 1 .. Len(q) + 1 : i \in 1 .. Len(q) \/ i = Len(q) + 1
  BY <1>1
<1>. QED  BY <1>1, <1>3, <1>4

\* Runs go on counting.
Advanced(old, new) ==
    \A r \in Runs :
        /\ new[r].sent >= old[r].sent
        /\ new[r].at = "publishing" => old[r].at = "publishing" \/ new[r].sent > old[r].sent

LEMMA PastLater ==
    ASSUME NEW q \in Seq(Event), NEW old \in [Runs -> Run], NEW new \in [Runs -> Run],
           Past(q, old), Advanced(old, new)
    PROVE  Past(q, new)
<1>1. \A i \in DOMAIN q : q[i].by \in Runs /\ q[i].n \in Nat
  <2>1. \A i \in DOMAIN q : q[i] \in Event
    OBVIOUS
  <2>. QED  BY <2>1 DEF Event
<1>2. \A r \in Runs : old[r].sent \in Nat /\ new[r].sent \in Nat
  BY DEF Run
<1>. QED  BY <1>1, <1>2 DEF Past, Advanced

\* What the sequences of a page and of a stream are.
LEMMA PageTyped ==
    ASSUME TypeOK
    PROVE  /\ \A v \in Viewers : /\ viewer[v].shown \in Seq(Event) /\ viewer[v].chan \in Seq(Event)
                                 /\ Page(v) \in Seq(Event)
           /\ \A s \in Runs : stream[s].history \in Seq(Event)
           /\ run \in [Runs -> Run]
<1>1. \A v \in Viewers : viewer[v].shown \in Seq(Event) /\ viewer[v].chan \in Seq(Event)
  BY DEF TypeOK, Viewer
<1>2. \A s \in Runs : stream[s].history \in Seq(Event)
  BY DEF TypeOK, Stream
<1>3. \A v \in Viewers : Page(v) \in Seq(Event)
  BY <1>1 DEF Page
<1>. QED  BY <1>1, <1>2, <1>3 DEF TypeOK

\* A step that shows and sends nothing: runs go on, streams end, a run that has
\* not started yet gets an empty stream.
LEMMA QuietKept ==
    ASSUME PageInv, IInv', Advanced(run, run'),
           \A r \in Runs : Started(r) => Started(r)',
           \A v \in Viewers : /\ viewer'[v].at = viewer[v].at /\ viewer'[v].ts = viewer[v].ts
                              /\ viewer'[v].shown = viewer[v].shown /\ viewer'[v].chan = viewer[v].chan,
           \A s \in Runs :
              \/ /\ stream'[s].history = stream[s].history
                 /\ stream[s].done => stream'[s].done
                 /\ stream'[s].done \/ stream'[s].subscribers = stream[s].subscribers
              \/ stream'[s].history = <<>> /\ ~Started(s)
    PROVE  PageInv'
<1>1. TypeOK /\ TypeOK'
  BY DEF PageInv, IInv
<1>2. run \in [Runs -> Run] /\ run' \in [Runs -> Run]
  BY <1>1 DEF TypeOK
<1>3. \A v \in Viewers : Page(v)' = Page(v)
  BY DEF Page
<1>4. InOrder'
  <2>1. \A v \in Viewers : Ordered(Page(v)) /\ Past(Page(v), run')
    <3>1. \A v \in Viewers : Page(v) \in Seq(Event) /\ Ordered(Page(v)) /\ Past(Page(v), run)
      BY <1>1, PageTyped DEF PageInv, InOrder
    <3>. QED  BY <1>2, <3>1, PastLater
  <2>2. \A s \in Runs : Ordered(stream[s].history) /\ Past(stream[s].history, run')
    <3>1. \A s \in Runs : /\ stream[s].history \in Seq(Event) /\ Ordered(stream[s].history)
                          /\ Past(stream[s].history, run)
      BY <1>1, PageTyped DEF PageInv, InOrder
    <3>. QED  BY <1>2, <3>1, PastLater
  <2>3. Ordered(<<>>) /\ Past(<<>>, run')
    BY DEF Ordered, Past
  <2>4. \A s \in Runs : Ordered(stream'[s].history) /\ Past(stream'[s].history, run')
    BY <2>2, <2>3
  <2>5. \A v \in Viewers : Ordered(Page(v)') /\ Past(Page(v)', run')
    BY <1>3, <2>1
  <2>6. \A v \in Viewers : viewer'[v].at # "streaming" => viewer'[v].chan = <<>>
    BY DEF PageInv, InOrder
  <2>7. \A v \in Viewers : (Ordered(Page(v)) /\ Past(Page(v), run))'
    <3>. SUFFICES ASSUME NEW v \in Viewers  PROVE (Ordered(Page(v)) /\ Past(Page(v), run))'
      OBVIOUS
    <3>. QED  BY <2>5 DEF Ordered, Past, Page
  <2>8. \A s \in Runs : (Ordered(stream[s].history) /\ Past(stream[s].history, run))'
    <3>. SUFFICES ASSUME NEW s \in Runs  PROVE (Ordered(stream[s].history) /\ Past(stream[s].history, run))'
      OBVIOUS
    <3>. QED  BY <2>4 DEF Ordered, Past
  <2>. QED  BY <2>6, <2>7, <2>8 DEF InOrder
<1>5. \A v \in Viewers : viewer[v].ts # None => viewer[v].ts \in Runs /\ Started(viewer[v].ts)
  BY DEF PageInv, Attached
<1>6. \A v \in Viewers, s \in Runs : viewer[v].ts = s =>
          /\ stream'[s].history = stream[s].history
          /\ stream[s].done => stream'[s].done
          /\ stream'[s].done \/ stream'[s].subscribers = stream[s].subscribers
  BY <1>5, NoneAssumption
<1>7. Attached'
  <2>1. \A v \in Viewers : viewer'[v].ts # None => viewer'[v].ts \in Runs /\ Started(viewer[v].ts)'
    BY <1>5
  <2>2. \A v \in Viewers : (viewer[v].ts # None => viewer[v].ts \in Runs /\ Started(viewer[v].ts))'
    BY <2>1 DEF Started
  <2>3. \A v \in Viewers, s \in Runs : viewer'[v].at \in {"streaming", "told_done"} /\ viewer'[v].ts = s =>
          /\ stream'[s].done \/ v \in stream'[s].subscribers
          /\ Len(stream'[s].history) < MaxHistory => Len(viewer'[v].chan) <= Len(stream'[s].history)
    BY <1>6 DEF PageInv, Attached
  <2>. QED  BY <2>2, <2>3 DEF Attached
<1>8. NothingLost'
  <2>. SUFFICES ASSUME NEW v \in Viewers, viewer'[v].at \in {"streaming", "told_done"},
                       viewer'[v].ts # None,
                       Len(stream'[viewer'[v].ts].history) < MaxHistory,
                       Len(stream'[viewer'[v].ts].history) <= Buffer
                PROVE  IsSuffix(stream'[viewer'[v].ts].history, viewer'[v].shown \o viewer'[v].chan)
    BY DEF NothingLost
  <2>1. viewer'[v].ts = viewer[v].ts /\ viewer[v].ts \in Runs
    BY <1>5
  <2>2. stream'[viewer[v].ts].history = stream[viewer[v].ts].history
    BY <1>6, <2>1
  <2>3. IsSuffix(stream[viewer[v].ts].history, viewer[v].shown \o viewer[v].chan)
    BY <2>1, <2>2 DEF PageInv, NothingLost
  <2>. QED  BY <2>1, <2>2, <2>3
<1>. QED  BY <1>4, <1>7, <1>8 DEF PageInv

\* A step of one viewer and its handler: histories stay, and nobody else leaves
\* a stream.
LEMMA ViewerKept ==
    ASSUME PageInv, IInv', run' = run, NEW v \in Viewers, NEW w \in Viewer,
           viewer' = [viewer EXCEPT ![v] = w],
           \A s \in Runs :
              /\ stream'[s].history = stream[s].history
              /\ stream'[s].done = stream[s].done
              /\ \A u \in stream[s].subscribers : u = v \/ u \in stream'[s].subscribers,
           Ordered(w.shown \o w.chan), Past(w.shown \o w.chan, run),
           w.at # "streaming" => w.chan = <<>>,
           w.ts # None => w.ts \in Runs /\ Started(w.ts),
           \A s \in Runs : w.at \in {"streaming", "told_done"} /\ w.ts = s =>
              /\ stream[s].done \/ v \in stream'[s].subscribers
              /\ Len(stream[s].history) < MaxHistory => Len(w.chan) <= Len(stream[s].history)
              /\ Len(stream[s].history) < MaxHistory /\ Len(stream[s].history) <= Buffer
                    => IsSuffix(stream[s].history, w.shown \o w.chan)
    PROVE  PageInv'
<1>1. TypeOK /\ viewer \in [Viewers -> Viewer]
  BY DEF PageInv, IInv, TypeOK
<1>2. viewer'[v] = w /\ \A u \in Viewers : u # v => viewer'[u] = viewer[u]
  BY <1>1
<1>3. InOrder'
  <2>1. \A u \in Viewers : (Ordered(Page(u)) /\ Past(Page(u), run))'
    <3>. SUFFICES ASSUME NEW u \in Viewers  PROVE (Ordered(Page(u)) /\ Past(Page(u), run))'
      OBVIOUS
    <3>1. Ordered(viewer'[u].shown \o viewer'[u].chan) /\ Past(viewer'[u].shown \o viewer'[u].chan, run')
      <4>1. CASE u = v
        BY <1>2, <4>1
      <4>2. CASE u # v
        BY <1>2, <4>2 DEF PageInv, InOrder, Page
      <4>. QED  BY <4>1, <4>2
    <3>. QED  BY <3>1 DEF Ordered, Past, Page
  <2>2. \A s \in Runs : (Ordered(stream[s].history) /\ Past(stream[s].history, run))'
    <3>. SUFFICES ASSUME NEW s \in Runs  PROVE (Ordered(stream[s].history) /\ Past(stream[s].history, run))'
      OBVIOUS
    <3>1. Ordered(stream'[s].history) /\ Past(stream'[s].history, run')
      BY DEF PageInv, InOrder
    <3>. QED  BY <3>1 DEF Ordered, Past
  <2>3. \A u \in Viewers : viewer'[u].at # "streaming" => viewer'[u].chan = <<>>
    BY <1>2 DEF PageInv, InOrder
  <2>. QED  BY <2>1, <2>2, <2>3 DEF InOrder
<1>4. Attached'
  <2>1. \A u \in Viewers : viewer'[u].ts # None => viewer'[u].ts \in Runs /\ Started(viewer'[u].ts)
    BY <1>2 DEF PageInv, Attached
  <2>2. \A u \in Viewers : (viewer[u].ts # None => viewer[u].ts \in Runs /\ Started(viewer[u].ts))'
    BY <2>1 DEF Started
  <2>3. ASSUME NEW u \in Viewers, NEW s \in Runs, viewer'[u].at \in {"streaming", "told_done"},
               viewer'[u].ts = s
        PROVE  /\ stream'[s].done \/ u \in stream'[s].subscribers
               /\ Len(stream'[s].history) < MaxHistory => Len(viewer'[u].chan) <= Len(stream'[s].history)
    <3>1. CASE u = v
      BY <1>2, <2>3, <3>1
    <3>2. CASE u # v
      BY <1>2, <2>3, <3>2 DEF PageInv, Attached
    <3>. QED  BY <3>1, <3>2
  <2>. QED  BY <2>2, <2>3 DEF Attached
<1>5. NothingLost'
  <2>. SUFFICES ASSUME NEW u \in Viewers, viewer'[u].at \in {"streaming", "told_done"},
                       viewer'[u].ts # None,
                       Len(stream'[viewer'[u].ts].history) < MaxHistory,
                       Len(stream'[viewer'[u].ts].history) <= Buffer
                PROVE  IsSuffix(stream'[viewer'[u].ts].history, viewer'[u].shown \o viewer'[u].chan)
    BY DEF NothingLost
  <2>1. CASE u = v
    BY <1>2, <2>1
  <2>2. CASE u # v
    <3>1. viewer'[u] = viewer[u] /\ viewer[u].ts \in Runs
      BY <1>2, <2>2 DEF PageInv, Attached
    <3>2. stream'[viewer[u].ts].history = stream[viewer[u].ts].history
      BY <3>1
    <3>3. IsSuffix(stream[viewer[u].ts].history, viewer[u].shown \o viewer[u].chan)
      BY <3>1, <3>2 DEF PageInv, NothingLost
    <3>. QED  BY <3>1, <3>2, <3>3
  <2>. QED  BY <2>1, <2>2
<1>. QED  BY <1>3, <1>4, <1>5 DEF PageInv

\* The empty history is what everything ends with, and a history is what it
\* ends with itself.
LEMMA SuffixTrivial ==
    ASSUME NEW S, NEW t \in Seq(S)
    PROVE  IsSuffix(<<>>, t) /\ IsSuffix(t, t)
<1>1. <<>> \in Seq(S) /\ Len(<<>>) = 0 /\ Len(t) \in Nat
  OBVIOUS
<1>. DEFINE e == <<>>
<1>2. IsSuffix(e, t)
  <2>1. e \in Seq(S) /\ Len(e) = 0
    BY <1>1
  <2>. HIDE DEF e
  <2>2. Len(e) <= Len(t) /\ \A i \in 1 .. Len(e) : e[i] = t[Len(t) - Len(e) + i]
    BY <1>1, <2>1
  <2>. QED  BY <2>1, <2>2, SuffixMeans
<1>3. \A i \in 1 .. Len(t) : t[i] = t[Len(t) - Len(t) + i]
  BY <1>1
<1>. QED  BY <1>1, <1>2, <1>3, SuffixMeans

\* The catch-up replaces the page by the history.
LEMMA SubscribeKept ==
    ASSUME PageInv, IInv', NEW v \in Viewers, Subscribe(v)
    PROVE  PageInv'
<1>. DEFINE s == viewer[v].ts
            p == Joined(viewer[v].shown, stream[s].history)
            w == [viewer[v] EXCEPT !.at = "streaming", !.open = ~Closed(s), !.shown = p]
<1>1. TypeOK /\ viewer \in [Viewers -> Viewer] /\ stream \in [Runs -> Stream]
  BY DEF PageInv, IInv, TypeOK
<1>2. viewer[v].at = "subscribing" /\ s \in Runs /\ run' = run
  BY DEF PageInv, IInv, Locked, Lookups, Subscribe
<1>3. viewer[v].chan = <<>> /\ viewer[v].shown \in Seq(Event) /\ stream[s].history \in Seq(Event)
  BY <1>1, <1>2, PageTyped DEF PageInv, InOrder
<1>4. p \in Seq(Event)
  BY <1>3 DEF Joined
<1>5. viewer' = [viewer EXCEPT ![v] = w]
  BY <1>1 DEF Subscribe, Viewer
<1>6. /\ w \in Viewer /\ w.at = "streaming" /\ w.ts = s /\ w.shown = p /\ w.chan = <<>>
  <2>. DEFINE o == ~Closed(s)
  <2>1. viewer[v] \in Viewer /\ o \in BOOLEAN
    BY <1>1 DEF Closed
  <2>. HIDE DEF p, s, o
  <2>2. w \in Viewer
    BY <1>3, <1>4, <2>1 DEF Viewer
  <2>. QED  BY <1>3, <2>1, <2>2 DEF Viewer, s
<1>7. p \o <<>> = p
  BY <1>4, ConcatEmptySeq
<1>8. Ordered(p) /\ Past(p, run)
  <2>1. Ordered(stream[s].history) /\ Past(stream[s].history, run)
    BY <1>2 DEF PageInv, InOrder
  <2>2. Page(v) = viewer[v].shown
    BY <1>3, ConcatEmptySeq DEF Page
  <2>3. Ordered(viewer[v].shown) /\ Past(viewer[v].shown, run)
    BY <2>2 DEF PageInv, InOrder
  <2>. QED  BY <2>1, <2>3 DEF Joined
<1>9. IsSuffix(stream[s].history, p)
  <2>1. CASE stream[s].history = <<>>
    BY <1>4, <2>1, SuffixTrivial
  <2>2. CASE stream[s].history # <<>>
    <3>1. p = stream[s].history
      BY <2>2 DEF Joined
    <3>. QED  BY <1>3, <3>1, SuffixTrivial
  <2>. QED  BY <2>1, <2>2
<1>10. \A q \in Runs : /\ stream'[q].history = stream[q].history
                       /\ stream'[q].done = stream[q].done
                       /\ \A u \in stream[q].subscribers : u = v \/ u \in stream'[q].subscribers
  <2>1. CASE Closed(s)
    BY <2>1 DEF Subscribe
  <2>2. CASE ~Closed(s)
    <3>1. stream' = [stream EXCEPT ![s].subscribers = @ \cup {v}]
      BY <2>2 DEF Subscribe
    <3>. QED  BY <1>1, <1>2, <3>1 DEF Stream
  <2>. QED  BY <2>1, <2>2
<1>11. stream[s].done \/ v \in stream'[s].subscribers
  <2>1. CASE ~Closed(s)
    <3>1. stream' = [stream EXCEPT ![s].subscribers = @ \cup {v}]
      BY <2>1 DEF Subscribe
    <3>. QED  BY <1>1, <1>2, <3>1 DEF Stream
  <2>. QED  BY <2>1 DEF Closed
<1>12. s # None => s \in Runs /\ Started(s)
  BY DEF PageInv, Attached
<1>13. Len(<<>>) <= Len(stream[s].history)
  BY <1>3
<1>. HIDE DEF p, w
<1>14. /\ Ordered(w.shown \o w.chan) /\ Past(w.shown \o w.chan, run)
       /\ IsSuffix(stream[s].history, w.shown \o w.chan)
  BY <1>6, <1>7, <1>8, <1>9
<1>. HIDE DEF s
<1>15. \A q \in Runs : w.at \in {"streaming", "told_done"} /\ w.ts = q =>
              /\ stream[q].done \/ v \in stream'[q].subscribers
              /\ Len(stream[q].history) < MaxHistory => Len(w.chan) <= Len(stream[q].history)
              /\ Len(stream[q].history) < MaxHistory /\ Len(stream[q].history) <= Buffer
                    => IsSuffix(stream[q].history, w.shown \o w.chan)
  BY <1>6, <1>11, <1>13, <1>14
<1>. QED  BY <1>2, <1>5, <1>6, <1>10, <1>12, <1>14, <1>15, ViewerKept

LEMMA ConnectKept ==
    ASSUME PageInv, IInv', NEW v \in Viewers, Connect(v)
    PROVE  PageInv'
<1>. DEFINE w == [viewer[v] EXCEPT !.at = IF current = None THEN "streaming" ELSE "subscribing",
                                   !.ts = current, !.connects = @ + 1]
<1>1. TypeOK /\ viewer \in [Viewers -> Viewer]
  BY DEF PageInv, IInv, TypeOK
<1>2. /\ viewer[v].at \in {"off", "lost"} /\ UNCHANGED <<current, stream, run, sweeps>>
      /\ viewer' = [viewer EXCEPT ![v] = w]
  BY <1>1 DEF Connect, Viewer
<1>3. viewer[v].chan = <<>>
  BY <1>2 DEF PageInv, InOrder
<1>4. /\ w \in Viewer /\ w.at = (IF current = None THEN "streaming" ELSE "subscribing")
      /\ w.ts = current /\ w.shown = viewer[v].shown /\ w.chan = viewer[v].chan
  <2>. DEFINE to == IF current = None THEN "streaming" ELSE "subscribing"
              k == viewer[v].connects + 1
  <2>1. /\ viewer[v] \in Viewer /\ current \in Runs \cup {None} /\ k \in Nat
        /\ to \in {"off", "subscribing", "streaming", "lost", "told_done"}
    BY <1>1 DEF TypeOK, Viewer
  <2>2. w = [viewer[v] EXCEPT !.at = to, !.ts = current, !.connects = k]
    BY <2>1 DEF Viewer
  <2>. HIDE DEF to, k, w
  <2>3. w \in Viewer /\ w.at = to
    BY <2>1, <2>2 DEF Viewer
  <2>4. w.ts = current /\ w.shown = viewer[v].shown /\ w.chan = viewer[v].chan
    BY <2>1, <2>2 DEF Viewer
  <2>. QED  BY <2>3, <2>4 DEF to
<1>. HIDE DEF w
<1>5. Ordered(w.shown \o w.chan) /\ Past(w.shown \o w.chan, run)
  BY <1>4 DEF PageInv, InOrder, Page
<1>6. w.ts # None => w.ts \in Runs /\ Started(w.ts)
  BY <1>1, <1>4 DEF PageInv, IInv, Locked, OnlyStarted, TypeOK
<1>7. ~\E s \in Runs : w.at \in {"streaming", "told_done"} /\ w.ts = s
  BY <1>4, NoneAssumption
<1>. QED  BY <1>2, <1>3, <1>4, <1>5, <1>6, <1>7, ViewerKept

\* An event that is shown leaves the channel.
LEMMA ReceiveKept ==
    ASSUME PageInv, IInv', NEW v \in Viewers, Receive(v)
    PROVE  PageInv'
<1>. DEFINE w == [viewer[v] EXCEPT !.shown = Append(@, Head(viewer[v].chan)), !.chan = Tail(@)]
            a == viewer[v].shown
            c == viewer[v].chan
<1>1. TypeOK /\ viewer \in [Viewers -> Viewer] /\ stream \in [Runs -> Stream]
  BY DEF PageInv, IInv, TypeOK
<1>2. /\ viewer[v].at = "streaming" /\ c # <<>> /\ UNCHANGED <<current, stream, run, sweeps>>
      /\ viewer' = [viewer EXCEPT ![v] = w]
  BY <1>1 DEF Receive, Viewer
<1>3. a \in Seq(Event) /\ c \in Seq(Event)
  BY <1>1 DEF Viewer
<1>4. /\ Head(c) \in Event /\ Tail(c) \in Seq(Event) /\ Len(Tail(c)) = Len(c) - 1
      /\ Len(c) \in Nat /\ Append(a, Head(c)) \in Seq(Event)
  BY <1>2, <1>3
<1>5. /\ w \in Viewer /\ w.at = "streaming" /\ w.ts = viewer[v].ts
      /\ w.shown = Append(a, Head(c)) /\ w.chan = Tail(c)
  <2>1. viewer[v] \in Viewer
    BY <1>1
  <2>. QED  BY <1>2, <1>4, <2>1 DEF Viewer
<1>6. Append(a, Head(c)) \o Tail(c) = a \o c
  BY <1>2, <1>3, HeadMoves
<1>7. w.shown \o w.chan = Page(v)
  BY <1>5, <1>6 DEF Page
<1>8. /\ \A s \in Runs : viewer[v].ts = s =>
            /\ stream[s].done \/ v \in stream[s].subscribers
            /\ Len(stream[s].history) < MaxHistory => Len(c) <= Len(stream[s].history)
      /\ viewer[v].ts # None => viewer[v].ts \in Runs /\ Started(viewer[v].ts)
  BY <1>2 DEF PageInv, Attached
<1>9. Ordered(Page(v)) /\ Past(Page(v), run)
  BY DEF PageInv, InOrder
<1>10. \A s \in Runs : /\ viewer[v].ts = s /\ Len(stream[s].history) < MaxHistory
                       /\ Len(stream[s].history) <= Buffer
                       => IsSuffix(stream[s].history, Page(v))
  BY <1>2, NoneAssumption DEF PageInv, NothingLost, Page
<1>11. \A s \in Runs : Len(stream[s].history) \in Nat
  BY <1>1, PageTyped
<1>. HIDE DEF w, a, c
<1>12. \A s \in Runs : w.at \in {"streaming", "told_done"} /\ w.ts = s =>
              /\ stream[s].done \/ v \in stream'[s].subscribers
              /\ Len(stream[s].history) < MaxHistory => Len(w.chan) <= Len(stream[s].history)
              /\ Len(stream[s].history) < MaxHistory /\ Len(stream[s].history) <= Buffer
                    => IsSuffix(stream[s].history, w.shown \o w.chan)
  <2>. SUFFICES ASSUME NEW s \in Runs, viewer[v].ts = s
                PROVE  /\ stream[s].done \/ v \in stream'[s].subscribers
                       /\ Len(stream[s].history) < MaxHistory => Len(Tail(c)) <= Len(stream[s].history)
                       /\ Len(stream[s].history) < MaxHistory /\ Len(stream[s].history) <= Buffer
                            => IsSuffix(stream[s].history, w.shown \o w.chan)
    BY <1>5
  <2>1. stream[s].done \/ v \in stream'[s].subscribers
    BY <1>2, <1>8
  <2>2. Len(stream[s].history) < MaxHistory => Len(Tail(c)) <= Len(stream[s].history)
    BY <1>4, <1>8, <1>11
  <2>. QED  BY <1>7, <1>10, <2>1, <2>2
<1>. QED  BY <1>2, <1>5, <1>7, <1>8, <1>9, <1>12, ViewerKept

\* Whoever leaves has nothing left in its channel, and keeps its page or drops it.
LEMMA LeaveKept ==
    ASSUME PageInv, IInv', NEW v \in Viewers, TellDone(v) \/ Lose(v) \/ TurnOff(v)
    PROVE  PageInv'
<1>1. TypeOK /\ viewer \in [Viewers -> Viewer] /\ stream \in [Runs -> Stream]
  BY DEF PageInv, IInv, TypeOK
<1>2. stream' = Unsubscribed(v) /\ run' = run /\ viewer[v] \in Viewer
  BY <1>1 DEF TellDone, Lose, TurnOff
<1>3. \A s \in Runs : /\ stream'[s].history = stream[s].history
                      /\ stream'[s].done = stream[s].done
                      /\ \A u \in stream[s].subscribers : u = v \/ u \in stream'[s].subscribers
  BY <1>1, <1>2 DEF Unsubscribed, Stream
<1>4. <<>> \in Seq(Event) /\ viewer[v].shown \in Seq(Event) /\ viewer[v].chan \in Seq(Event)
  BY <1>2 DEF Viewer
<1>5. Ordered(Page(v)) /\ Past(Page(v), run)
  BY DEF PageInv, InOrder
<1>6. CASE TellDone(v)
  <2>. DEFINE w == [viewer[v] EXCEPT !.at = "told_done"]
  <2>1. viewer' = [viewer EXCEPT ![v] = w]
    BY <1>1, <1>6 DEF TellDone, Viewer
  <2>2. /\ w \in Viewer /\ w.at = "told_done" /\ w.ts = viewer[v].ts
        /\ w.shown = viewer[v].shown /\ w.chan = viewer[v].chan
    BY <1>2 DEF Viewer
  <2>3. viewer[v].chan = <<>> /\ viewer[v].at = "streaming" /\ ~viewer[v].open
    BY <1>6 DEF TellDone
  <2>4. w.shown \o w.chan = Page(v)
    BY <2>2 DEF Page
  <2>5. viewer[v].ts # None => viewer[v].ts \in Runs /\ Started(viewer[v].ts)
    BY DEF PageInv, Attached
  <2>6. \A s \in Runs : viewer[v].ts = s => stream[s].done
    BY <2>3 DEF PageInv, IInv, Locked, SubscribersOpen, Attached
  <2>7. \A s \in Runs : Len(<<>>) <= Len(stream[s].history)
    <3>1. \A s \in Runs : Len(stream[s].history) \in Nat
      BY <1>1, PageTyped
    <3>. QED  BY <3>1
  <2>8. \A s \in Runs : /\ viewer[v].ts = s /\ Len(stream[s].history) < MaxHistory
                        /\ Len(stream[s].history) <= Buffer
                        => IsSuffix(stream[s].history, Page(v))
    BY <2>3, NoneAssumption DEF PageInv, NothingLost, Page
  <2>. HIDE DEF w
  <2>9. \A s \in Runs : w.at \in {"streaming", "told_done"} /\ w.ts = s =>
              /\ stream[s].done \/ v \in stream'[s].subscribers
              /\ Len(stream[s].history) < MaxHistory => Len(w.chan) <= Len(stream[s].history)
              /\ Len(stream[s].history) < MaxHistory /\ Len(stream[s].history) <= Buffer
                    => IsSuffix(stream[s].history, w.shown \o w.chan)
    BY <2>2, <2>3, <2>4, <2>6, <2>7, <2>8
  <2>10. /\ Ordered(w.shown \o w.chan) /\ Past(w.shown \o w.chan, run)
         /\ w.at # "streaming" => w.chan = <<>>
         /\ w.ts # None => w.ts \in Runs /\ Started(w.ts)
    BY <1>5, <2>2, <2>3, <2>4, <2>5
  <2>11. w \in Viewer
    BY <2>2
  <2>. QED  BY <1>2, <1>3, <2>1, <2>9, <2>10, <2>11, ViewerKept
<1>7. CASE Lose(v)
  <2>. DEFINE w == [viewer[v] EXCEPT !.at = "lost", !.chan = <<>>, !.open = FALSE, !.ts = None]
              a == viewer[v].shown
              c == viewer[v].chan
  <2>1. viewer' = [viewer EXCEPT ![v] = w]
    BY <1>1, <1>7 DEF Lose, Viewer
  <2>2. w \in Viewer /\ w.at = "lost" /\ w.ts = None /\ w.shown = a /\ w.chan = <<>>
    BY <1>2, <1>4 DEF Viewer
  <2>3. a \in Seq(Event) /\ c \in Seq(Event) /\ a \o <<>> = a
    BY <1>4, ConcatEmptySeq
  <2>. HIDE DEF w
  <2>4. /\ DOMAIN a \subseteq DOMAIN Page(v) /\ \A i \in DOMAIN a : Page(v)[i] = a[i]
    <3>. HIDE DEF a, c
    <3>1. /\ DOMAIN a \subseteq DOMAIN (a \o c) /\ \A i \in DOMAIN a : (a \o c)[i] = a[i]
      BY <2>3
    <3>. QED  BY <3>1 DEF a, c, Page
  <2>5. Ordered(a) /\ Past(a, run)
    <3>. HIDE DEF a
    <3>1. Ordered(a)
      BY <1>5, <2>4 DEF Ordered
    <3>2. Past(a, run)
      BY <1>5, <2>4 DEF Past
    <3>. QED  BY <3>1, <3>2
  <2>6. Ordered(w.shown \o w.chan) /\ Past(w.shown \o w.chan, run)
    BY <2>2, <2>3, <2>5
  <2>. QED  BY <1>2, <1>3, <2>1, <2>2, <2>6, ViewerKept
<1>8. CASE TurnOff(v)
  <2>. DEFINE w == [viewer[v] EXCEPT !.at = "off", !.chan = <<>>, !.open = FALSE, !.ts = None,
                                     !.shown = <<>>]
  <2>1. viewer' = [viewer EXCEPT ![v] = w]
    BY <1>1, <1>8 DEF TurnOff, Viewer
  <2>2. w \in Viewer /\ w.at = "off" /\ w.ts = None /\ w.shown = <<>> /\ w.chan = <<>>
    BY <1>2, <1>4 DEF Viewer
  <2>. HIDE DEF w
  <2>3. <<>> \o <<>> = <<>> /\ DOMAIN <<>> = {}
    BY <1>4, ConcatEmptySeq
  <2>4. Ordered(w.shown \o w.chan) /\ Past(w.shown \o w.chan, run)
    BY <2>2, <2>3 DEF Ordered, Past
  <2>. QED  BY <1>2, <1>3, <2>1, <2>2, <2>4, ViewerKept
<1>. QED  BY <1>6, <1>7, <1>8

\* What is published is new to the history and to every page, and everybody
\* subscribed gets it as long as the stream is short enough.
LEMMA PublishKept ==
    ASSUME PageInv, IInv', NEW r \in Runs, Publish(r), ~stream[run[r].ts].done
    PROVE  PageInv'
<1>. DEFINE s == run[r].ts
            e == [by |-> r, n |-> run[r].sent]
            h == stream[s].history
<1>0. /\ TypeOK /\ viewer \in [Viewers -> Viewer] /\ stream \in [Runs -> Stream]
      /\ run \in [Runs -> Run] /\ run' \in [Runs -> Run]
  BY DEF PageInv, IInv, TypeOK
<1>1. /\ run[r].at = "publishing" /\ s \in Runs /\ e \in Event /\ e.by = r /\ e.n = run[r].sent
  <2>1. run[r].at = "publishing" /\ run[r].sent \in Nat /\ run[r].sent # 0
    BY <1>0 DEF Publish, PageInv, IInv, Locked, Lookups, Run
  <2>. QED  BY <2>1 DEF PageInv, IInv, Locked, Lookups, Event
<1>2. /\ run' = [run EXCEPT ![r].at = "working", ![r].ts = None]
      /\ stream' = [stream EXCEPT ![s] = Recorded(@, e)]
      /\ viewer' = [v \in Viewers |-> IF v \in stream[s].subscribers THEN Offered(v, e) ELSE viewer[v]]
  BY DEF Publish
<1>. HIDE DEF s, e
<1>3. /\ Advanced(run, run') /\ run'[r].at = "working" /\ run'[r].sent = run[r].sent
      /\ \A q \in Runs : Started(q) => Started(q)'
  <2>1. \A q \in Runs : run'[q].sent = run[q].sent /\ (q = r \/ run'[q].at = run[q].at)
    BY <1>0, <1>2 DEF Run
  <2>2. run'[r].at = "working" /\ \A q \in Runs : run[q].sent \in Nat
    BY <1>0, <1>2 DEF Run
  <2>. QED  BY <2>1, <2>2 DEF Advanced, Started
<1>4. ASSUME NEW q \in Seq(Event), Ordered(q), Past(q, run)
      PROVE  /\ Append(q, e) \in Seq(Event)
             /\ Ordered(q) /\ Past(q, run')
             /\ Ordered(Append(q, e)) /\ Past(Append(q, e), run')
  <2>1. Past(q, run')
    BY <1>0, <1>3, <1>4, PastLater
  <2>2. /\ Append(q, e) \in Seq(Event) /\ Ordered(Append(q, e))
        /\ \A i \in DOMAIN Append(q, e) : (i \in DOMAIN q /\ Append(q, e)[i] = q[i]) \/ Append(q, e)[i] = e
    <3>1. run[e.by].at = "publishing" /\ run[e.by].sent = e.n
      BY <1>1
    <3>. QED  BY <1>0, <1>1, <1>4, <3>1, OrderGrows
  <2>3. e.n <= run'[e.by].sent /\ run'[e.by].at # "publishing"
    BY <1>0, <1>1, <1>3 DEF Run
  <2>4. Past(Append(q, e), run')
    BY <2>1, <2>2, <2>3 DEF Past
  <2>. QED  BY <1>4, <2>1, <2>2, <2>4
<1>5. /\ stream'[s] = Recorded(stream[s], e) /\ \A q \in Runs : q # s => stream'[q] = stream[q]
      /\ h \in Seq(Event) /\ MaxHistory \in Nat /\ Buffer \in Nat /\ Len(h) \in Nat
      /\ stream'[s].history = IF Len(h) < MaxHistory THEN Append(h, e) ELSE h
      /\ stream'[s].done = stream[s].done /\ stream'[s].subscribers = stream[s].subscribers
  <2>1. stream'[s] = Recorded(stream[s], e) /\ \A q \in Runs : q # s => stream'[q] = stream[q]
    BY <1>0, <1>1, <1>2
  <2>2. /\ h \in Seq(Event) /\ stream[s] \in Stream /\ Len(h) <= MaxHistory
    BY <1>0, <1>1 DEF TypeOK, Stream
  <2>3. MaxHistory \in Nat /\ Buffer \in Nat /\ Len(h) \in Nat
    BY <2>2, BoundsAssumption
  <2>4. stream'[s].history = IF Len(h) < MaxHistory THEN Append(h, e) ELSE h
    BY <2>1, <2>2 DEF Recorded, Stream
  <2>5. stream'[s].done = stream[s].done /\ stream'[s].subscribers = stream[s].subscribers
    BY <1>1, <2>1, <2>2, RecordedKeeps
  <2>. QED  BY <2>1, <2>2, <2>3, <2>4, <2>5
<1>6. ASSUME NEW v \in Viewers
      PROVE  /\ viewer'[v].at = viewer[v].at /\ viewer'[v].ts = viewer[v].ts
             /\ \/ viewer'[v].chan = viewer[v].chan /\ Page(v)' = Page(v)
                   /\ (v \in stream[s].subscribers => ~(Len(viewer[v].chan) < Buffer))
                \/ viewer'[v].chan = Append(viewer[v].chan, e) /\ Page(v)' = Append(Page(v), e)
                   /\ v \in stream[s].subscribers
  <2>1. CASE v \notin stream[s].subscribers \/ ~(Len(viewer[v].chan) < Buffer)
    <3>1. viewer'[v] = viewer[v]
      BY <1>2, <2>1 DEF Offered
    <3>. QED  BY <2>1, <3>1 DEF Page
  <2>2. CASE v \in stream[s].subscribers /\ Len(viewer[v].chan) < Buffer
    <3>1. viewer'[v] = [viewer[v] EXCEPT !.chan = Append(@, e)]
      BY <1>2, <2>2 DEF Offered
    <3>2. /\ viewer'[v].at = viewer[v].at /\ viewer'[v].ts = viewer[v].ts
          /\ viewer'[v].shown = viewer[v].shown /\ viewer'[v].chan = Append(viewer[v].chan, e)
      BY <1>0, <3>1 DEF Viewer
    <3>3. viewer[v].shown \in Seq(Event) /\ viewer[v].chan \in Seq(Event)
      BY <1>0 DEF Viewer
    <3>4. viewer[v].shown \o Append(viewer[v].chan, e) = Append(viewer[v].shown \o viewer[v].chan, e)
      <4>. DEFINE a == viewer[v].shown
                  c == viewer[v].chan
      <4>1. a \in Seq(Event) /\ c \in Seq(Event) /\ e \in Event
        BY <1>1, <3>3
      <4>. HIDE DEF a, c
      <4>2. a \o Append(c, e) = Append(a \o c, e)
        BY <4>1, AppendMoves
      <4>. QED  BY <4>2 DEF a, c
    <3>. QED  BY <2>2, <3>2, <3>4 DEF Page
  <2>. QED  BY <2>1, <2>2
<1>. HIDE DEF h
<1>7. InOrder'
  <2>1. \A q \in Runs : (Ordered(stream[q].history) /\ Past(stream[q].history, run))'
    <3>. SUFFICES ASSUME NEW q \in Runs  PROVE (Ordered(stream[q].history) /\ Past(stream[q].history, run))'
      OBVIOUS
    <3>1. stream[q].history \in Seq(Event) /\ Ordered(stream[q].history) /\ Past(stream[q].history, run)
      BY <1>0, PageTyped DEF PageInv, InOrder
    <3>2. stream'[q].history = stream[q].history \/ stream'[q].history = Append(stream[q].history, e)
      BY <1>5 DEF h
    <3>3. Ordered(stream'[q].history) /\ Past(stream'[q].history, run')
      BY <1>4, <3>1, <3>2
    <3>. QED  BY <3>3 DEF Ordered, Past
  <2>2. \A v \in Viewers : (Ordered(Page(v)) /\ Past(Page(v), run))'
    <3>. SUFFICES ASSUME NEW v \in Viewers  PROVE (Ordered(Page(v)) /\ Past(Page(v), run))'
      OBVIOUS
    <3>1. Page(v) \in Seq(Event) /\ Ordered(Page(v)) /\ Past(Page(v), run)
      BY <1>0, PageTyped DEF PageInv, InOrder
    <3>2. Page(v)' = Page(v) \/ Page(v)' = Append(Page(v), e)
      BY <1>6
    <3>3. Ordered(Page(v)') /\ Past(Page(v)', run')
      BY <1>4, <3>1, <3>2
    <3>. QED  BY <3>3 DEF Ordered, Past, Page
  <2>3. \A v \in Viewers : viewer'[v].at # "streaming" => viewer'[v].chan = <<>>
    <3>1. \A v \in stream[s].subscribers : viewer[v].at = "streaming"
      BY <1>1 DEF PageInv, IInv, Locked, SubscribersOpen
    <3>. QED  BY <1>6, <3>1 DEF PageInv, InOrder
  <2>. QED  BY <2>1, <2>2, <2>3 DEF InOrder
<1>8. ASSUME NEW v \in Viewers, viewer'[v].at \in {"streaming", "told_done"}, viewer'[v].ts = s
      PROVE  /\ v \in stream[s].subscribers
             /\ Len(h) < MaxHistory => Len(viewer[v].chan) <= Len(h)
             /\ Len(h) < MaxHistory /\ Len(h) <= Buffer => IsSuffix(h, Page(v))
             /\ viewer[v].chan \in Seq(Event) /\ Page(v) \in Seq(Event)
  <2>1. viewer[v].at \in {"streaming", "told_done"} /\ viewer[v].ts = s /\ s # None
    BY <1>1, <1>6, <1>8, NoneAssumption
  <2>2. v \in stream[s].subscribers
    BY <1>1, <2>1 DEF PageInv, Attached, s
  <2>3. Len(h) < MaxHistory => Len(viewer[v].chan) <= Len(h)
    BY <1>1, <2>1 DEF PageInv, Attached, h
  <2>4. Len(h) < MaxHistory /\ Len(h) <= Buffer => IsSuffix(h, Page(v))
    BY <2>1 DEF PageInv, NothingLost, h, Page
  <2>. QED  BY <1>0, <2>2, <2>3, <2>4, PageTyped
<1>9. Attached'
  <2>1. \A v \in Viewers : (viewer[v].ts # None => viewer[v].ts \in Runs /\ Started(viewer[v].ts))'
    <3>1. \A v \in Viewers : viewer'[v].ts # None => viewer'[v].ts \in Runs /\ Started(viewer'[v].ts)
      BY <1>6 DEF PageInv, Attached
    <3>2. \A v \in Viewers : viewer'[v].ts \in Runs /\ Started(viewer'[v].ts)
                                => (viewer[v].ts \in Runs /\ Started(viewer[v].ts))'
      BY <1>3 DEF Started
    <3>. QED  BY <3>1, <3>2
  <2>2. ASSUME NEW v \in Viewers, NEW q \in Runs, viewer'[v].at \in {"streaming", "told_done"},
               viewer'[v].ts = q
        PROVE  /\ stream'[q].done \/ v \in stream'[q].subscribers
               /\ Len(stream'[q].history) < MaxHistory => Len(viewer'[v].chan) <= Len(stream'[q].history)
    <3>1. CASE q = s
      <4>1. v \in stream'[q].subscribers
        BY <1>5, <1>8, <2>2, <3>1
      <4>2. ASSUME Len(stream'[q].history) < MaxHistory
            PROVE  Len(viewer'[v].chan) <= Len(stream'[q].history)
        <5>1. Len(h) < MaxHistory /\ Len(stream'[q].history) = Len(h) + 1
          <6>1. Len(Append(h, e)) = Len(h) + 1
            BY <1>1, <1>5
          <6>. QED  BY <1>5, <3>1, <4>2, <6>1
        <5>2. /\ Len(viewer[v].chan) \in Nat /\ Len(viewer[v].chan) <= Len(h)
              /\ Len(Append(viewer[v].chan, e)) = Len(viewer[v].chan) + 1
          BY <1>1, <1>8, <2>2, <3>1, <5>1
        <5>. QED  BY <1>5, <1>6, <5>1, <5>2, SMTT(40)
      <4>. QED  BY <4>1, <4>2
    <3>2. CASE q # s
      <4>1. viewer[v].at = viewer'[v].at /\ viewer[v].ts = q /\ stream'[q] = stream[q]
        BY <1>5, <1>6, <2>2, <3>2
      <4>2. v \notin stream[s].subscribers
        BY <1>1, <3>2, <4>1 DEF PageInv, IInv, Locked, SubscribersOpen
      <4>3. viewer'[v].chan = viewer[v].chan
        BY <1>6, <4>2
      <4>. QED  BY <2>2, <4>1, <4>3 DEF PageInv, Attached
    <3>. QED  BY <3>1, <3>2
  <2>. QED  BY <2>1, <2>2 DEF Attached
<1>10. NothingLost'
  <2>. SUFFICES ASSUME NEW v \in Viewers, viewer'[v].at \in {"streaming", "told_done"},
                       viewer'[v].ts # None,
                       Len(stream'[viewer'[v].ts].history) < MaxHistory,
                       Len(stream'[viewer'[v].ts].history) <= Buffer
                PROVE  IsSuffix(stream'[viewer'[v].ts].history, Page(v)')
    BY DEF NothingLost, Page
  <2>1. CASE viewer'[v].ts = s
    <3>1. /\ Len(h) < MaxHistory /\ Len(h) + 1 <= Buffer /\ stream'[s].history = Append(h, e)
      <4>1. Len(Append(h, e)) = Len(h) + 1
        BY <1>1, <1>5
      <4>. QED  BY <1>5, <2>1, <4>1
    <3>2. Len(viewer[v].chan) < Buffer /\ v \in stream[s].subscribers
      <4>1. Len(viewer[v].chan) \in Nat /\ Len(viewer[v].chan) <= Len(h)
        BY <1>8, <2>1, <3>1
      <4>. QED  BY <1>5, <1>8, <2>1, <3>1, <4>1
    <3>3. Page(v)' = Append(Page(v), e)
      BY <1>6, <3>2
    <3>4. IsSuffix(h, Page(v))
      BY <1>5, <1>8, <2>1, <3>1
    <3>5. IsSuffix(Append(h, e), Append(Page(v), e))
      BY <1>1, <1>5, <1>8, <2>1, <3>4, SuffixGrows
    <3>. QED  BY <2>1, <3>1, <3>3, <3>5
  <2>2. CASE viewer'[v].ts # s
    <3>1. viewer[v].at = viewer'[v].at /\ viewer[v].ts = viewer'[v].ts /\ viewer[v].ts \in Runs
      BY <1>6 DEF PageInv, Attached
    <3>2. stream'[viewer[v].ts] = stream[viewer[v].ts]
      BY <1>5, <2>2, <3>1
    <3>3. v \notin stream[s].subscribers
      BY <1>1, <2>2, <3>1 DEF PageInv, IInv, Locked, SubscribersOpen
    <3>4. Page(v)' = Page(v)
      BY <1>6, <3>3
    <3>5. IsSuffix(stream[viewer[v].ts].history, Page(v))
      BY <3>1, <3>2 DEF PageInv, NothingLost, Page
    <3>. QED  BY <3>1, <3>2, <3>4, <3>5
  <2>. QED  BY <2>1, <2>2
<1>. QED  BY <1>7, <1>9, <1>10 DEF PageInv

LEMMA InitPageInv == Init => PageInv
<1>. SUFFICES ASSUME Init  PROVE PageInv
  OBVIOUS
<1>1. IInv
  BY InitIInv
<1>2. /\ \A s \in Runs : stream[s].history = <<>>
      /\ \A v \in Viewers : /\ viewer[v].at = "off" /\ viewer[v].ts = None
                            /\ viewer[v].shown = <<>> /\ viewer[v].chan = <<>>
  BY DEF Init
<1>3. <<>> \in Seq(Event) /\ <<>> \o <<>> = <<>> /\ DOMAIN <<>> = {}
  BY ConcatEmptySeq
<1>4. Ordered(<<>>) /\ Past(<<>>, run)
  BY <1>3 DEF Ordered, Past
<1>5. InOrder
  BY <1>2, <1>3, <1>4 DEF InOrder, Page
<1>. QED  BY <1>1, <1>2, <1>5 DEF PageInv, Attached, NothingLost

LEMMA NextPageInv == PageInv /\ [Next]_vars => PageInv'
<1>. SUFFICES ASSUME PageInv, [Next]_vars  PROVE PageInv'
  OBVIOUS
<1>1. IInv'
  BY NextIInv DEF PageInv
<1>2. /\ stream \in [Runs -> Stream] /\ run \in [Runs -> Run] /\ viewer \in [Viewers -> Viewer]
      /\ current \in Runs \cup {None}
  BY DEF PageInv, IInv, TypeOK
<1>3. ASSUME run' = run
      PROVE  Advanced(run, run') /\ \A r \in Runs : Started(r) => Started(r)'
  <2>1. \A r \in Runs : run[r].sent \in Nat
    BY <1>2 DEF Run
  <2>. QED  BY <1>3, <2>1 DEF Advanced, Started
<1>4. ASSUME NEW r \in Runs, Request(r)
      PROVE  PageInv'
  <2>1. /\ run'[r].at = "requested" /\ run'[r].sent = run[r].sent
        /\ \A q \in Runs : q # r => run'[q] = run[q]
        /\ run[r].at = "new" /\ UNCHANGED <<current, stream, viewer, sweeps>>
    BY <1>2, <1>4 DEF Request, Run
  <2>2. Advanced(run, run') /\ \A q \in Runs : Started(q) => Started(q)'
    <3>1. \A q \in Runs : run[q].sent \in Nat
      BY <1>2 DEF Run
    <3>. QED  BY <2>1, <3>1 DEF Advanced, Started
  <2>. QED  BY <1>1, <2>1, <2>2, QuietKept
<1>5. ASSUME NEW r \in Runs, StartStream(r)
      PROVE  PageInv'
  <2>1. /\ run[r].at = "requested" /\ run'[r].at = "working" /\ run'[r].sent = run[r].sent
        /\ \A q \in Runs : q # r => run'[q] = run[q]
    BY <1>2, <1>5 DEF StartStream, Run
  <2>2. Advanced(run, run') /\ \A q \in Runs : Started(q) => Started(q)'
    <3>1. \A q \in Runs : run[q].sent \in Nat
      BY <1>2 DEF Run
    <3>. QED  BY <2>1, <3>1 DEF Advanced, Started
  <2>3. ~Started(r)
    BY <2>1 DEF Started
  <2>4. \A v \in Viewers : /\ viewer'[v].at = viewer[v].at /\ viewer'[v].ts = viewer[v].ts
                           /\ viewer'[v].shown = viewer[v].shown /\ viewer'[v].chan = viewer[v].chan
    <3>1. viewer' = viewer \/ viewer' = ChannelsClosed(stream[current].subscribers)
      BY <1>5 DEF StartStream
    <3>2. CASE viewer' = ChannelsClosed(stream[current].subscribers)
      BY <1>2, <3>2 DEF ChannelsClosed, Viewer
    <3>. QED  BY <3>1, <3>2
  <2>5. \A s \in Runs :
          \/ /\ stream'[s].history = stream[s].history
             /\ stream[s].done => stream'[s].done
             /\ stream'[s].done \/ stream'[s].subscribers = stream[s].subscribers
          \/ stream'[s].history = <<>> /\ ~Started(s)
    <3>1. CASE current = None
      BY <1>2, <1>5, <2>3, <3>1 DEF StartStream, FreshStream
    <3>2. CASE current # None
      <4>1. stream' = [stream EXCEPT ![current] = Ended(@), ![r] = FreshStream] /\ current \in Runs
        BY <1>2, <1>5, <3>2 DEF StartStream
      <4>2. stream'[r].history = <<>>
        BY <1>2, <4>1 DEF FreshStream
      <4>3. \A s \in Runs : s # r => stream'[s] = IF s = current THEN Ended(stream[s]) ELSE stream[s]
        BY <1>2, <4>1
      <4>4. \A s \in Runs : Ended(stream[s]).history = stream[s].history /\ Ended(stream[s]).done
        BY <1>2 DEF Ended, Stream
      <4>. QED  BY <2>3, <4>2, <4>3, <4>4
    <3>. QED  BY <3>1, <3>2
  <2>. QED  BY <1>1, <2>2, <2>4, <2>5, QuietKept
<1>6. ASSUME NEW r \in Runs, LookupToPublish(r) \/ LookupToEnd(r)
      PROVE  PageInv'
  <2>1. /\ run[r].at = "working" /\ UNCHANGED <<current, stream, viewer, sweeps>>
        /\ \A q \in Runs : q # r => run'[q] = run[q]
    BY <1>2, <1>6 DEF LookupToPublish, LookupToEnd
  <2>2. \/ run'[r].sent = run[r].sent + 1 /\ run'[r].at \in {"working", "publishing"}
        \/ run'[r].sent = run[r].sent /\ run'[r].at \in {"ending", "ended"}
    <3>1. CASE LookupToPublish(r)
      BY <1>2, <3>1 DEF LookupToPublish, Run
    <3>2. CASE LookupToEnd(r)
      BY <1>2, <3>2 DEF LookupToEnd, Run
    <3>. QED  BY <1>6, <3>1, <3>2
  <2>3. Advanced(run, run') /\ \A q \in Runs : Started(q) => Started(q)'
    <3>1. \A q \in Runs : run[q].sent \in Nat
      BY <1>2 DEF Run
    <3>. QED  BY <2>1, <2>2, <3>1 DEF Advanced, Started
  <2>. QED  BY <1>1, <2>1, <2>3, QuietKept
<1>7. ASSUME NEW r \in Runs, Publish(r)
      PROVE  PageInv'
  <2>1. CASE ~stream[run[r].ts].done
    BY <1>1, <1>7, <2>1, PublishKept
  <2>2. CASE stream[run[r].ts].done
    <3>1. /\ run' = [run EXCEPT ![r].at = "working", ![r].ts = None]
          /\ run[r].at = "publishing" /\ UNCHANGED <<current, stream, viewer, sweeps>>
      BY <1>7, <2>2 DEF Publish
    <3>2. /\ run'[r].at = "working" /\ run'[r].sent = run[r].sent
          /\ \A q \in Runs : q # r => run'[q] = run[q]
      BY <1>2, <3>1 DEF Run
    <3>3. Advanced(run, run') /\ \A q \in Runs : Started(q) => Started(q)'
      <4>1. \A q \in Runs : run[q].sent \in Nat
        BY <1>2 DEF Run
      <4>2. /\ \A q \in Runs : run'[q].sent = run[q].sent
            /\ \A q \in Runs : q = r \/ run'[q].at = run[q].at
        BY <3>2
      <4>3. Advanced(run, run')
        BY <3>2, <4>1, <4>2 DEF Advanced
      <4>. QED  BY <3>2, <4>2, <4>3 DEF Started
    <3>. QED  BY <1>1, <3>1, <3>3, QuietKept
  <2>. QED  BY <2>1, <2>2
<1>8. ASSUME NEW r \in Runs, EndStream(r)
      PROVE  PageInv'
  <2>. DEFINE s == run[r].ts
  <2>1. /\ run[r].at = "ending" /\ s \in Runs
        /\ run' = [run EXCEPT ![r].at = "ended", ![r].ts = None]
        /\ stream' = [stream EXCEPT ![s] = Ended(@)]
        /\ viewer' = ChannelsClosed(stream[s].subscribers)
    BY <1>8 DEF EndStream, PageInv, IInv, Locked, Lookups
  <2>2. /\ run'[r].at = "ended" /\ run'[r].sent = run[r].sent
        /\ \A q \in Runs : q # r => run'[q] = run[q]
    BY <1>2, <2>1 DEF Run
  <2>3. Advanced(run, run') /\ \A q \in Runs : Started(q) => Started(q)'
    <3>1. \A q \in Runs : run[q].sent \in Nat
      BY <1>2 DEF Run
    <3>2. /\ \A q \in Runs : run'[q].sent = run[q].sent
          /\ \A q \in Runs : q = r \/ run'[q].at = run[q].at
      BY <2>2
    <3>3. Advanced(run, run')
      BY <2>2, <3>1, <3>2 DEF Advanced
    <3>. QED  BY <2>2, <3>2, <3>3 DEF Started
  <2>4. \A v \in Viewers : /\ viewer'[v].at = viewer[v].at /\ viewer'[v].ts = viewer[v].ts
                           /\ viewer'[v].shown = viewer[v].shown /\ viewer'[v].chan = viewer[v].chan
    BY <1>2, <2>1 DEF ChannelsClosed, Viewer
  <2>5. \A q \in Runs : /\ stream'[q].history = stream[q].history
                        /\ stream[q].done => stream'[q].done
                        /\ stream'[q].done \/ stream'[q].subscribers = stream[q].subscribers
    <3>1. \A q \in Runs : stream'[q] = IF q = s THEN Ended(stream[q]) ELSE stream[q]
      BY <1>2, <2>1
    <3>2. \A q \in Runs : Ended(stream[q]).history = stream[q].history /\ Ended(stream[q]).done
      BY <1>2 DEF Ended, Stream
    <3>. QED  BY <3>1, <3>2
  <2>. QED  BY <1>1, <2>3, <2>4, <2>5, QuietKept
<1>9. ASSUME NEW s \in Runs, Sweep(s)
      PROVE  PageInv'
  BY <1>1, <1>3, <1>9, QuietKept DEF Sweep
<1>10. CASE UNCHANGED vars
  BY <1>1, <1>3, <1>10, QuietKept DEF vars
<1>. QED
  BY <1>1, <1>4, <1>5, <1>6, <1>7, <1>8, <1>9, <1>10, ConnectKept, SubscribeKept, ReceiveKept,
     LeaveKept DEF Next, RunStep, HandlerStep

\* However runs, viewers and clean-ups overlap, a page shows the events of a run
\* in order and none twice, and while the stream is no longer than a channel
\* holds, without a gap (Publish, Subscribe's replay, sseReducer).
THEOREM PagesFaithful == Spec => []ShownFaithfully
<1>1. PageInv => ShownFaithfully
  BY DEF PageInv, InOrder, Ordered, Page, ShownInOrder, ShownFaithfully
<1>. QED  BY <1>1, InitPageInv, NextPageInv, PTL DEF Spec
-----------------------------------------------------------------------------
(* Runs that follow one another.                                           *)

AtMostOne == \A q, r \in Runs : UnderWay(q) /\ UnderWay(r) => q = r

SerialInv == ~overlapped => AtMostOne /\ RunKeepsStream

LEMMA NextSerialInv == IInv /\ SerialInv /\ [MCNext]_<<vars, overlapped>> => SerialInv'
<1>. SUFFICES ASSUME IInv, SerialInv, [MCNext]_<<vars, overlapped>>, ~overlapped'
              PROVE  AtMostOne' /\ RunKeepsStream'
  BY DEF SerialInv
<1>0. /\ stream \in [Runs -> Stream] /\ run \in [Runs -> Run]
      /\ current \in Runs \cup {None}
  BY DEF IInv, TypeOK
<1>1. CASE UNCHANGED <<vars, overlapped>>
  BY <1>1 DEF vars, SerialInv, AtMostOne, UnderWay, RunKeepsStream
<1>2. CASE MCNext
  <2>1. ~overlapped /\ AtMostOne' /\ AtMostOne /\ RunKeepsStream
    BY <1>2 DEF MCNext, SerialInv, AtMostOne
  <2>2. ASSUME run' = run, current' = current,
               \A s \in Runs : stream'[s].done = stream[s].done
        PROVE  RunKeepsStream'
    BY <2>1, <2>2 DEF RunKeepsStream
  <2>3. ASSUME NEW r \in Runs, Request(r)
        PROVE  RunKeepsStream'
    <3>1. /\ run'[r].at = "requested" /\ \A q \in Runs : q # r => run'[q] = run[q]
          /\ UNCHANGED <<current, stream>>
      BY <1>0, <2>3 DEF Request, Run
    <3>. QED  BY <2>1, <3>1 DEF RunKeepsStream
  <2>4. ASSUME NEW r \in Runs, StartStream(r)
        PROVE  RunKeepsStream'
    <3>1. run'[r].at = "working" /\ current' = r
      BY <1>0, <2>4 DEF StartStream, Run
    <3>2. ~stream'[r].done
      BY <1>0, <2>4 DEF StartStream, FreshStream
    <3>3. \A q \in Runs : run'[q].at \in {"working", "publishing", "ending"} => q = r
      BY <2>1, <3>1 DEF AtMostOne, UnderWay
    <3>. QED  BY <3>1, <3>2, <3>3 DEF RunKeepsStream
  <2>5. ASSUME NEW r \in Runs, LookupToPublish(r) \/ LookupToEnd(r) \/ Publish(r)
        PROVE  RunKeepsStream'
    <3>1. /\ run[r].at \in {"working", "publishing"} /\ current' = current
          /\ \A q \in Runs : q # r => run'[q] = run[q]
      BY <1>0, <2>5 DEF LookupToPublish, LookupToEnd, Publish
    <3>2. current = r /\ ~stream[r].done /\ current # None
      BY <2>1, <3>1, NoneAssumption DEF RunKeepsStream
    <3>3. run'[r].at # "working" => run'[r].ts = r
      BY <1>0, <2>5, <3>2 DEF LookupToPublish, LookupToEnd, Publish, Run
    <3>4. \A s \in Runs : stream'[s].done = stream[s].done
      <4>1. CASE Publish(r)
        <5>1. run[r].ts \in Runs
          BY <4>1 DEF Publish, IInv, Locked, Lookups
        <5>2. \A e : \A s \in Runs : Recorded(stream[s], e).done = stream[s].done
          BY <1>0 DEF Recorded, Stream
        <5>3. \/ stream' = stream
              \/ \E e : stream' = [stream EXCEPT ![run[r].ts] = Recorded(@, e)]
          BY <4>1 DEF Publish
        <5>. QED  BY <1>0, <5>1, <5>2, <5>3
      <4>2. CASE LookupToPublish(r) \/ LookupToEnd(r)
        BY <4>2 DEF LookupToPublish, LookupToEnd
      <4>. QED  BY <2>5, <4>1, <4>2
    <3>. QED  BY <2>1, <3>1, <3>2, <3>3, <3>4 DEF RunKeepsStream
  <2>6. ASSUME NEW r \in Runs, EndStream(r)
        PROVE  RunKeepsStream'
    <3>1. run'[r].at = "ended" /\ run[r].at = "ending" /\ \A q \in Runs : q # r => run'[q] = run[q]
      BY <1>0, <2>6 DEF EndStream, Run
    <3>2. \A q \in Runs : run'[q].at \notin {"working", "publishing", "ending"}
      BY <2>1, <3>1 DEF AtMostOne, UnderWay
    <3>. QED  BY <3>2 DEF RunKeepsStream
  <2>7. ASSUME NEW s \in Runs, Sweep(s)
        PROVE  RunKeepsStream'
    <3>1. stream[s].done /\ UNCHANGED <<stream, run, viewer>>
          /\ (current' = current \/ current = s)
      BY <2>7 DEF Sweep, StillCurrent, IInv, Locked, OnlyStarted
    <3>. QED  BY <2>1, <3>1 DEF RunKeepsStream
  <2>8. ASSUME NEW v \in Viewers, Connect(v) \/ Receive(v)
        PROVE  RunKeepsStream'
    BY <2>2, <2>8 DEF Connect, Receive
  <2>9. ASSUME NEW v \in Viewers, Subscribe(v)
        PROVE  RunKeepsStream'
    <3>1. viewer[v].ts \in Runs
      BY <2>9 DEF Subscribe, IInv, Locked, Lookups
    <3>2. \A s \in Runs : stream'[s].done = stream[s].done
      BY <1>0, <2>9, <3>1 DEF Subscribe, Stream
    <3>. QED  BY <2>2, <2>9, <3>2 DEF Subscribe
  <2>10. ASSUME NEW v \in Viewers, TellDone(v) \/ Lose(v) \/ TurnOff(v)
         PROVE  RunKeepsStream'
    <3>1. stream' = Unsubscribed(v) /\ run' = run /\ current' = current
      BY <2>10 DEF TellDone, Lose, TurnOff
    <3>2. \A s \in Runs : stream'[s].done = stream[s].done
      BY <1>0, <3>1 DEF Unsubscribed, Stream
    <3>. QED  BY <2>2, <3>1, <3>2
  <2>. QED
    BY <1>2, <2>1, <2>3, <2>4, <2>5, <2>6, <2>7, <2>8, <2>9, <2>10
       DEF MCNext, Next, RunStep, HandlerStep
<1>. QED  BY <1>1, <1>2

\* As long as no run is asked for before the one it follows has ended, a run
\* keeps the stream it started until it ends it itself, whatever clean-ups of
\* earlier streams are still pending (StartStream, EndStream).
THEOREM SerialRunsKeepStreams == MCSpec => []SerialRunKeepsStream
<1>1. MCInit => IInv /\ SerialInv
  <2>1. ASSUME MCInit  PROVE IInv
    BY <2>1, InitIInv DEF MCInit
  <2>2. ASSUME MCInit  PROVE SerialInv
    BY <2>2 DEF MCInit, Init, SerialInv, AtMostOne, UnderWay, RunKeepsStream
  <2>. QED  BY <2>1, <2>2
<1>2. IInv /\ SerialInv /\ [MCNext]_<<vars, overlapped>> => (IInv /\ SerialInv)'
  <2>1. [MCNext]_<<vars, overlapped>> => [Next]_vars
    BY DEF MCNext
  <2>. QED  BY <2>1, NextIInv, NextSerialInv
<1>3. SerialInv => SerialRunKeepsStream
  BY DEF SerialInv, SerialRunKeepsStream
<1>. QED  BY <1>1, <1>2, <1>3, PTL DEF MCSpec
-----------------------------------------------------------------------------
(* The safety half of EveryViewerReleased and StreamsForgotten.            *)

\* Someone is still to clean the stream up: its goroutine sleeps, its run has not
\* come to its end, or some run is about to end it.
Owed(s) ==
    \/ s \in sweeps
    \/ run[s].at \in {"working", "publishing"}
    \/ \E r \in Runs : run[r].at = "ending" /\ run[r].ts = s

StreamIsOwed == current # None => Owed(current)

\* An open channel is registered with the stream of its connection.
OpenIsKnown ==
    \A v \in Viewers : viewer[v].open =>
        viewer[v].ts \in Runs /\ v \in stream[viewer[v].ts].subscribers

WaitInv == IInv /\ StreamIsOwed /\ OpenIsKnown

\* No handler waits on a channel that nobody will close, and no stream stays in
\* the map without somebody who will take it out.
WaitsAreOwed ==
    /\ current # None => Owed(current)
    /\ \A v \in Viewers : viewer[v].open => current = viewer[v].ts /\ Owed(current)

LEMMA StreamOwedKept ==
    ASSUME IInv, StreamIsOwed, Next
    PROVE  StreamIsOwed'
<1>0. /\ run \in [Runs -> Run] /\ current \in Runs \cup {None} /\ sweeps \subseteq Runs
      /\ None \notin Runs
  BY NoneAssumption DEF IInv, TypeOK
<1>. SUFFICES ASSUME current' # None  PROVE Owed(current)'
  BY DEF StreamIsOwed
<1>1. ASSUME UNCHANGED <<current, run, sweeps>>
      PROVE  Owed(current)'
  BY <1>1 DEF StreamIsOwed, Owed
<1>2. ASSUME NEW r \in Runs, Request(r)
      PROVE  Owed(current)'
  <2>1. /\ current' = current /\ sweeps' = sweeps /\ run[r].at = "new"
        /\ \A q \in Runs : q # r => run'[q] = run[q]
    BY <1>0, <1>2 DEF Request
  <2>2. current \in Runs /\ Owed(current)
    BY <1>0, <2>1 DEF StreamIsOwed
  <2>. QED  BY <2>1, <2>2 DEF Owed
<1>3. ASSUME NEW r \in Runs, StartStream(r)
      PROVE  Owed(current)'
  BY <1>0, <1>3 DEF StartStream, Owed, Run
<1>4. ASSUME NEW r \in Runs, LookupToPublish(r) \/ Publish(r)
      PROVE  Owed(current)'
  <2>1. /\ current' = current /\ sweeps' = sweeps
        /\ run[r].at \in {"working", "publishing"} /\ run'[r].at \in {"working", "publishing"}
        /\ \A q \in Runs : q # r => run'[q] = run[q]
    BY <1>0, <1>4 DEF LookupToPublish, Publish, Run
  <2>2. current \in Runs /\ Owed(current)
    BY <1>0, <2>1 DEF StreamIsOwed
  <2>. QED  BY <2>1, <2>2 DEF Owed
<1>5. ASSUME NEW r \in Runs, LookupToEnd(r)
      PROVE  Owed(current)'
  <2>1. /\ current' = current /\ sweeps' = sweeps /\ run[r].at = "working"
        /\ run'[r].at = "ending" /\ run'[r].ts = current
    BY <1>0, <1>5 DEF LookupToEnd, Run
  <2>. QED  BY <2>1 DEF Owed
<1>6. ASSUME NEW r \in Runs, EndStream(r)
      PROVE  Owed(current)'
  <2>1. /\ current' = current /\ sweeps' = sweeps \cup {run[r].ts} /\ run[r].at = "ending"
        /\ \A q \in Runs : q # r => run'[q] = run[q]
    BY <1>0, <1>6 DEF EndStream, Scheduled
  <2>2. current \in Runs /\ Owed(current)
    BY <1>0, <2>1 DEF StreamIsOwed
  <2>3. CASE run[r].ts = current
    BY <2>1, <2>3 DEF Owed
  <2>4. CASE run[r].ts # current
    BY <2>1, <2>2, <2>4 DEF Owed
  <2>. QED  BY <2>3, <2>4
<1>7. ASSUME NEW s \in Runs, Sweep(s)
      PROVE  Owed(current)'
  <2>1. current' = current /\ s # current /\ sweeps' = sweeps \ {s} /\ run' = run
    BY <1>7 DEF Sweep, StillCurrent
  <2>2. current \in Runs /\ Owed(current)
    BY <1>0, <2>1 DEF StreamIsOwed
  <2>. QED  BY <2>1, <2>2 DEF Owed
<1>8. ASSUME NEW v \in Viewers,
             Connect(v) \/ Subscribe(v) \/ Receive(v) \/ TellDone(v) \/ Lose(v) \/ TurnOff(v)
      PROVE  UNCHANGED <<current, run, sweeps>>
  BY <1>8 DEF Connect, Subscribe, Receive, TellDone, Lose, TurnOff
<1>. QED
  BY <1>1, <1>2, <1>3, <1>4, <1>5, <1>6, <1>7, <1>8 DEF Next, RunStep, HandlerStep

LEMMA OpenKnownKept ==
    ASSUME IInv, OpenIsKnown, Next
    PROVE  OpenIsKnown'
<1>0. /\ stream \in [Runs -> Stream] /\ viewer \in [Viewers -> Viewer]
      /\ current \in Runs \cup {None} /\ None \notin Runs
      /\ \A w \in Viewers : viewer[w].open => viewer[w].at = "streaming"
  BY NoneAssumption DEF IInv, TypeOK, Locked, SubscribersOpen, OpenIsKnown
\* Nobody's channel or stream changes.
<1>1. ASSUME \A w \in Viewers : viewer'[w].open => viewer[w].open /\ viewer'[w].ts = viewer[w].ts,
             \A w \in Viewers, s \in Runs :
                viewer'[w].open /\ w \in stream[s].subscribers => w \in stream'[s].subscribers
      PROVE  OpenIsKnown'
  BY <1>1 DEF OpenIsKnown
<1>2. ASSUME NEW r \in Runs, Request(r) \/ LookupToPublish(r) \/ LookupToEnd(r) \/ Sweep(r)
      PROVE  OpenIsKnown'
  BY <1>2 DEF OpenIsKnown, Request, LookupToPublish, LookupToEnd, Sweep
<1>3. ASSUME NEW r \in Runs, StartStream(r)
      PROVE  OpenIsKnown'
  <2>1. run[r].at = "requested" /\ current # r
    BY <1>3, NoneAssumption DEF StartStream, IInv, Locked, OnlyStarted, Started
  \* Before the start only the current stream has subscribers.
  <2>2. \A w \in Viewers : viewer[w].open => current \in Runs /\ w \in stream[current].subscribers
    BY DEF OpenIsKnown, IInv, Locked, LiveIsCurrent, DoneIsEmpty
  <2>3. \A w \in Viewers : ~viewer'[w].open
    <3>1. CASE current = None
      BY <1>0, <1>3, <2>2, <3>1 DEF StartStream
    <3>2. CASE current # None
      <4>1. viewer' = ChannelsClosed(stream[current].subscribers)
        BY <1>3, <3>2 DEF StartStream
      <4>. QED  BY <1>0, <2>2, <4>1 DEF ChannelsClosed, Viewer
    <3>. QED  BY <3>1, <3>2
  <2>. QED  BY <2>3 DEF OpenIsKnown
<1>4. ASSUME NEW r \in Runs, EndStream(r)
      PROVE  OpenIsKnown'
  <2>. DEFINE s == run[r].ts
  <2>1. /\ stream' = [stream EXCEPT ![s] = Ended(@)] /\ viewer' = ChannelsClosed(stream[s].subscribers)
    BY <1>4 DEF EndStream
  <2>2. \A w \in Viewers :
           /\ w \in stream[s].subscribers => ~viewer'[w].open
           /\ w \notin stream[s].subscribers => viewer'[w] = viewer[w]
    BY <1>0, <2>1 DEF ChannelsClosed, Viewer
  <2>3. \A q \in Runs : q # s => stream'[q] = stream[q]
    BY <1>0, <2>1
  <2>. HIDE DEF s
  <2>. QED  BY <1>1, <2>2, <2>3
<1>5. ASSUME NEW r \in Runs, Publish(r)
      PROVE  OpenIsKnown'
  <2>. DEFINE s == run[r].ts
              e == [by |-> r, n |-> run[r].sent]
  <2>1. CASE stream[s].done
    BY <1>5, <2>1 DEF Publish, OpenIsKnown
  <2>2. CASE ~stream[s].done
    <3>1. /\ stream' = [stream EXCEPT ![s] = Recorded(@, e)]
          /\ viewer' = [v \in Viewers |-> IF v \in stream[s].subscribers THEN Offered(v, e) ELSE viewer[v]]
      BY <1>5, <2>2 DEF Publish
    <3>2. \A q \in Runs : Recorded(stream[q], e).subscribers = stream[q].subscribers
      BY <1>0 DEF Recorded, Stream
    <3>3. \A q \in Runs : stream'[q].subscribers = stream[q].subscribers
      BY <1>0, <3>1, <3>2
    <3>4. \A w \in Viewers : Offered(w, e).open = viewer[w].open /\ Offered(w, e).ts = viewer[w].ts
      BY <1>0 DEF Offered, Viewer
    <3>5. \A w \in Viewers : viewer'[w].open = viewer[w].open /\ viewer'[w].ts = viewer[w].ts
      BY <3>1, <3>4
    <3>. QED  BY <1>1, <3>3, <3>5
  <2>. QED  BY <2>1, <2>2
<1>6. ASSUME NEW v \in Viewers, Connect(v) \/ Receive(v)
      PROVE  OpenIsKnown'
  <2>1. \A w \in Viewers : w # v => viewer'[w] = viewer[w]
    BY <1>0, <1>6 DEF Connect, Receive
  <2>2. viewer'[v].open => viewer[v].open /\ viewer'[v].ts = viewer[v].ts
    <3>1. CASE Connect(v)
      BY <1>0, <3>1 DEF Connect, Viewer
    <3>2. CASE Receive(v)
      BY <1>0, <3>2 DEF Receive, Viewer
    <3>. QED  BY <1>6, <3>1, <3>2
  <2>3. stream' = stream
    BY <1>6 DEF Connect, Receive
  <2>. QED  BY <1>1, <2>1, <2>2, <2>3
<1>7. ASSUME NEW v \in Viewers, Subscribe(v)
      PROVE  OpenIsKnown'
  <2>. DEFINE s == viewer[v].ts
  <2>1. /\ s \in Runs
        /\ \A w \in Viewers : w # v => viewer'[w] = viewer[w]
        /\ viewer'[v].ts = s /\ viewer'[v].open = ~stream[s].done
    BY <1>0, <1>7 DEF Subscribe, Closed, Viewer, IInv, Locked, Lookups
  <2>2. /\ \A q \in Runs : stream[q].subscribers \subseteq stream'[q].subscribers
        /\ ~stream[s].done => v \in stream'[s].subscribers
    BY <1>0, <1>7, <2>1 DEF Subscribe, Closed, Stream
  <2>. HIDE DEF s
  <2>. QED  BY <2>1, <2>2 DEF OpenIsKnown
<1>8. ASSUME NEW v \in Viewers, TellDone(v) \/ Lose(v) \/ TurnOff(v)
      PROVE  OpenIsKnown'
  <2>1. ~viewer'[v].open /\ \A w \in Viewers : w # v => viewer'[w] = viewer[w]
    <3>1. CASE TellDone(v)
      BY <1>0, <3>1 DEF TellDone, Viewer
    <3>2. CASE Lose(v)
      BY <1>0, <3>2 DEF Lose, Viewer
    <3>3. CASE TurnOff(v)
      BY <1>0, <3>3 DEF TurnOff, Viewer
    <3>. QED  BY <1>8, <3>1, <3>2, <3>3
  <2>2. \A q \in Runs : stream[q].subscribers \ {v} \subseteq stream'[q].subscribers
    BY <1>0, <1>8 DEF TellDone, Lose, TurnOff, Unsubscribed, Stream
  <2>. QED  BY <1>1, <2>1, <2>2
<1>. QED
  BY <1>2, <1>3, <1>4, <1>5, <1>6, <1>7, <1>8 DEF Next, RunStep, HandlerStep

\* However runs, viewers and clean-ups overlap, no connection waits on a channel
\* that nobody is left to close, and no stream outlives everybody who would take
\* it out of the map (Subscribe, StartStream, EndStream and its goroutine).
THEOREM NobodyWaitsInVain == Spec => []WaitsAreOwed
<1>1. Init => WaitInv
  BY InitIInv DEF Init, WaitInv, StreamIsOwed, OpenIsKnown
<1>2. WaitInv /\ [Next]_vars => WaitInv'
  <2>. SUFFICES ASSUME WaitInv, [Next]_vars  PROVE WaitInv'
    OBVIOUS
  <2>1. IInv'
    BY NextIInv DEF WaitInv
  <2>2. UNCHANGED vars => StreamIsOwed' /\ OpenIsKnown'
    BY DEF vars, WaitInv, StreamIsOwed, Owed, OpenIsKnown
  <2>. QED  BY <2>1, <2>2, StreamOwedKept, OpenKnownKept DEF WaitInv
<1>3. WaitInv => WaitsAreOwed
  <2>. SUFFICES ASSUME WaitInv  PROVE WaitsAreOwed
    OBVIOUS
  <2>1. ASSUME NEW v \in Viewers, viewer[v].open
        PROVE  current = viewer[v].ts /\ current # None
    BY <2>1, NoneAssumption DEF WaitInv, OpenIsKnown, IInv, Locked, LiveIsCurrent, DoneIsEmpty
  <2>. QED  BY <2>1 DEF WaitInv, StreamIsOwed, WaitsAreOwed
<1>. QED  BY <1>1, <1>2, <1>3, PTL DEF Spec
=============================================================================
