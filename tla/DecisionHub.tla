----------------------------- MODULE DecisionHub -----------------------------
\* The decision stream's hub (internal/daemon/hub.go) and the handler of one
\* stream_decisions call (Stream in internal/daemon/rpc.go). Every operation of
\* the hub runs under its lock. A subscription is made once and never reused.
EXTENDS Integers, Sequences, FiniteSets

CONSTANTS
  Subscribers, \* the stream_decisions calls
  HubCap       \* the room of a subscriber's channel

ASSUME HubCapAssumption == HubCap \in Nat \ {0}

VARIABLE subs \* each subscriber: its place in the hub's map, its channel, its handler

\* A decision in a channel is its place among those published for the
\* subscriber: offered is the last of them, sent the last its handler sent, and
\* closes counts the closings of the channel.
Absent == [registered |-> FALSE, queue |-> <<>>, offered |-> 0, sent |-> 0, closes |-> 0, handler |-> "none"]

HubInit == subs = [c \in Subscribers |-> Absent]

Subscribe(c) ==
  /\ subs[c].handler = "none"
  /\ subs' = [subs EXCEPT ![c].registered = TRUE, ![c].handler = "running"]

\* The channel is closed whether or not it already was.
DroppedAgain(s) == [s EXCEPT !.registered = FALSE, !.closes = @ + 1]

\* Out of the map, and the channel closed unless it already was.
Dropped(s) == IF s.registered THEN [s EXCEPT !.registered = FALSE, !.closes = @ + 1] ELSE s

\* A decision a full channel has no room for is skipped.
OfferSkips(s) ==
  IF Len(s.queue) < HubCap
  THEN [s EXCEPT !.queue = Append(@, s.offered + 1), !.offered = @ + 1]
  ELSE [s EXCEPT !.offered = @ + 1]

\* publish: a subscriber whose channel is full is dropped.
Offer(s) ==
  IF Len(s.queue) < HubCap
  THEN [s EXCEPT !.queue = Append(@, s.offered + 1), !.offered = @ + 1]
  ELSE [Dropped(s) EXCEPT !.offered = @ + 1]

\* accepting: those whose accept takes the decision, by the session asked for
\* or by what the caller may see at that moment.
Publish(accepting) ==
  subs' = [c \in Subscribers |->
             IF subs[c].registered /\ c \in accepting THEN Offer(subs[c]) ELSE subs[c]]

CloseAll == subs' = [c \in Subscribers |-> Dropped(subs[c])]

Unsubscribed(c) == [Absent EXCEPT !.handler = "done", !.closes = Dropped(subs[c]).closes]

Send(c) ==
  /\ subs[c].handler = "running" /\ subs[c].queue # <<>>
  /\ subs' = [subs EXCEPT ![c].queue = Tail(@), ![c].sent = Head(subs[c].queue)]

\* The handler returns when its channel is closed and empty, when its caller
\* has gone (whatever it was about to send is not sent), or on a shutdown.
HandlerReturns(c) ==
  /\ subs[c].handler = "running"
  /\ subs' = [subs EXCEPT ![c] = Unsubscribed(c)]
=============================================================================
