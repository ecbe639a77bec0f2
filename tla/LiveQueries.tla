------------------------------ MODULE LiveQueries ------------------------------
(***************************************************************************)
(* How the service shares one standing query between the clients that      *)
(* follow it: service.js keeps a map of channels by query id, replica.js   *)
(* a map of subscriptions by query, and both are BroadcastStreams          *)
(* (src/replica/sync.js) that live while they have ports.                  *)
(*                                                                         *)
(* One query, followed by several requests.  A request that finds no       *)
(* channel loads the query, which takes time, and then makes a channel; it *)
(* also makes the evaluation (the replica's subscription) unless there is  *)
(* one.  Channels and evaluations are named by the request that made them. *)
(* A selection is its position in the output of its evaluation.            *)
(***************************************************************************)
EXTENDS Integers, Sequences, FiniteSets

CONSTANTS
  Clients,         \* number of requests that follow the query
  MaxSelections    \* bound on the selections an evaluation produces

ASSUME QueriesAssumption == Clients \in Nat /\ MaxSelections \in Nat

VARIABLES
  sessions,        \* Service.subscriptions: the channel under the query's id
  subscriptions,   \* Replica.subscriptions: the evaluation under its key
  chans,           \* the channels, forked for the clients
  evals,           \* the evaluations, forked for the channels
  upstream,        \* upstream[c]: the evaluation that feeds channel c
  link,            \* link[c]: the selections on their way from it to c
  linked,          \* how the pipe between the two stands
  phase,           \* where a request stands
  conn,            \* conn[r]: the channel the response of r is a fork of
  inbox            \* inbox[r]: the selections put into the response, until it ends

maps == <<sessions, subscriptions>>
pipes == <<upstream, link, linked>>
clients == <<phase, conn, inbox>>
vars == <<maps, chans, evals, pipes, clients>>

Requests == 1 .. Clients   \* numbered as they arrive
None == 0                  \* a map without an entry
Selections == 1 .. MaxSelections

(* BroadcastStream: its forks, its last chunk, whether its source still runs
   (state), whether its poll loop still does, and its closed promise with the
   handler that takes the stream out of its map. *)
Streams == [state : {"unused", "live", "dead"}, polling : BOOLEAN,
            ports : SUBSET Requests, last : Selections \cup {0},
            closed : {"pending", "resolved", "handled"}]

NoStream == [state |-> "unused", polling |-> FALSE, ports |-> {}, last |-> 0,
             closed |-> "pending"]

TypeOK ==
  /\ sessions \in Requests \cup {None} /\ subscriptions \in Requests \cup {None}
  /\ chans \in [Requests -> Streams] /\ evals \in [Requests -> Streams]
  /\ upstream \in [Requests -> Requests \cup {None}]
  /\ link \in [Requests -> Seq(Selections)]
  /\ linked \in [Requests -> {"none", "open", "ended", "cancelled"}]
  /\ phase \in [Requests -> {"new", "loading", "following", "gone"}]
  /\ conn \in [Requests -> Requests \cup {None}]
  /\ inbox \in [Requests -> Seq(Selections)]
  /\ \A r \in Requests : \A c \in Requests :
       r \in chans[c].ports => phase[r] = "following" /\ conn[r] = c
  /\ \A c \in Requests : \A e \in Requests :
       c \in evals[e].ports => linked[c] \in {"open", "cancelled"} /\ upstream[c] = e

Init ==
  /\ sessions = None /\ subscriptions = None
  /\ chans = [c \in Requests |-> NoStream]
  /\ evals = [e \in Requests |-> NoStream]
  /\ upstream = [c \in Requests |-> None]
  /\ link = [c \in Requests |-> <<>>]
  /\ linked = [c \in Requests |-> "none"]
  /\ phase = [r \in Requests |-> "new"]
  /\ conn = [r \in Requests |-> None]
  /\ inbox = [r \in Requests |-> <<>>]

-----------------------------------------------------------------------------
(* BroadcastStream's operations.  A new stream polls its source at once. *)
Opened == [NoStream EXCEPT !.state = "live", !.polling = TRUE]

(* Deviation: a port gets the last chunk but is not kept. *)
ConnectOnce(stream, port) == stream

Connect(stream, port) == [stream EXCEPT !.ports = @ \cup {port}]

Replay(stream) == IF stream.last = 0 THEN <<>> ELSE <<stream.last>>

Abort(stream) ==
  [stream EXCEPT !.state = "dead", !.ports = {},
                 !.closed = IF @ = "pending" THEN "resolved" ELSE @]

Close(stream) == [Abort(stream) EXCEPT !.polling = FALSE]

(* Deviation: the stream outlives its last fork. *)
DisconnectOnly(stream, port) == [stream EXCEPT !.ports = @ \ {port}]

(* Without ports the stream aborts. *)
Disconnect(stream, port) ==
  IF stream.ports \subseteq {port} THEN Abort(stream)
  ELSE [stream EXCEPT !.ports = @ \ {port}]

Pushed(queues, ports, chunk) ==
  [p \in Requests |-> IF p \in ports THEN Append(queues[p], chunk) ELSE queues[p]]

-----------------------------------------------------------------------------
Arrives(r) == phase[r] = "new" /\ \A q \in 1 .. r - 1 : phase[q] # "new"

(* subscribe finds a channel: the response is one more fork of it. *)
Join(r) ==
  /\ Arrives(r) /\ sessions # None
  /\ chans' = [chans EXCEPT ![sessions] = Connect(@, r)]
  /\ phase' = [phase EXCEPT ![r] = "following"]
  /\ conn' = [conn EXCEPT ![r] = sessions]
  /\ inbox' = [inbox EXCEPT ![r] = Replay(chans[sessions])]
  /\ UNCHANGED <<maps, evals, pipes>>

(* It finds none: the query is read from the source. *)
Miss(r) ==
  /\ Arrives(r) /\ sessions = None
  /\ phase' = [phase EXCEPT ![r] = "loading"]
  /\ UNCHANGED <<maps, chans, evals, pipes, conn, inbox>>

(* The source has no such query, or the read fails. *)
NotFound(r) ==
  /\ phase[r] = "loading"
  /\ phase' = [phase EXCEPT ![r] = "gone"]
  /\ UNCHANGED <<maps, chans, evals, pipes, conn, inbox>>

(* The channel of r, its pipe from evaluation e, and its first fork. *)
Attach(r, e, evaluation) ==
  /\ phase[r] = "loading"
  /\ evals' = [evals EXCEPT ![e] = Connect(evaluation, r)]
  /\ subscriptions' = e
  /\ upstream' = [upstream EXCEPT ![r] = e]
  /\ link' = [link EXCEPT ![r] = Replay(evaluation)]
  /\ linked' = [linked EXCEPT ![r] = "open"]
  /\ chans' = [chans EXCEPT ![r] = Connect(Opened, r)]
  /\ sessions' = r
  /\ phase' = [phase EXCEPT ![r] = "following"]
  /\ conn' = [conn EXCEPT ![r] = r]
  /\ UNCHANGED inbox

(* Deviation: the replica does not look for a subscription of the query. *)
LoadAfresh(r) == Attach(r, r, Opened)

(* The query is there: replica.subscribe finds or makes the evaluation, and
   the channel replaces whatever the map holds by now. *)
Load(r) ==
  IF subscriptions # None THEN Attach(r, subscriptions, evals[subscriptions])
  ELSE Attach(r, r, Opened)

-----------------------------------------------------------------------------
(* The query selects something new. *)
Produce(e) ==
  /\ evals[e].state = "live" /\ evals[e].last < MaxSelections
  /\ evals' = [evals EXCEPT ![e].last = @ + 1]
  /\ link' = Pushed(link, evals[e].ports, evals[e].last + 1)
  /\ UNCHANGED <<maps, chans, upstream, linked, clients>>

(* Deviation: the chunk is written, but not kept for later forks. *)
ForwardUnkept(c) ==
  /\ chans[c].state = "live" /\ link[c] # <<>>
  /\ link' = [link EXCEPT ![c] = Tail(@)]
  /\ chans' = [chans EXCEPT ![c].last = IF @ = 0 THEN Head(link[c]) ELSE @]
  /\ inbox' = Pushed(inbox, chans[c].ports, Head(link[c]))
  /\ UNCHANGED <<maps, evals, upstream, linked, phase, conn>>

(* The channel reads a selection and writes it to its forks. *)
Forward(c) ==
  /\ chans[c].state = "live" /\ link[c] # <<>>
  /\ link' = [link EXCEPT ![c] = Tail(@)]
  /\ chans' = [chans EXCEPT ![c].last = Head(link[c])]
  /\ inbox' = Pushed(inbox, chans[c].ports, Head(link[c]))
  /\ UNCHANGED <<maps, evals, upstream, linked, phase, conn>>

(* The poll loop of an evaluation sees its source end, because the query
   failed or because the stream was aborted, and closes the ports. *)
PortsEnd(e) ==
  /\ evals[e].polling
  /\ evals' = [evals EXCEPT ![e] = Close(@)]
  /\ linked' = [c \in Requests |->
                  IF c \notin evals[e].ports THEN linked[c]
                  ELSE IF linked[c] = "open" THEN "ended" ELSE "none"]
  /\ UNCHANGED <<maps, chans, upstream, link, clients>>

SourceEnds(e) == evals[e].state = "live" /\ PortsEnd(e)
UnwindEval(e) == evals[e].state = "dead" /\ PortsEnd(e)

(* The same for a channel: its pipe ended and is drained, or it was aborted. *)
ChannelEnds(c) ==
  /\ chans[c].polling
  /\ chans[c].state = "dead" \/ (linked[c] = "ended" /\ link[c] = <<>>)
  /\ chans' = [chans EXCEPT ![c] = Close(@)]
  /\ phase' = [r \in Requests |-> IF r \in chans[c].ports THEN "gone" ELSE phase[r]]
  /\ conn' = [r \in Requests |-> IF r \in chans[c].ports THEN None ELSE conn[r]]
  /\ inbox' = [r \in Requests |-> IF r \in chans[c].ports THEN <<>> ELSE inbox[r]]
  /\ UNCHANGED <<maps, evals, pipes>>

(* A client goes away, which cancels its fork.  A channel that loses its last
   one cancels its source. *)
Leave(r) ==
  /\ phase[r] = "following"
  /\ phase' = [phase EXCEPT ![r] = "gone"]
  /\ LET c == conn[r] IN
     /\ chans' = [chans EXCEPT ![c] = Disconnect(@, r)]
     /\ IF chans'[c].state = "dead" /\ linked[c] = "open"
        THEN /\ linked' = [linked EXCEPT ![c] = "cancelled"]
             /\ link' = [link EXCEPT ![c] = <<>>]
        ELSE UNCHANGED <<link, linked>>
  /\ conn' = [conn EXCEPT ![r] = None]
  /\ inbox' = [inbox EXCEPT ![r] = <<>>]
  /\ UNCHANGED <<maps, evals, upstream>>

(* The cancellation passes the pipe and disconnects it from the evaluation. *)
Release(c) ==
  /\ linked[c] = "cancelled"
  /\ linked' = [linked EXCEPT ![c] = "none"]
  /\ evals' = [evals EXCEPT ![upstream[c]] = Disconnect(@, c)]
  /\ link' = [link EXCEPT ![c] = <<>>]
  /\ UNCHANGED <<maps, chans, upstream, clients>>

(* closed.then: each map deletes the entry under the query, whatever it is.
   The poll loop is ahead of it: an abort settles its read before the promise.
   No one can find the stream from here on, so its last chunk is forgotten. *)
Unregister(c) ==
  /\ chans[c].closed = "resolved" /\ ~chans[c].polling
  /\ chans' = [chans EXCEPT ![c].closed = "handled", ![c].last = 0]
  /\ sessions' = None
  /\ UNCHANGED <<subscriptions, evals, pipes, clients>>

UnregisterEval(e) ==
  /\ evals[e].closed = "resolved" /\ ~evals[e].polling
  /\ evals' = [evals EXCEPT ![e].closed = "handled", ![e].last = 0]
  /\ subscriptions' = None
  /\ UNCHANGED <<sessions, chans, pipes, clients>>

-----------------------------------------------------------------------------
Next == \E r \in Requests :
  \/ Join(r) \/ Miss(r) \/ NotFound(r) \/ Load(r) \/ Leave(r)
  \/ Produce(r) \/ SourceEnds(r) \/ Forward(r)
  \/ UnwindEval(r) \/ ChannelEnds(r) \/ Release(r)
  \/ Unregister(r) \/ UnregisterEval(r)

(* The event loop runs what can continue; clients and data are free. *)
Fairness == \A r \in Requests :
  /\ WF_vars(Load(r) \/ NotFound(r))
  /\ WF_vars(Forward(r)) /\ WF_vars(ChannelEnds(r)) /\ WF_vars(UnwindEval(r))
  /\ WF_vars(Release(r)) /\ WF_vars(Unregister(r)) /\ WF_vars(UnregisterEval(r))

Spec == Init /\ [][Next]_vars
FairSpec == Spec /\ Fairness

-----------------------------------------------------------------------------
(* However requests race, the query is evaluated once: an evaluation that
   runs is the one in the replica's map. *)
OneEvaluation == \A e \in Requests : evals[e].state = "live" => subscriptions = e

(* A client gets the selections of the evaluation one after the other, without
   a gap or a repetition, and stays level with the other forks of its channel,
   also when it joined late and began with the chunk the channel kept. *)
ForksInStep == \A r \in Requests :
  /\ \A i \in 1 .. Len(inbox[r]) - 1 : inbox[r][i + 1] = inbox[r][i] + 1
  /\ \A c \in Requests : r \in chans[c].ports /\ chans[c].last # 0 =>
       inbox[r] # <<>> /\ inbox[r][Len(inbox[r])] = chans[c].last

(* When every client is gone the evaluation is stopped and both maps come to
   be empty, as test/service.spec.node.js expects of one client. *)
Quiet ==
  /\ sessions = None /\ subscriptions = None
  /\ \A e \in Requests : evals[e].state # "live" /\ chans[e].state # "live"
NothingLingers == (\A r \in Requests : phase[r] = "gone") ~> Quiet

(* A selection reaches every client that follows the evaluation through a
   running channel, unless the client, its channel or the evaluation ends. *)
Follows(r) ==
  /\ phase[r] = "following" /\ chans[conn[r]].state = "live"
  /\ evals[upstream[conn[r]]].state = "live"

SelectionsArrive == \A r \in Requests : \A n \in Selections :
  (Follows(r) /\ evals[upstream[conn[r]]].last = n)
    ~> (~Follows(r) \/ \E i \in 1 .. Len(inbox[r]) : inbox[r][i] = n)

=============================================================================
