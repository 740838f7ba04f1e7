--------------------------------- MODULE Live ---------------------------------
(***************************************************************************)
(* The event streams of the HTTP server: LiveState's set of clients        *)
(* (src/src/server/live.ts) and the loop of the /events route              *)
(* (src/src/server/index.ts) that writes a bounded buffer to each.  A       *)
(* parked loop waits for its `wake` to be called or for the heartbeat; a   *)
(* write ends when the reader takes it or has gone.                          *)
(***************************************************************************)
EXTENDS Integers, Sequences

CONSTANTS Stream,        \* GET /events requests
          StreamBuffer   \* options.streamBuffer

ASSUME BufferAssumption == StreamBuffer \in Nat

VARIABLES clients,   \* #clients
          loop,      \* where each stream's loop is
          buffer,    \* its `queue`
          done,      \* its `done`, or stream.aborted
          wake,      \* its `wake` is set
          behind,    \* history: an event was dropped for it
          since, sent \* history: events emitted before it subscribed; frames written

streamVars == <<clients, loop, buffer, done, wake, behind, since, sent>>

LiveInit ==
  /\ clients = {}
  /\ loop = [s \in Stream |-> "out"] /\ buffer = [s \in Stream |-> <<>>]
  /\ done = [s \in Stream |-> FALSE] /\ wake = [s \in Stream |-> FALSE]
  /\ behind = [s \in Stream |-> FALSE]
  /\ since = [s \in Stream |-> 0] /\ sent = [s \in Stream |-> <<>>]

\* nudge: the loop parked behind `wake`, if any, resumes.
Nudged(S) == [s \in Stream |-> IF s \in S /\ wake[s] /\ loop[s] = "parked" THEN "top" ELSE loop[s]]
NoWake(S) == [s \in Stream |-> wake[s] /\ s \notin S]

\* subscribe, and the function it returns.
Subscribe(s) == clients' = clients \cup {s}
Unsubscribe(s) == clients' = clients \ {s}

\* The request: subscribe, then enter the loop.  n events were emitted before.
OpenStream(s, n) ==
  /\ loop[s] = "out"
  /\ Subscribe(s)
  /\ loop' = [loop EXCEPT ![s] = "top"]
  /\ since' = [since EXCEPT ![s] = n]
  /\ UNCHANGED <<buffer, done, wake, behind, sent>>

\* Mutant of Room: the event that finds the buffer full still gets in.
RoomForOneMore(s) == StreamBuffer + 1 - Len(buffer[s])

Room(s) == StreamBuffer - Len(buffer[s])

\* The listener of s, for each event of a batch: what does not fit is dropped.
Buffered(s, es) ==
  buffer[s] \o SubSeq(es, 1, IF Room(s) < Len(es) THEN Room(s) ELSE Len(es))

\* #ingest of a batch that has es left after the names were filtered.
Ingest(es) ==
  LET drops == {s \in clients : Room(s) < Len(es)}
  IN /\ buffer' = [s \in Stream |-> IF s \in clients THEN Buffered(s, es) ELSE buffer[s]]
     /\ done' = [s \in Stream |-> done[s] \/ s \in drops]
     /\ behind' = [s \in Stream |-> behind[s] \/ s \in drops]
     /\ IF es = <<>> THEN UNCHANGED <<loop, wake>>
        ELSE loop' = Nudged(clients) /\ wake' = NoWake(clients)
  /\ UNCHANGED <<clients, since, sent>>

Pending(s) == loop[s] \in {"top", "written"} /\ buffer[s] # <<>>

\* The top of the loop: a stream that is done leaves without another look.
Leaves(s) ==
  /\ loop[s] = "top" /\ done[s]
  /\ loop' = [loop EXCEPT ![s] = "ended"]
  /\ Unsubscribe(s)
  /\ UNCHANGED <<buffer, done, wake, behind, since, sent>>

\* writeSSE of the buffer's head.
WriteStarts(s) ==
  /\ Pending(s) /\ ~(loop[s] = "top" /\ done[s])
  /\ loop' = [loop EXCEPT ![s] = "writing"]
  /\ sent' = [sent EXCEPT ![s] = Append(@, Head(buffer[s]))]
  /\ buffer' = [buffer EXCEPT ![s] = Tail(@)]
  /\ UNCHANGED <<clients, done, wake, behind, since>>

WriteEnds(s) ==
  /\ loop[s] = "writing"
  /\ loop' = [loop EXCEPT ![s] = "written"]
  /\ UNCHANGED <<clients, buffer, done, wake, behind, since, sent>>

\* Nothing is left to write: end, or set `wake` and park.
Drained(s) ==
  /\ loop[s] \in {"top", "written"} /\ ~Pending(s) /\ ~(loop[s] = "top" /\ done[s])
  /\ IF done[s]
     THEN /\ loop' = [loop EXCEPT ![s] = "ended"]
          /\ Unsubscribe(s)
          /\ UNCHANGED wake
     ELSE /\ loop' = [loop EXCEPT ![s] = "parked"]
          /\ wake' = [wake EXCEPT ![s] = TRUE]
          /\ UNCHANGED clients
  /\ UNCHANGED <<buffer, done, behind, since, sent>>

\* The heartbeat wins the race; `wake` keeps the lost promise's resolver.
Heartbeat(s) ==
  /\ loop[s] = "parked"
  /\ loop' = [loop EXCEPT ![s] = "pinging"]
  /\ UNCHANGED <<clients, buffer, done, wake, behind, since, sent>>

PingEnds(s) ==
  /\ loop[s] = "pinging"
  /\ loop' = [loop EXCEPT ![s] = "top"]
  /\ UNCHANGED <<clients, buffer, done, wake, behind, since, sent>>

\* stream.onAbort: the reader is gone.
Aborts(s) ==
  /\ loop[s] \notin {"out", "ended"} /\ ~done[s]
  /\ done' = [done EXCEPT ![s] = TRUE]
  /\ loop' = Nudged({s}) /\ wake' = NoWake({s})
  /\ UNCHANGED <<clients, buffer, behind, since, sent>>

\* Mutant of Told: the clients are forgotten, not told.
ToldNone == loop

Told == Nudged(clients)

\* LiveState.close: every client is dropped and told.
StreamsClose ==
  /\ clients' = {}
  /\ done' = [s \in Stream |-> done[s] \/ s \in clients]
  /\ loop' = Told /\ wake' = NoWake(clients)
  /\ UNCHANGED <<buffer, behind, since, sent>>

LoopStep(s) == Leaves(s) \/ WriteStarts(s) \/ WriteEnds(s) \/ Drained(s) \/ PingEnds(s)
StreamStep(s) == LoopStep(s) \/ Heartbeat(s) \/ Aborts(s)

-----------------------------------------------------------------------------
(* Properties                                                               *)

Frames(s) == sent[s] \o buffer[s]

\* A reader that was not cut off has, sent or buffered, every event since it
\* subscribed, once and in order; one that fell behind has no event twice or
\* out of order.  The buffer is bounded.  n is the number of events emitted.
Faithful(s, n) ==
  /\ \A i, k \in DOMAIN Frames(s) : i < k => Frames(s)[i] < Frames(s)[k]
  /\ Len(buffer[s]) <= StreamBuffer
  /\ s \in clients /\ ~behind[s] => Len(Frames(s)) = n - since[s]
=============================================================================
