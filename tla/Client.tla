-------------------------------- MODULE Client --------------------------------
(***************************************************************************)
(* One WhatsMulti client (src/src/client.ts): its plugins, set up once by  *)
(* the first operation and disposed by destroy (src/src/plugin.ts), and    *)
(* the way of an event from a session over the bus to the listeners, the   *)
(* webhook forwarder's window and the server's streams.  The sessions are  *)
(* Manager's: here one that runs emits, and destroy makes it emit its last.*)
(*                                                                          *)
(* Overlaps: "destroyInSetup" lets destroy() be called while the first     *)
(* operation is still awaiting the plugins' setup.                           *)
(***************************************************************************)
EXTENDS EventBus, Forwarder, Live

CONSTANTS Plugin,      \* the plugins the application has
          Webhook,     \* the forwarder, one of them
          None,        \* no plugin
          Overlaps,
          MaxEvents, MaxDriverBatch  \* bounds: events in all, and in one driver batch

ASSUME PluginAssumption == Webhook \in Plugin /\ None \notin Plugin
ASSUME EventAssumption == MaxEvents \in Nat \ {0} /\ MaxDriverBatch \in Nat \ {0}

VARIABLES plugins,    \* #plugins, in the order of registration
          ready,      \* the promise #ready: "none", "pending", "done" or "failed"
          inSetup,    \* the plugin whose setup is awaited
          status,     \* of each plugin
          phase,      \* of destroy: "alive", "stopping", "disposing" or "over"
          doomed,     \* dispose's reversed copy of the plugins, what is left of it
          session,    \* a session of this client: "none", "up" or "down"
          n,          \* events emitted
          server      \* the server listens to the client

pluginVars == <<plugins, ready, inSetup, status>>
clientVars == <<pluginVars, phase, doomed, session, n, server>>
vars == <<busVars, forwarderVars, streamVars, clientVars>>

Init ==
  /\ BusInit /\ ForwarderInit /\ LiveInit
  /\ plugins = <<>> /\ ready = "none" /\ inSetup = None
  /\ status = [p \in Plugin |-> "out"]
  /\ phase = "alive" /\ doomed = <<>>
  /\ session = "none" /\ n = 0
  /\ server = "none"

Alive == phase = "alive"

-----------------------------------------------------------------------------
(* Plugins                                                                   *)

\* use: refused once the plugins are being set up, and for a name taken.
Use(p) ==
  /\ Alive
  /\ ready = "none" /\ \A i \in DOMAIN plugins : plugins[i] # p
  /\ plugins' = Append(plugins, p)
  /\ UNCHANGED <<busVars, forwarderVars, streamVars, ready, inSetup, status, phase, doomed,
                 session, n, server>>

\* PluginRegistry.setup's loop calls the plugin at i, or is over.  The
\* forwarder's setup does its work before it is awaited.
SetupCalls(i, s) ==
  IF i \in DOMAIN plugins
  THEN /\ inSetup' = plugins[i]
       /\ status' = [s EXCEPT ![plugins[i]] = "settingUp"]
       /\ ready' = "pending"
       /\ IF plugins[i] = Webhook
          THEN ForwarderOpens /\ Process("forwarder")
          ELSE UNCHANGED <<forwarderVars, processors>>
  ELSE /\ inSetup' = None /\ status' = s
       /\ ready' = "done"
       /\ UNCHANGED <<forwarderVars, processors>>

\* The first operation, or init(): later ones await the same promise.
FirstOperation ==
  /\ Alive /\ ready = "none"
  /\ SetupCalls(1, status)
  /\ UNCHANGED <<handlers, wrappers, asked, streamVars, plugins, phase, doomed, session, n, server>>

\* The loop walks the live map: a map that was cleared has no next plugin.
SetupEnds ==
  /\ inSetup # None
  /\ LET after == {i + 1 : i \in {k \in DOMAIN plugins : plugins[k] = inSetup}}
     IN SetupCalls(IF after = {} THEN 1 ELSE CHOOSE i \in after : TRUE,
                   [status EXCEPT ![inSetup] = "up"])
  /\ UNCHANGED <<handlers, wrappers, asked, streamVars, plugins, phase, doomed, session, n, server>>

\* A setup that throws: #ready stays rejected, and so does every operation.
SetupFails ==
  /\ inSetup \notin {None, Webhook}
  /\ inSetup' = None
  /\ status' = [status EXCEPT ![inSetup] = "failed"]
  /\ ready' = "failed"
  /\ UNCHANGED <<busVars, forwarderVars, streamVars, plugins, phase, doomed, session, n, server>>

-----------------------------------------------------------------------------
(* Events                                                                    *)

Admitted == ready = "done"

\* createSession and start, past init(): the manager is asked while it lives.
SessionStarts ==
  /\ Alive /\ Admitted /\ session = "none"
  /\ session' = "up"
  /\ UNCHANGED <<busVars, forwarderVars, streamVars, pluginVars, phase, doomed, n, server>>

\* emitBatch with k events that cross the wire: per-event listeners, then the
\* catch-all ones.
Emits(k) ==
  LET es == [i \in 1..k |-> n + i]
  IN /\ n' = n + k
     /\ Emission
     /\ IF "forwarder" \in processors THEN Collect(es) ELSE UNCHANGED forwarderVars
     /\ IF "live" \in processors THEN Ingest(es) ELSE UNCHANGED streamVars

\* A driver batch, or a lifecycle event; k = 0 for names of the driver's own.
SessionEmits(k) ==
  /\ session = "up"
  /\ n + k < MaxEvents
  /\ Emits(k)
  /\ UNCHANGED <<pluginVars, phase, doomed, session, server>>

-----------------------------------------------------------------------------
(* destroy                                                                   *)

Destroy ==
  /\ Alive
  /\ ready = "pending" => "destroyInSetup" \in Overlaps
  /\ phase' = "stopping"
  /\ UNCHANGED <<busVars, forwarderVars, streamVars, pluginVars, doomed, session, n, server>>

\* manager.destroy stops the session, whose last event goes out.
LastEvent ==
  /\ ~Alive /\ session = "up"
  /\ session' = "down"
  /\ Emits(1)
  /\ UNCHANGED <<pluginVars, phase, doomed, server>>

Stopped == session # "up"

DisposeStarts ==
  /\ phase = "stopping" /\ Stopped
  /\ phase' = "disposing"
  /\ doomed' = Reverse(plugins)
  /\ UNCHANGED <<busVars, forwarderVars, streamVars, pluginVars, session, n, server>>

\* Mutant of AfterFailure: a failure ends the loop.
AfterFailureNone == <<>>

AfterFailure == Tail(doomed)

\* The next plugin's dispose, whatever its setup came to.  One that fails is
\* reported at the end, when the others are disposed too.
DisposeNext ==
  /\ phase = "disposing" /\ doomed # <<>>
  /\ LET p == Head(doomed)
     IN /\ status' = [status EXCEPT ![p] = IF @ = "settingUp" THEN @ ELSE "disposed"]
        /\ \/ doomed' = Tail(doomed)
           \/ p # Webhook /\ doomed' = AfterFailure
        /\ IF p = Webhook
           THEN ForwarderCloses /\ Unprocess("forwarder")
           ELSE UNCHANGED <<forwarderVars, processors>>
  /\ UNCHANGED <<handlers, wrappers, asked, streamVars, plugins, ready, inSetup, phase, session, n,
                 server>>

\* All are disposed: forget them, and every listener with them.
DestroyEnds ==
  /\ phase = "disposing" /\ doomed = <<>>
  /\ phase' = "over"
  /\ plugins' = <<>>
  /\ RemoveAllListeners
  /\ UNCHANGED <<forwarderVars, streamVars, ready, inSetup, status, doomed, session, n, server>>

-----------------------------------------------------------------------------
(* The server, the application, and the specification                         *)

\* createServer subscribes LiveState; close() ends it.
ServerStarts ==
  /\ server = "none" /\ phase # "over"
  /\ server' = "up" /\ Process("live")
  /\ UNCHANGED <<handlers, wrappers, asked, forwarderVars, streamVars, pluginVars, phase, doomed,
                 session, n>>

ServerCloses ==
  /\ server = "up"
  /\ server' = "closed" /\ Unprocess("live")
  /\ StreamsClose
  /\ UNCHANGED <<handlers, wrappers, asked, forwarderVars, pluginVars, phase, doomed, session, n>>

\* A request is served as long as the application routes it here, also after
\* close(): the stream it opens then hears of nothing.
StreamOpens(s) ==
  /\ server # "none"
  /\ OpenStream(s, n)
  /\ UNCHANGED <<busVars, forwarderVars, clientVars>>

ForwarderStep == WindowEnds \/ FlushCall

Listening == phase # "over" /\ BusStep /\ UNCHANGED <<forwarderVars, streamVars, clientVars>>
Forwarding == ForwarderStep /\ UNCHANGED <<busVars, streamVars, clientVars>>
Streaming(s) == StreamStep(s) /\ UNCHANGED <<busVars, forwarderVars, clientVars>>

Next ==
  \/ \E p \in Plugin : Use(p)
  \/ FirstOperation \/ SetupEnds \/ SetupFails
  \/ SessionStarts \/ \E k \in 0..MaxDriverBatch : SessionEmits(k)
  \/ Destroy \/ LastEvent \/ DisposeStarts \/ DisposeNext \/ DestroyEnds
  \/ ServerStarts \/ ServerCloses
  \/ \E s \in Stream : StreamOpens(s) \/ Streaming(s)
  \/ Listening \/ Forwarding

Spec == Init /\ [][Next]_vars

\* Timers fire and the event loop resumes every stream whose write ended or
\* whose `wake` was called.  Nobody relies on the heartbeat.
FairSpec ==
  /\ Spec
  /\ WF_vars(WindowEnds /\ UNCHANGED <<busVars, streamVars, clientVars>>)
  /\ \A s \in Stream : WF_vars(LoopStep(s) /\ UNCHANGED <<busVars, forwarderVars, clientVars>>)

-----------------------------------------------------------------------------
(* Properties                                                               *)

TypeOK ==
  /\ plugins \in Seq(Plugin) /\ inSetup \in Plugin \cup {None}
  /\ ready \in {"none", "pending", "done", "failed"}
  /\ status \in [Plugin -> {"out", "settingUp", "up", "failed", "disposed"}]
  /\ phase \in {"alive", "stopping", "disposing", "over"} /\ doomed \in Seq(Plugin)
  /\ session \in {"none", "up", "down"} /\ n \in 0..MaxEvents
  /\ server \in {"none", "up", "closed"}
  /\ processors \subseteq {"forwarder", "live"}
  /\ windowed \in BOOLEAN /\ queue \in {"none", "open", "closed"} /\ timer \in {"unset", "armed"}
  /\ clients \subseteq Stream
  /\ loop \in [Stream -> {"out", "top", "parked", "pinging", "writing", "written", "ended"}]

\* Every event of every session was handed to the delivery queue once and in
\* order or still waits in the window, and when the queue is closed nothing
\* waits: "a webhook forwarder has to see the final events, and flush them,
\* before it is torn down" (client.ts:336-337).
NothingLost ==
  TypeOK /\ (queue # "none" =>
    /\ PostedEvents \o window = [i \in 1..n |-> i]
    /\ queue = "closed" => window = <<>>
    /\ \A i \in DOMAIN posted : Len(posted[i]) \in 1..MaxBatch)

\* destroy "disposes every plugin" (client.ts:334): when it is over, none
\* that was set up is left, not even behind one that failed.
PluginsAreDisposed == phase = "over" => \A p \in Plugin : status[p] # "up"

\* The streams lose, repeat and reorder nothing, short of a reader that was
\* cut off (Live).
StreamsAreFaithful ==
  "live" \in processors => \A s \in Stream : loop[s] # "out" => Faithful(s, n)

\* What waits in the window is posted without anyone asking.  An event buffered
\* for a stream is written, or the stream ends: no loop is parked with a full
\* buffer until the heartbeat.  "Ends every stream" (live.ts:69): a stream that
\* close() dropped comes to its end.  And a reader that "cannot keep up is
\* disconnected rather than buffered forever" (server/index.ts:327-328).
NothingIsStuck ==
  /\ window # <<>> ~> window = <<>>
  /\ \A s \in Stream :
       /\ buffer[s] # <<>> ~> (buffer[s] = <<>> \/ loop[s] = "ended")
       /\ (s \notin clients /\ loop[s] # "out") ~> loop[s] = "ended"
       /\ behind[s] ~> loop[s] = "ended"
=============================================================================
