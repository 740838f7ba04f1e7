-------------------------------- MODULE Manager --------------------------------
(***************************************************************************)
(* The SessionManager of one client (src/src/session/manager.ts): the map  *)
(* of sessions, the metadata it keeps beside the credentials, and the API  *)
(* calls awaiting, load's bounded fan-out (src/src/utils/concurrency.ts)   *)
(* among them.  A session is reduced to whether its socket is up and a     *)
(* purge of its data begun; what happens inside its start and stop is      *)
(* Session's.                                                                *)
(*                                                                          *)
(* Admits names the overlaps callers may produce; without one, the calls   *)
(* it is about do not overlap:                                              *)
(*   "sameId"   two calls about one session id; a load is about every id   *)
(*   "destroy"  destroy() while other calls are still awaiting              *)
(* Calls about different ids always interleave.                             *)
(***************************************************************************)
EXTENDS Naturals, FiniteSets

CONSTANTS Id,      \* session ids
          Call,    \* API calls that may be awaiting at once
          Object,  \* Session objects the manager may construct
          None,    \* no object, no id
          Concurrency, \* config.load.concurrency
          Admits

ASSUME NoneAssumption == None \notin Id \cup Object
ASSUME ConcurrencyAssumption == Concurrency \in Nat
\* A run meets finitely many ids.
ASSUME IdAssumption == IsFiniteSet(Id)

VARIABLES sessions,   \* #sessions
          destroyed, doomed, adaptersOpen,  \* #destroyed, destroy()'s snapshot, #adapters
          meta,       \* ids with a metadata record in storage
          object,     \* the Session objects: id, state, destroyed flag, and
              \* whether a purge of its data was begun
          call,       \* the calls awaiting
          fan         \* the last load: what mapLimit has left and in flight

vars == <<sessions, destroyed, doomed, adaptersOpen, meta, object, call, fan>>
shutdown == <<destroyed, doomed, adaptersOpen>>

Idle == [op |-> "none", pc |-> "idle", id |-> None, obj |-> None]
At(op, pc, i, o) == [op |-> op, pc |-> pc, id |-> i, obj |-> o]
Goes(c, pc) == call' = [call EXCEPT ![c].pc = pc]

\* A call is over.  One that load made gives its runner back, or ends it with
\* a failure, and the first failure rejects the load: the others go on.
Settles(c, ok) ==
  IF c \notin fan.busy
  THEN call' = [call EXCEPT ![c] = Idle] /\ UNCHANGED fan
  ELSE /\ fan' = [fan EXCEPT !.busy = @ \ {c}, !.failed = @ \/ ~ok,
                             !.runners = IF ok THEN @ ELSE @ - 1,
                             !.made = IF ok THEN @ \cup {call[c].id} ELSE @]
       /\ call' = [k \in Call |-> IF k = c \/ (k = fan.by /\ ~ok /\ ~fan.failed) THEN Idle
                                  ELSE call[k]]
Returns(c) == Settles(c, TRUE)
Throws(c) == Settles(c, FALSE)

\* Nothing is left of the last load.
FanIsOver == fan.busy = {} /\ (fan.todo = {} \/ fan.runners = 0)

\* A call about id i may be made.
Enters(c, i) ==
  /\ call[c] = Idle
  /\ \A k \in Call : call[k].id = i \/ call[k].pc = "listing" => "sameId" \in Admits
  /\ i \in fan.todo /\ ~FanIsOver => "sameId" \in Admits
  /\ \A k \in Call : call[k].op = "destroy" => "destroy" \in Admits

Init ==
  /\ sessions = [i \in Id |-> None]
  /\ destroyed = FALSE /\ doomed = {} /\ adaptersOpen = TRUE
  /\ meta \in SUBSET Id
  /\ object = [o \in Object |-> [id |-> None, state |-> "none", destroyed |-> FALSE,
                                 purgeBegun |-> FALSE]]
  /\ call = [c \in Call |-> Idle]
  /\ fan = [by |-> None, start |-> FALSE, listed |-> {}, todo |-> {}, busy |-> {}, runners |-> 0,
            made |-> {}, failed |-> FALSE]

Becomes(o, s) == object' = [object EXCEPT ![o].state = s]

\* What a stop leaves: no edge leads from logged_out but reset's.
Halted(o) == IF object[o].state = "logged_out" THEN "logged_out" ELSE "down"

\* The object goes to state s and its data is cleared from storage, the
\* metadata with the credentials.
PurgedTo(o, s) ==
  /\ object' = [object EXCEPT ![o].state = s, ![o].purgeBegun = TRUE]
  /\ meta' = meta \ {object[o].id}

\* The clear fails, before or after it reached the metadata.
PurgeFails(o, s) ==
  /\ object' = [object EXCEPT ![o].state = s, ![o].purgeBegun = TRUE]
  /\ meta' \in {meta, meta \ {object[o].id}}

-----------------------------------------------------------------------------
(* create, and ensure when the id is not registered                          *)

\* Mutant of Alive: a destroyed manager takes calls.
AliveAlways == TRUE

Alive == ~destroyed

\* Mutant of Taken: the duplicate check is dropped.
TakenNever(i) == FALSE

Taken(i) == sessions[i] # None

\* Checked before the first await and never again.  `op` remembers autoStart.
Create(c, i) ==
  /\ Enters(c, i)
  /\ Alive /\ ~Taken(i)
  /\ \E op \in {"create", "createAndStart"} :
       call' = [call EXCEPT ![c] = At(op, "preparing", i, None)]
  /\ UNCHANGED <<sessions, shutdown, meta, object, fan>>

\* storage.init and registry.read are done.
Prepared(c) ==
  /\ call[c].pc = "preparing"
  /\ Goes(c, "writing")
  /\ UNCHANGED <<sessions, shutdown, meta, object, fan>>

\* Mutant of Written: the metadata is not written.
WrittenNever(i) == meta

Written(i) == meta \cup {i}

\* registry.write is done: construct, register, and start if asked to.
Registered(c) ==
  /\ call[c].pc = "writing"
  /\ LET i == call[c].id
     IN /\ meta' = Written(i)
        /\ \E o \in {x \in Object : object[x].state = "none"} :
             /\ sessions' = [sessions EXCEPT ![i] = o]
             /\ object' = [object EXCEPT
                  ![o] = [id |-> i, destroyed |-> FALSE, purgeBegun |-> FALSE,
                          state |-> IF call[c].op = "createAndStart" THEN "starting" ELSE "down"]]
             /\ IF call[c].op = "createAndStart"
                THEN /\ call' = [call EXCEPT ![c] = At("create", "starting", i, o)]
                     /\ UNCHANGED fan
                ELSE Returns(c)
  /\ UNCHANGED shutdown

\* Storage fails before the session is registered.  A write that failed may
\* have reached the backend.
CreateFails(c) ==
  /\ call[c].pc \in {"preparing", "writing"}
  /\ meta' \in {meta, IF call[c].pc = "writing" THEN Written(call[c].id) ELSE meta}
  /\ Throws(c)
  /\ UNCHANGED <<sessions, shutdown, object>>

-----------------------------------------------------------------------------
(* The operations on a registered session                                    *)

Startable(o) == object[o].state = "down" /\ ~object[o].destroyed

Start(c, i) ==
  /\ Enters(c, i)
  /\ Taken(i) /\ Startable(sessions[i])
  /\ Becomes(sessions[i], "starting")
  /\ call' = [call EXCEPT ![c] = At("start", "starting", i, sessions[i])]
  /\ UNCHANGED <<sessions, shutdown, meta, fan>>

\* Session.start resolves or throws.  A stop meanwhile does not prevent it
\* from coming up.
StartEnds(c) ==
  /\ call[c].pc = "starting"
  /\ \/ Becomes(call[c].obj, "up") /\ Returns(c)
     \/ Becomes(call[c].obj, "down") /\ Throws(c)
  /\ UNCHANGED <<sessions, shutdown, meta>>

\* stop, restart and remove all begin with Session.stop.
Stop(c, i) ==
  /\ Enters(c, i)
  /\ Taken(i)
  /\ \E op \in {"stop", "restart", "remove"} :
       call' = [call EXCEPT ![c] = At(op, "stopping", i, sessions[i])]
  /\ UNCHANGED <<sessions, shutdown, meta, object, fan>>

\* remove purges before it deregisters; a purge that fails ends the call.
StopEnds(c) ==
  /\ call[c].pc = "stopping"
  /\ LET o == call[c].obj
         s == Halted(o)
     IN CASE call[c].op = "stop" -> Becomes(o, s) /\ Returns(c) /\ UNCHANGED meta
          [] call[c].op = "remove" ->
               \/ PurgedTo(o, s) /\ Goes(c, "deregistering") /\ UNCHANGED fan
               \/ PurgeFails(o, s) /\ Returns(c)
          [] call[c].op = "restart" ->
               /\ IF object[o].destroyed \/ s # "down"
                  THEN Becomes(o, s) /\ Returns(c)
                  ELSE Becomes(o, "starting") /\ Goes(c, "starting") /\ UNCHANGED fan
               /\ UNCHANGED meta
  /\ UNCHANGED <<sessions, shutdown>>

Logout(c, i) ==
  /\ Enters(c, i)
  /\ Taken(i) /\ object[sessions[i]].state = "up" /\ ~object[sessions[i]].destroyed
  /\ call' = [call EXCEPT ![c] = At("logout", "unlinking", i, sessions[i])]
  /\ UNCHANGED <<sessions, shutdown, meta, object, fan>>

\* The phone unlinks and the session's data is purged; a refusal, or a purge
\* that fails, keeps it registered.
LogoutEnds(c) ==
  /\ call[c].pc = "unlinking"
  /\ LET o == call[c].obj
     IN \/ PurgedTo(o, "logged_out") /\ Goes(c, "deregistering") /\ UNCHANGED fan
        \/ PurgeFails(o, "logged_out") /\ Returns(c)
        \/ Returns(c) /\ UNCHANGED <<object, meta>>
  /\ UNCHANGED <<sessions, shutdown>>

\* The phone, or the server, unlinks a running session: it purges its own
\* data and stays registered.
Unlinked(o) ==
  /\ object[o].state = "up"
  /\ PurgedTo(o, "logged_out") \/ PurgeFails(o, "logged_out")
  /\ UNCHANGED <<sessions, shutdown, call, fan>>

\* Session.reset, called on the object.
Reset(o) ==
  /\ object[o].state = "logged_out" /\ ~object[o].destroyed
  /\ Becomes(o, "down")
  /\ UNCHANGED <<sessions, shutdown, meta, call, fan>>

\* #sessions.delete: whatever object the id has by now.
Unregistered(i) == [sessions EXCEPT ![i] = None]

\* #deregister, once registry.remove is done; it may fail, with the record
\* deleted or not, and the session stays registered.
Deregistered(c) ==
  /\ call[c].pc = "deregistering"
  /\ \/ /\ meta' = meta \ {call[c].id}
        /\ sessions' = Unregistered(call[c].id)
     \/ meta' \in {meta, meta \ {call[c].id}} /\ UNCHANGED sessions
  /\ Returns(c)
  /\ UNCHANGED <<shutdown, object>>

-----------------------------------------------------------------------------
(* load                                                                      *)

Load(c) ==
  /\ Alive /\ FanIsOver
  /\ \A k \in Call : call[k] = Idle
  /\ call' = [call EXCEPT ![c] = At("load", "listing", None, None)]
  /\ \E auto \in BOOLEAN : fan' = [fan EXCEPT !.by = c, !.start = auto]
  /\ UNCHANGED <<sessions, shutdown, meta, object>>

\* Math.max(1, Math.min(limit, items.length))
Width(items) ==
  IF Concurrency < 1 \/ items = {} THEN 1
  ELSE IF Concurrency < Cardinality(items) THEN Concurrency ELSE Cardinality(items)

\* discover() answers, or fails.  mapLimit starts over what is not registered.
Listed(c) ==
  /\ call[c].pc = "listing"
  /\ LET ids == {i \in meta : ~Taken(i)}
     IN \/ /\ fan' = [fan EXCEPT !.listed = ids, !.todo = ids, !.runners = Width(ids),
                                   !.made = {}, !.failed = FALSE]
           /\ Goes(c, "loading")
        \/ Returns(c)
  /\ UNCHANGED <<sessions, shutdown, meta, object>>

\* A runner that is free takes the next id, synchronously, and calls create,
\* which refuses at once in a destroyed manager and for an id registered since.
Take(w) ==
  /\ Cardinality(fan.busy) < fan.runners
  /\ call[w] = Idle
  /\ \E i \in fan.todo :
       IF Alive /\ ~Taken(i)
       THEN /\ fan' = [fan EXCEPT !.todo = @ \ {i}, !.busy = @ \cup {w}]
            /\ call' = [call EXCEPT ![w] = At(IF fan.start THEN "createAndStart" ELSE "create",
                                              "preparing", i, None)]
       ELSE /\ fan' = [fan EXCEPT !.todo = @ \ {i}, !.runners = @ - 1, !.failed = TRUE]
            /\ call' = IF fan.failed THEN call ELSE [call EXCEPT ![fan.by] = Idle]
  /\ UNCHANGED <<sessions, shutdown, meta, object>>

\* Mutant of Exhausted: one item is left out.
ExhaustedEarly == Cardinality(fan.todo) <= 1

Exhausted == fan.todo = {}

\* Every runner's loop has ended: the promise resolves.
LoadEnds(c) ==
  /\ call[c].pc = "loading"
  /\ Exhausted /\ fan.busy = {}
  /\ Returns(c)
  /\ UNCHANGED <<sessions, shutdown, meta, object>>

-----------------------------------------------------------------------------
(* destroy                                                                   *)

\* [...#sessions.values()]
InMap == {sessions[i] : i \in Id} \ {None}

Destroy(c) ==
  /\ call[c] = Idle
  /\ "destroy" \in Admits \/ (FanIsOver /\ \A k \in Call : call[k] = Idle)
  /\ Alive
  /\ destroyed' = TRUE
  /\ doomed' = InMap
  /\ call' = [call EXCEPT ![c] = At("destroy", "destroying", None, None)]
  /\ UNCHANGED <<sessions, adaptersOpen, meta, object, fan>>

\* Session.destroy of one object of the snapshot, by one of mapLimit's runners:
\* its failure is caught, so every object gets its turn.
DestroyOne(c, o) ==
  /\ call[c].pc = "destroying"
  /\ o \in doomed
  /\ doomed' = doomed \ {o}
  /\ object' = [object EXCEPT ![o].state = Halted(o), ![o].destroyed = TRUE]
  /\ UNCHANGED <<sessions, destroyed, adaptersOpen, meta, call, fan>>

\* All are down: forget them, close the adapters and the lock provider.
DestroyEnds(c) ==
  /\ call[c].pc = "destroying" /\ doomed = {}
  /\ sessions' = [i \in Id |-> None]
  /\ adaptersOpen' = FALSE
  /\ Returns(c)
  /\ UNCHANGED <<destroyed, doomed, meta, object>>

Resume(c) ==
  \/ Prepared(c) \/ Registered(c) \/ CreateFails(c) \/ StartEnds(c) \/ StopEnds(c)
  \/ LogoutEnds(c) \/ Deregistered(c) \/ Listed(c) \/ Take(c) \/ LoadEnds(c)
  \/ DestroyEnds(c) \/ \E o \in Object : DestroyOne(c, o)

Next ==
  \/ \E c \in Call, i \in Id : Create(c, i) \/ Start(c, i) \/ Stop(c, i) \/ Logout(c, i)
  \/ \E c \in Call : Load(c) \/ Destroy(c) \/ Resume(c)
  \/ \E o \in Object : Unlinked(o) \/ Reset(o)

Spec == Init /\ [][Next]_vars

-----------------------------------------------------------------------------
(* Properties                                                               *)

\* The types; an object registered under an id was made for that id.
TypeOK ==
  /\ sessions \in [Id -> Object \cup {None}]
  /\ \A i \in Id : sessions[i] # None => object[sessions[i]].id = i
  /\ destroyed \in BOOLEAN /\ doomed \subseteq Object /\ adaptersOpen \in BOOLEAN
  /\ meta \subseteq Id
  /\ object \in [Object -> [id : Id \cup {None}, destroyed : BOOLEAN, purgeBegun : BOOLEAN,
                            state : {"none", "down", "starting", "up", "logged_out"}]]
  /\ call \in [Call -> [op : {"none", "create", "createAndStart", "start", "stop", "restart",
                              "remove", "logout", "load", "destroy"},
                        pc : {"idle", "preparing", "writing", "starting", "stopping",
                              "unlinking", "deregistering", "listing", "loading", "destroying"},
                        id : Id \cup {None}, obj : Object \cup {None}]]
  /\ fan.todo \subseteq fan.listed /\ fan.busy \subseteq Call /\ fan.made \subseteq fan.listed
  /\ Cardinality(fan.busy) <= fan.runners /\ fan.runners \in 0..(Concurrency + 1)

Running(o) == object[o].state \in {"starting", "up"}

\* A session that is running can be reached through the manager, so that it
\* can be stopped: "rejects a duplicate id instead of replacing the live
\* session" (test/unit/session-manager.test.ts:65).
NoStraySession == \A o \in Object : Running(o) => sessions[object[o].id] = o

\* "Stops every session and closes every adapter" (manager.ts:232): once
\* destroy has resolved, nothing runs and nothing is registered.
DestroyedIsDown ==
  ~adaptersOpen => (\A o \in Object : ~Running(o)) /\ InMap = {}

\* A registered session has its record from the start, until a purge of its own
\* data is begun: "discoverable the moment it is created" (registry.ts:4-6).  A
\* purge that fails may leave the session registered and its record deleted.
RegisteredIsStored ==
  /\ TypeOK
  /\ \A i \in Id : Taken(i) => i \in meta \/ object[sessions[i]].purgeBegun

\* "Registers every stored session that is not registered yet" (manager.ts,
\* load): one that resolved made all it listed, each by one call of its own.
LoadIsComplete ==
  [][\A c \in Call : call[c].pc = "loading" /\ call'[c].pc = "idle" /\ ~fan'.failed
                     => fan.made = fan.listed]_vars
=============================================================================
