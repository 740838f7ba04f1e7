------------------------------- MODULE EventBus -------------------------------
(***************************************************************************)
(* The client's event bus (src/src/events/emitter.ts): the listeners of    *)
(* one event name, each behind a wrapper that is cached per listener, and  *)
(* the catch-all `process` listeners.  Event names do not share state, so  *)
(* one stands for all.  A listener that throws or rejects is caught behind *)
(* its wrapper and changes nothing here; `emit` runs to its end at once.    *)
(*                                                                          *)
(* on and once take a listener that is registered already: its             *)
(* registrations share the cached wrapper, which the first off, or the     *)
(* first shot of a once, forgets.  removeAllListeners() is only called by  *)
(* the client's own destroy.                                                 *)
(***************************************************************************)
EXTENDS Integers, Sequences, SequencesExt

CONSTANTS Listener,    \* functions given to on, once and off
          MaxHandlers  \* bound: registrations of the event at a time

ASSUME HandlersAssumption == MaxHandlers \in Nat \ {0}

VARIABLES handlers,   \* the emitter's list of wrappers for the event
          wrappers,   \* #wrappers: the cached wrapper of each listener, or "none"
          processors, \* #batchListeners
          asked       \* history: what each listener's owner asked for last, or
                      \* "shared" from its second registration at a time

busVars == <<handlers, wrappers, processors, asked>>

Kinds == {"on", "once"}

BusInit ==
  /\ handlers = <<>>
  /\ wrappers = [l \in Listener |-> "none"]
  /\ processors = {}
  /\ asked = [l \in Listener |-> "none"]

\* #wrap: the cached wrapper, whichever call made it, before a new one.
Wrapper(l, kind) == IF wrappers[l] # "none" THEN wrappers[l] ELSE kind

\* on and once.
Listen(l, kind) ==
  /\ Len(handlers) < MaxHandlers
  /\ wrappers' = [wrappers EXCEPT ![l] = Wrapper(l, kind)]
  /\ handlers' = Append(handlers, [listener |-> l, kind |-> Wrapper(l, kind)])
  /\ asked' = [asked EXCEPT ![l] = IF @ = "none" THEN kind ELSE "shared"]
  /\ UNCHANGED processors

\* EventEmitter.off: the last registration of that wrapper goes.
WithoutLast(h, w) ==
  LET places == {i \in DOMAIN h : h[i] = w}
  IN IF places = {} THEN h
     ELSE RemoveAt(h, CHOOSE i \in places : \A k \in places : k <= i)

\* Mutant of Forgotten: the wrapper stays cached.
ForgottenNever(bus, l) == bus.wrappers

Forgotten(bus, l) == [bus.wrappers EXCEPT ![l] = "none"]

\* off on bus: without a cached wrapper there is nothing to find.
Without(bus, l) ==
  IF bus.wrappers[l] = "none" THEN bus
  ELSE [handlers |-> WithoutLast(bus.handlers, [listener |-> l, kind |-> bus.wrappers[l]]),
        wrappers |-> Forgotten(bus, l)]

Bus == [handlers |-> handlers, wrappers |-> wrappers]
BusBecomes(bus) == handlers' = bus.handlers /\ wrappers' = bus.wrappers

Off(l) ==
  /\ BusBecomes(Without(Bus, l))
  /\ asked' = [asked EXCEPT ![l] = IF @ = "shared" THEN @ ELSE "none"]
  /\ UNCHANGED processors

\* A wrapper runs: a one-shot one first takes its listener off.
Fired(bus, w) == IF w.kind = "once" THEN Without(bus, w.listener) ELSE bus

\* emit: the list is copied, then every wrapper of the copy runs.
Emission ==
  /\ BusBecomes(FoldLeft(Fired, Bus, handlers))
  /\ asked' = [l \in Listener |-> IF asked[l] = "once" THEN "none" ELSE asked[l]]
  /\ UNCHANGED processors

\* process(), and the unsubscribe function it returns.
Process(p) == processors' = processors \cup {p}
Unprocess(p) == processors' = processors \ {p}

\* removeAllListeners(): the cached wrappers stay.
RemoveAllListeners ==
  /\ handlers' = <<>> /\ processors' = {}
  /\ asked' = [l \in Listener |-> "none"]
  /\ UNCHANGED wrappers

BusStep == \E l \in Listener : Off(l) \/ \E kind \in Kinds : Listen(l, kind)

-----------------------------------------------------------------------------
(* Properties                                                               *)

\* The next event reaches every listener as often as its owner asked and no
\* other, and a one-shot one will not be reached again: "fires a once listener
\* exactly once" (test/unit/client.test.ts:324), "detaches a listener" (:310).
\* That is promised to a listener registered once at a time, whatever the
\* others do.  One that was registered again before it was off is reached by
\* every event until destroy, and nothing its owner calls takes it off: `on`
\* and then `once` both fire for ever, and the first `off` forgets the wrapper
\* that the second would need (emitter.ts:63-70, 112-115).
SubscribedAsAsked ==
  \A l \in Listener :
    LET its == {i \in DOMAIN handlers : handlers[i].listener = l}
    IN CASE asked[l] = "none"   -> its = {}
         [] asked[l] = "shared" -> its # {}
         [] OTHER               -> \E i \in its : its = {i} /\ handlers[i].kind = asked[l]
=============================================================================
