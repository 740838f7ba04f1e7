---------------------------- MODULE ManagerProofs ----------------------------
(***************************************************************************)
(* Manager for any finite set of session ids, any calls, any objects and    *)
(* any width of the fan-out.  What a load makes is proved whatever overlaps  *)
(* whatever; what the manager keeps of its sessions, where calls about one  *)
(* id do not overlap; and what destroy leaves, where nothing overlaps it.   *)
(***************************************************************************)
EXTENDS Manager, FiniteSetTheorems, TLAPS

-----------------------------------------------------------------------------
(* The records                                                              *)

Ops == {"none", "create", "createAndStart", "start", "stop", "restart",
        "remove", "logout", "load", "destroy"}
Pcs == {"idle", "preparing", "writing", "starting", "stopping",
        "unlinking", "deregistering", "listing", "loading", "destroying"}
States == {"none", "down", "starting", "up", "logged_out"}
CallRecord == [op : Ops, pc : Pcs, id : Id \cup {None}, obj : Object \cup {None}]
ObjectRecord == [id : Id \cup {None}, destroyed : BOOLEAN, purgeBegun : BOOLEAN, state : States]
FanRecord == [by : Call \cup {None}, start : BOOLEAN, listed : SUBSET Id, todo : SUBSET Id,
              busy : SUBSET Call, runners : Nat, made : SUBSET Id, failed : BOOLEAN]

\* An object that was constructed.
Made(o) == object[o].state # "none"

Creating == {"preparing", "writing"}
OnObject == {"starting", "stopping", "unlinking", "deregistering"}

\* What a call has at hand where it awaits.
CallShape(k) ==
  /\ k.pc = "idle" => k = Idle
  /\ k.pc \in Creating => k.op \in {"create", "createAndStart"} /\ k.id \in Id
  /\ k.pc \in OnObject => /\ k.id \in Id /\ k.obj \in Object
                          /\ Made(k.obj) /\ object[k.obj].id = k.id
  /\ k.pc = "stopping" => k.op \in {"stop", "restart", "remove"}
  /\ k.pc \in {"listing", "loading"} => k.id = None
  /\ k.pc = "destroying" => k.op = "destroy" /\ k.id = None /\ destroyed

\* The runners are creating; while there is something left, the load that
\* listed it waits for it, or has failed; and what it listed is still to do,
\* being made, or made.
FanOK ==
  /\ fan \in FanRecord /\ IsFiniteSet(fan.busy) /\ Cardinality(fan.busy) <= fan.runners
  /\ fan.runners <= Concurrency + 1
  /\ fan.todo \subseteq fan.listed /\ fan.made \subseteq fan.listed
  /\ \A w \in fan.busy : call[w].pc \in Creating \cup {"starting"} /\ call[w].id \in fan.listed
  /\ \A c \in Call : call[c].pc = "listing" => FanIsOver /\ c = fan.by
  /\ \A c \in Call : call[c].pc = "loading" => c = fan.by
  /\ ~FanIsOver => fan.by \in Call
  /\ ~FanIsOver /\ ~fan.failed => call[fan.by].pc = "loading"
  /\ ~fan.failed => fan.listed = fan.todo \cup fan.made \cup {call[w].id : w \in fan.busy}

ObjectsOK ==
  /\ sessions \in [Id -> Object \cup {None}]
  /\ object \in [Object -> ObjectRecord]
  /\ \A i \in Id : Taken(i) => Made(sessions[i]) /\ object[sessions[i]].id = i
  /\ \A o \in Object : Made(o) => object[o].id \in Id
  /\ doomed \subseteq Object /\ \A o \in doomed : Made(o)

CallsOK == call \in [Call -> CallRecord] /\ \A c \in Call : CallShape(call[c])

SwitchesOK == destroyed \in BOOLEAN /\ adaptersOpen \in BOOLEAN /\ meta \subseteq Id

\* The invariant that holds whatever overlaps whatever.
Typed == ObjectsOK /\ CallsOK /\ SwitchesOK /\ FanOK

LEMMA TypedIsTyped == ASSUME Typed PROVE TypeOK
<1>1. /\ sessions \in [Id -> Object \cup {None}]
      /\ \A i \in Id : sessions[i] # None => object[sessions[i]].id = i
      /\ doomed \subseteq Object
  BY DEF Typed, ObjectsOK, Taken
<1>2. fan.busy \subseteq Call /\ fan.runners \in 0..(Concurrency + 1)
  BY ConcurrencyAssumption DEF Typed, FanOK, FanRecord
<1>3. call \in [Call -> CallRecord] /\ object \in [Object -> ObjectRecord]
  BY DEF Typed, CallsOK, ObjectsOK
<1>4. SwitchesOK /\ FanOK
  BY DEF Typed
<1> QED BY <1>1, <1>2, <1>3, <1>4
        DEF TypeOK, SwitchesOK, FanOK, CallRecord, ObjectRecord, Ops, Pcs, States

LEMMA AtType ==
  ASSUME NEW op \in Ops, NEW pc \in Pcs, NEW i \in Id \cup {None}, NEW o \in Object \cup {None}
  PROVE  /\ At(op, pc, i, o) \in CallRecord /\ Idle \in CallRecord
         /\ At(op, pc, i, o).op = op /\ At(op, pc, i, o).pc = pc
         /\ At(op, pc, i, o).id = i /\ At(op, pc, i, o).obj = o
         /\ Idle.op = "none" /\ Idle.pc = "idle" /\ Idle.id = None
BY DEF At, Idle, CallRecord, Ops, Pcs

LEMMA CallFields ==
  ASSUME NEW k \in CallRecord
  PROVE  /\ k.op \in Ops /\ k.pc \in Pcs /\ k.id \in Id \cup {None} /\ k.obj \in Object \cup {None}
         /\ \A pc \in Pcs : [k EXCEPT !.pc = pc] = At(k.op, pc, k.id, k.obj)
BY DEF CallRecord, At

-----------------------------------------------------------------------------
(* What a step does to the objects                                          *)

\* Nothing is constructed and no object forgotten.
Kept ==
  /\ object' \in [Object -> ObjectRecord]
  /\ \A o \in Object : object'[o].id = object[o].id /\ (Made(o)' <=> Made(o))

LEMMA BecomesKeeps ==
  ASSUME ObjectsOK, NEW o \in Object, NEW s \in States \ {"none"}, Made(o), Becomes(o, s)
  PROVE  Kept
BY DEF ObjectsOK, Becomes, Kept, Made, ObjectRecord

LEMMA PurgeKeeps ==
  ASSUME ObjectsOK, NEW o \in Object, NEW s \in States \ {"none"}, Made(o),
         PurgedTo(o, s) \/ PurgeFails(o, s)
  PROVE  Kept
<1>1. object[o] \in ObjectRecord
  BY DEF ObjectsOK
<1> DEFINE r == [object[o] EXCEPT !.state = s, !.purgeBegun = TRUE]
<1>2. r \in ObjectRecord /\ r.state = s /\ r.id = object[o].id
  BY <1>1 DEF ObjectRecord
<1>3. object' = [object EXCEPT ![o] = r]
  BY DEF PurgedTo, PurgeFails, ObjectsOK
<1> HIDE DEF r
<1> QED BY <1>2, <1>3 DEF ObjectsOK, Kept, Made

LEMMA HaltedType ==
  ASSUME NEW o PROVE Halted(o) \in {"down", "logged_out"} /\ Halted(o) \in States \ {"none"}
BY DEF Halted, States

LEMMA TakenIsObject ==
  ASSUME ObjectsOK, NEW i \in Id, Taken(i)
  PROVE  sessions[i] \in Object /\ Made(sessions[i]) /\ object[sessions[i]].id = i
BY DEF ObjectsOK, Taken

LEMMA OnItsObject ==
  ASSUME CallsOK, NEW c \in Call, call[c].pc \in OnObject
  PROVE  /\ call[c].id \in Id /\ call[c].obj \in Object /\ Made(call[c].obj)
         /\ object[call[c].obj].id = call[c].id
BY DEF CallsOK, CallShape

\* The object Registered constructs.
Fresh(op, i) ==
  [id |-> i, destroyed |-> FALSE, purgeBegun |-> FALSE,
   state |-> IF op = "createAndStart" THEN "starting" ELSE "down"]

LEMMA DestroyOneHalts ==
  ASSUME ObjectsOK, NEW c, NEW o \in Object, DestroyOne(c, o)
  PROVE  /\ Kept /\ ~Running(o)'
         /\ \A x \in Object : Running(x)' => Running(x)
<1>1. object[o] \in ObjectRecord /\ Made(o)
  BY DEF ObjectsOK, DestroyOne
<1> DEFINE r == [object[o] EXCEPT !.state = Halted(o), !.destroyed = TRUE]
<1>2. r \in ObjectRecord /\ r.state \in {"down", "logged_out"} /\ r.id = object[o].id
  BY <1>1, HaltedType DEF ObjectRecord
<1>3. object' = [object EXCEPT ![o] = r]
  BY DEF DestroyOne, ObjectsOK
<1> HIDE DEF r
<1> QED BY <1>1, <1>2, <1>3 DEF ObjectsOK, Kept, Made, Running

\* A stop, or a logout, brings its own object down, up again, or nowhere, and
\* what goes on to deregister has it down.
LEMMA HaltKeeps ==
  ASSUME ObjectsOK, CallsOK, NEW c \in Call, StopEnds(c) \/ LogoutEnds(c)
  PROVE  /\ Kept /\ \A o \in Object \ {call[c].obj} : object'[o] = object[o]
         /\ \/ Returns(c)
            \/ Goes(c, "starting") /\ UNCHANGED fan
            \/ /\ Goes(c, "deregistering") /\ UNCHANGED fan
               /\ object'[call[c].obj].state \notin {"starting", "up"}
<1>1. /\ call[c].obj \in Object /\ Made(call[c].obj)
      /\ {"starting", "logged_out"} \subseteq States \ {"none"}
  BY OnItsObject DEF StopEnds, LogoutEnds, OnObject, States
<1>2. ASSUME NEW s \in States \ {"none"}, Becomes(call[c].obj, s)
      PROVE  Kept /\ \A o \in Object \ {call[c].obj} : object'[o] = object[o]
  BY <1>1, <1>2, BecomesKeeps DEF Becomes, ObjectsOK
<1>3. ASSUME NEW s \in States \ {"none"},
             PurgedTo(call[c].obj, s) \/ PurgeFails(call[c].obj, s)
      PROVE  Kept /\ \A o \in Object \ {call[c].obj} : object'[o] = object[o]
  BY <1>1, <1>3, PurgeKeeps DEF PurgedTo, PurgeFails, Becomes, ObjectsOK
<1>4. ASSUME NEW s \in {"down", "logged_out"}, PurgedTo(call[c].obj, s)
      PROVE  object'[call[c].obj].state \notin {"starting", "up"}
  BY <1>1, <1>4 DEF PurgedTo, ObjectsOK, ObjectRecord
<1>5. CASE StopEnds(c)
  <2>1. call[c].op \in {"stop", "restart", "remove"}
    BY <1>5 DEF StopEnds, CallsOK, CallShape
  <2>2. CASE call[c].op = "stop"
    BY <1>2, <1>5, <2>2, HaltedType DEF StopEnds
  <2>3. CASE call[c].op = "restart"
    BY <1>1, <1>2, <1>5, <2>3, HaltedType DEF StopEnds
  <2>4. CASE call[c].op = "remove"
    BY <1>3, <1>4, <1>5, <2>4, HaltedType DEF StopEnds
  <2> QED BY <2>1, <2>2, <2>3, <2>4
<1>6. CASE LogoutEnds(c)
  <2>1. ASSUME UNCHANGED object
        PROVE  Kept /\ \A o \in Object \ {call[c].obj} : object'[o] = object[o]
    BY <2>1 DEF Kept, ObjectsOK, Made
  <2> QED BY <1>1, <1>3, <1>4, <1>6, <2>1 DEF LogoutEnds
<1> QED BY <1>5, <1>6

\* Every step but Registered keeps the objects.
LEMMA StepKeeps ==
  ASSUME Typed, [Next]_vars, \A c \in Call : ~Registered(c)
  PROVE  Kept
<1> USE DEF Typed
<1>0. ASSUME UNCHANGED object PROVE Kept
  BY <1>0 DEF Kept, ObjectsOK, Made
<1>1. ASSUME NEW c \in Call, NEW i \in Id, Start(c, i) PROVE Kept
  BY <1>1, TakenIsObject, BecomesKeeps DEF Start, States
<1>2. ASSUME NEW c \in Call, StartEnds(c) PROVE Kept
  BY <1>2, OnItsObject, BecomesKeeps DEF StartEnds, States, OnObject
<1>3. ASSUME NEW c \in Call, StopEnds(c) \/ LogoutEnds(c) PROVE Kept
  BY <1>3, HaltKeeps
<1>5. ASSUME NEW o \in Object, Unlinked(o) PROVE Kept
  BY <1>5, PurgeKeeps DEF Unlinked, States, Made
<1>6. ASSUME NEW o \in Object, Reset(o) PROVE Kept
  BY <1>6, BecomesKeeps DEF Reset, States, Made
<1>7. ASSUME NEW c \in Call, NEW o \in Object, DestroyOne(c, o) PROVE Kept
  BY <1>7, DestroyOneHalts
<1>8. CASE UNCHANGED vars
  BY <1>0, <1>8 DEF vars
<1> QED BY <1>0, <1>1, <1>2, <1>3, <1>5, <1>6, <1>7, <1>8
        DEF Next, Resume, Create, Prepared, CreateFails, Stop, Logout, Deregistered, Load,
            Listed, Take, LoadEnds, Destroy, DestroyEnds

\* A registration constructs one object, under the id of its call.
LEMMA RegisteredMakes ==
  ASSUME Typed, NEW c \in Call, Registered(c)
  PROVE  \E o \in Object :
           /\ ~Made(o)
           /\ call[c].id \in Id /\ Fresh(call[c].op, call[c].id) \in ObjectRecord
           /\ sessions' = [sessions EXCEPT ![call[c].id] = o]
           /\ object' = [object EXCEPT ![o] = Fresh(call[c].op, call[c].id)]
<1>1. call[c].id \in Id
  BY DEF Typed, CallsOK, CallShape, Registered, Creating
<1>2. Fresh(call[c].op, call[c].id) \in ObjectRecord
  BY <1>1 DEF Fresh, ObjectRecord, States
<1> QED BY <1>1, <1>2 DEF Registered, Fresh, Made

LEMMA StepGrows ==
  ASSUME Typed, [Next]_vars
  PROVE  /\ object' \in [Object -> ObjectRecord]
         /\ \A o \in Object : Made(o) => Made(o)' /\ object'[o].id = object[o].id
<1>1. ASSUME NEW c \in Call, Registered(c)
      PROVE  /\ object' \in [Object -> ObjectRecord]
             /\ \A o \in Object : Made(o) => Made(o)' /\ object'[o].id = object[o].id
  BY <1>1, RegisteredMakes DEF Typed, ObjectsOK, Made
<1> QED BY <1>1, StepKeeps DEF Kept

LEMMA ObjectsStep ==
  ASSUME Typed, [Next]_vars PROVE ObjectsOK'
<1> USE DEF Typed
<1>1. ASSUME NEW c \in Call, Registered(c) PROVE ObjectsOK'
  <2>1. PICK o \in Object :
           /\ ~Made(o)
           /\ call[c].id \in Id /\ Fresh(call[c].op, call[c].id) \in ObjectRecord
           /\ sessions' = [sessions EXCEPT ![call[c].id] = o]
           /\ object' = [object EXCEPT ![o] = Fresh(call[c].op, call[c].id)]
    BY <1>1, RegisteredMakes
  <2>2. /\ Fresh(call[c].op, call[c].id).id = call[c].id
        /\ Fresh(call[c].op, call[c].id).state # "none"
    BY DEF Fresh
  <2>3. doomed' = doomed
    BY <1>1 DEF Registered, shutdown
  <2> QED BY <2>1, <2>2, <2>3, NoneAssumption DEF ObjectsOK, Made, Taken
<1>2. ASSUME \A c \in Call : ~Registered(c) PROVE ObjectsOK'
  <2>1. Kept
    BY <1>2, StepKeeps
  <2>2. /\ sessions' \in [Id -> Object \cup {None}]
        /\ \A i \in Id : sessions'[i] = sessions[i] \/ sessions'[i] = None
    BY <1>2 DEF Next, vars, Resume, ObjectsOK, Create, Start, Stop, Logout, Load, Destroy,
        Prepared, CreateFails, StartEnds, StopEnds, LogoutEnds, Deregistered, Listed, Take,
        LoadEnds, DestroyEnds, DestroyOne, Unlinked, Reset, Unregistered
  <2>3. doomed' \subseteq doomed \cup InMap
    BY <1>2 DEF Next, vars, shutdown, Resume, Create, Start, Stop, Logout, Load, Destroy,
        Prepared, CreateFails, StartEnds, StopEnds, LogoutEnds, Deregistered, Listed, Take,
        LoadEnds, DestroyEnds, DestroyOne, Unlinked, Reset
  <2>4. \A o \in InMap : o \in Object /\ Made(o)
    BY DEF InMap, ObjectsOK, Taken
  <2> QED BY <2>1, <2>2, <2>3, <2>4 DEF Kept, ObjectsOK, Taken, Made
<1> QED BY <1>1, <1>2

-----------------------------------------------------------------------------
(* What a step does to the calls                                            *)

LEMMA SettlesCalls ==
  ASSUME CallsOK, NEW c \in Call, NEW ok \in BOOLEAN, Settles(c, ok)
  PROVE  /\ call' \in [Call -> CallRecord] /\ call'[c] = Idle
         /\ \A k \in Call : call'[k] \in {call[k], Idle}
         /\ \A k \in Call \ {c} :
              call'[k] = call[k] \/ (c \in fan.busy /\ k = fan.by /\ ~ok /\ ~fan.failed)
<1>1. Idle \in CallRecord
  BY DEF Idle, CallRecord, Ops, Pcs
<1>2. CASE c \notin fan.busy
  BY <1>1, <1>2 DEF Settles, CallsOK
<1>3. CASE c \in fan.busy
  BY <1>1, <1>3 DEF Settles, CallsOK
<1> QED BY <1>2, <1>3

\* Call c is the only one that moves: to r.
Moves(c, r) == call' = [call EXCEPT ![c] = r]

LEMMA GoesMoves ==
  ASSUME CallsOK, NEW c \in Call, NEW pc \in Pcs, Goes(c, pc)
  PROVE  \E r \in CallRecord : /\ Moves(c, r) /\ r.pc = pc /\ r.op = call[c].op
                               /\ r.id = call[c].id /\ r.obj = call[c].obj
<1>1. call[c] \in CallRecord
  BY DEF CallsOK
<1>2. call' = [call EXCEPT ![c] = [call[c] EXCEPT !.pc = pc]]
  BY DEF Goes, CallsOK
<1>3. [call[c] EXCEPT !.pc = pc] \in CallRecord
  BY <1>1 DEF CallRecord
<1>4. /\ [call[c] EXCEPT !.pc = pc].pc = pc /\ [call[c] EXCEPT !.pc = pc].op = call[c].op
      /\ [call[c] EXCEPT !.pc = pc].id = call[c].id /\ [call[c] EXCEPT !.pc = pc].obj = call[c].obj
  BY <1>1 DEF CallRecord
<1> QED BY <1>2, <1>3, <1>4 DEF Moves

\* What a call holds stays what it is.
LEMMA ShapeKept ==
  ASSUME Typed, [Next]_vars, NEW k, CallShape(k) PROVE CallShape(k)'
<1>1. destroyed => destroyed'
  BY DEF Next, vars, shutdown, Resume, Create, Start, Stop, Logout, Load, Destroy, Prepared,
      Registered, CreateFails, StartEnds, StopEnds, LogoutEnds, Deregistered, Listed, Take,
      LoadEnds, DestroyEnds, DestroyOne, Unlinked, Reset
<1> QED BY <1>1, StepGrows DEF CallShape, Idle, OnObject

LEMMA IdleShape == CallShape(Idle) /\ CallShape(Idle)'
BY DEF CallShape, Idle, Creating, OnObject

LEMMA MovesCalls ==
  ASSUME Typed, [Next]_vars, NEW c \in Call, NEW r \in CallRecord, Moves(c, r), CallShape(r)'
  PROVE  CallsOK'
<1>1. call' \in [Call -> CallRecord] /\ \A k \in Call : call'[k] = IF k = c THEN r ELSE call[k]
  BY DEF Typed, CallsOK, Moves
<1>2. ASSUME NEW k \in Call PROVE CallShape(call[k])'
  <2>1. CASE k = c
    BY <1>1, <2>1 DEF CallShape
  <2>2. CASE k # c
    <3>1. CallShape(call[k])
      BY DEF Typed, CallsOK
    <3> HIDE DEF CallShape
    <3> QED BY <1>1, <2>2, <3>1, ShapeKept
  <2> QED BY <2>1, <2>2
<1> QED BY <1>1, <1>2 DEF CallsOK

LEMMA SettlesKeepsCalls ==
  ASSUME Typed, [Next]_vars, NEW c \in Call, NEW ok \in BOOLEAN, Settles(c, ok)
  PROVE  CallsOK'
<1>1. call' \in [Call -> CallRecord] /\ \A k \in Call : call'[k] \in {call[k], Idle}
  BY SettlesCalls DEF Typed
<1>2. ASSUME NEW k \in Call PROVE CallShape(call[k])'
  <2>1. CallShape(call[k])
    BY DEF Typed, CallsOK
  <2> QED BY <1>1, <2>1, ShapeKept, IdleShape
<1> QED BY <1>1, <1>2 DEF CallsOK

LEMMA CallsStep ==
  ASSUME Typed, [Next]_vars PROVE CallsOK'
<1> USE DEF Typed
<1>0. ASSUME UNCHANGED call PROVE CallsOK'
  <2>1. ASSUME NEW k \in Call PROVE CallShape(call[k])'
    BY <1>0, ShapeKept DEF CallsOK
  <2> QED BY <1>0, <2>1 DEF CallsOK
<1>1. ASSUME NEW c \in Call, NEW i \in Id, Create(c, i) PROVE CallsOK'
  <2>1. PICK op \in {"create", "createAndStart"} : Moves(c, At(op, "preparing", i, None))
    BY <1>1 DEF Create, Moves
  <2>2. At(op, "preparing", i, None) \in CallRecord /\ CallShape(At(op, "preparing", i, None))'
    BY AtType DEF Ops, Pcs, CallShape, Creating, OnObject
  <2> QED BY <2>1, <2>2, MovesCalls
<1>2. ASSUME NEW c \in Call, NEW i \in Id, Start(c, i) \/ Stop(c, i) \/ Logout(c, i)
      PROVE  CallsOK'
  <2>1. Taken(i)
    BY <1>2 DEF Start, Stop, Logout
  <2>2. PICK o \in Object : o = sessions[i] /\ Made(o) /\ object[o].id = i
    BY <2>1, TakenIsObject
  <2>3. Made(o)' /\ object'[o].id = i
    BY <2>2, StepGrows DEF Made
  <2>4. PICK op \in Ops, pc \in OnObject \ {"deregistering"} :
          /\ Moves(c, At(op, pc, i, o))
          /\ pc = "stopping" => op \in {"stop", "restart", "remove"}
    BY <1>2, <2>2 DEF Start, Stop, Logout, Moves, Ops, OnObject
  <2>5. At(op, pc, i, o) \in CallRecord /\ CallShape(At(op, pc, i, o))'
    BY <2>2, <2>3, <2>4, AtType DEF Pcs, CallShape, Creating, OnObject, Made
  <2> QED BY <2>4, <2>5, MovesCalls
<1>3. ASSUME NEW c \in Call, Prepared(c) PROVE CallsOK'
  <2>1. call[c] \in CallRecord /\ CallShape(call[c]) /\ call[c].pc = "preparing"
    BY <1>3 DEF CallsOK, Prepared
  <2>2. PICK r \in CallRecord : Moves(c, r) /\ r.pc = "writing" /\ r.op = call[c].op
                              /\ r.id = call[c].id
    BY <1>3, GoesMoves DEF Prepared, Pcs
  <2>3. CallShape(r)'
    BY <2>1, <2>2 DEF CallShape, Creating, OnObject
  <2> QED BY <2>2, <2>3, MovesCalls
<1>4. ASSUME NEW c \in Call, Registered(c) PROVE CallsOK'
  <2>1. CASE Returns(c)
    BY <2>1, SettlesKeepsCalls DEF Returns
  <2>2. CASE ~Returns(c)
    <3>1. PICK i \in Id, o \in Object, n \in ObjectRecord :
            /\ Moves(c, At("create", "starting", i, o))
            /\ n = Fresh(call[c].op, i) /\ object' = [object EXCEPT ![o] = n]
      <4>1. call[c].id \in Id /\ Fresh(call[c].op, call[c].id) \in ObjectRecord
        BY <1>4, RegisteredMakes
      <4>2. \E o \in Object :
              /\ object' = [object EXCEPT ![o] = Fresh(call[c].op, call[c].id)]
              /\ Moves(c, At("create", "starting", call[c].id, o))
        BY <1>4, <2>2 DEF Registered, Moves, Fresh
      <4> QED BY <4>1, <4>2
    <3>2. Made(o)' /\ object'[o].id = i
      BY <3>1 DEF Made, Fresh, ObjectsOK
    <3>3. At("create", "starting", i, o) \in CallRecord
          /\ CallShape(At("create", "starting", i, o))'
      BY <3>1, <3>2, AtType DEF Ops, Pcs, CallShape, Creating, OnObject, Made
    <3> QED BY <3>1, <3>3, MovesCalls
  <2> QED BY <2>1, <2>2
<1>5. ASSUME NEW c \in Call, StopEnds(c) \/ LogoutEnds(c) PROVE CallsOK'
  <2>1. call[c] \in CallRecord /\ CallShape(call[c])
        /\ call[c].pc \in {"stopping", "unlinking"}
    BY <1>5 DEF CallsOK, StopEnds, LogoutEnds
  <2>2. Returns(c) \/ Goes(c, "deregistering") \/ Goes(c, "starting")
    BY <1>5, <2>1 DEF StopEnds, LogoutEnds, CallShape
  <2>3. CASE Returns(c)
    BY <2>3, SettlesKeepsCalls DEF Returns
  <2>4. ASSUME NEW pc \in {"deregistering", "starting"}, Goes(c, pc) PROVE CallsOK'
    <3>1. PICK r \in CallRecord : /\ Moves(c, r) /\ r.pc = pc /\ r.op = call[c].op
                                 /\ r.id = call[c].id /\ r.obj = call[c].obj
      BY <2>4, GoesMoves DEF Pcs
    <3>2. r.id \in Id /\ r.obj \in Object /\ Made(r.obj) /\ object[r.obj].id = r.id
      BY <2>1, <3>1, OnItsObject DEF OnObject
    <3>3. Made(r.obj)' /\ object'[r.obj].id = r.id
      BY <3>2, StepGrows
    <3>4. CallShape(r)'
      BY <2>1, <3>1, <3>2, <3>3 DEF CallShape, Creating, OnObject
    <3> QED BY <3>1, <3>4, MovesCalls
  <2> QED BY <2>2, <2>3, <2>4
<1>6. ASSUME NEW c \in Call, Load(c) PROVE CallsOK'
  <2>1. Moves(c, At("load", "listing", None, None))
    BY <1>6 DEF Load, Moves
  <2>2. /\ At("load", "listing", None, None) \in CallRecord
        /\ CallShape(At("load", "listing", None, None))'
    BY AtType DEF Ops, Pcs, CallShape, Creating, OnObject
  <2> QED BY <2>1, <2>2, MovesCalls
<1>7. ASSUME NEW c \in Call, Listed(c) PROVE CallsOK'
  <2>1. CASE Returns(c)
    BY <2>1, SettlesKeepsCalls DEF Returns
  <2>2. CASE Goes(c, "loading")
    <3>1. call[c] \in CallRecord /\ CallShape(call[c]) /\ call[c].pc = "listing"
      BY <1>7 DEF CallsOK, Listed
    <3>2. PICK r \in CallRecord : Moves(c, r) /\ r.pc = "loading" /\ r.id = call[c].id
      BY <2>2, GoesMoves DEF Pcs
    <3>3. CallShape(r)'
      BY <3>1, <3>2 DEF CallShape, Creating, OnObject
    <3> QED BY <3>2, <3>3, MovesCalls
  <2> QED BY <1>7, <2>1, <2>2 DEF Listed
<1>8. ASSUME NEW w \in Call, Take(w) PROVE CallsOK'
  <2>1. PICK i \in fan.todo :
          \/ Moves(w, At(IF fan.start THEN "createAndStart" ELSE "create", "preparing", i, None))
          \/ call' = call \/ Moves(fan.by, Idle)
    BY <1>8 DEF Take, Moves
  <2>2. i \in Id
    BY DEF FanOK, FanRecord
  <2>3. CASE call' = call
    BY <1>0, <2>3
  <2>4. CASE Moves(fan.by, Idle)
    <3>1. CASE fan.by \in Call
      <4>1. Idle \in CallRecord
        BY DEF Idle, CallRecord, Ops, Pcs
      <4> QED BY <2>4, <3>1, <4>1, MovesCalls, IdleShape
    <3>2. CASE fan.by \notin Call
      BY <1>0, <2>4, <3>2 DEF Moves, CallsOK
    <3> QED BY <3>1, <3>2
  <2>5. ASSUME NEW op \in {"create", "createAndStart"}, Moves(w, At(op, "preparing", i, None))
        PROVE  CallsOK'
    <3>1. At(op, "preparing", i, None) \in CallRecord /\ CallShape(At(op, "preparing", i, None))'
      BY <2>2, AtType DEF Ops, Pcs, CallShape, Creating, OnObject
    <3> QED BY <2>5, <3>1, MovesCalls
  <2> QED BY <2>1, <2>3, <2>4, <2>5
<1>9. ASSUME NEW c \in Call, Destroy(c) PROVE CallsOK'
  <2>1. Moves(c, At("destroy", "destroying", None, None)) /\ destroyed'
    BY <1>9 DEF Destroy, Moves
  <2>2. /\ At("destroy", "destroying", None, None) \in CallRecord
        /\ CallShape(At("destroy", "destroying", None, None))'
    BY <2>1, AtType DEF Ops, Pcs, CallShape, Creating, OnObject
  <2> QED BY <2>1, <2>2, MovesCalls
<1>10. ASSUME NEW c \in Call,
              CreateFails(c) \/ StartEnds(c) \/ Deregistered(c) \/ LoadEnds(c) \/ DestroyEnds(c)
       PROVE  CallsOK'
  BY <1>10, SettlesKeepsCalls
     DEF CreateFails, StartEnds, Deregistered, LoadEnds, DestroyEnds, Returns, Throws
<1> QED BY <1>0, <1>1, <1>2, <1>3, <1>4, <1>5, <1>6, <1>7, <1>8, <1>9, <1>10
        DEF Next, Resume, DestroyOne, Unlinked, Reset, vars

LEMMA SwitchesStep ==
  ASSUME Typed, [Next]_vars PROVE SwitchesOK'
<1> USE DEF Typed
<1>1. destroyed' \in BOOLEAN /\ adaptersOpen' \in BOOLEAN
  BY DEF SwitchesOK, Next, vars, shutdown, Resume, Create, Start, Stop, Logout, Load, Destroy,
      Prepared, Registered, CreateFails, StartEnds, StopEnds, LogoutEnds, Deregistered, Listed,
      Take, LoadEnds, DestroyEnds, DestroyOne, Unlinked, Reset
<1>2. ASSUME NEW c \in Call, Registered(c) \/ CreateFails(c) PROVE meta' \subseteq Id
  <2>1. call[c].pc \in Creating => call[c].id \in Id
    BY DEF CallsOK, CallShape
  <2> QED BY <1>2, <2>1 DEF SwitchesOK, Registered, CreateFails, Written, Creating
<1>3. ASSUME NEW c \in Call, StopEnds(c) PROVE meta' \subseteq meta
  <2>1. call[c].op \in {"stop", "restart", "remove"}
    BY <1>3 DEF CallsOK, CallShape, StopEnds
  <2> QED BY <1>3, <2>1 DEF StopEnds, PurgedTo, PurgeFails
<1>4. ASSUME \A c \in Call : ~Registered(c) /\ ~CreateFails(c) /\ ~StopEnds(c)
      PROVE  meta' \subseteq meta
  BY <1>4 DEF Next, vars, Resume, Create, Start, Stop, Logout, Load, Destroy,
      Prepared, StartEnds, LogoutEnds, Deregistered, Listed,
      Take, LoadEnds, DestroyEnds, DestroyOne, Unlinked, Reset, PurgedTo, PurgeFails
<1> QED BY <1>1, <1>2, <1>3, <1>4 DEF SwitchesOK

-----------------------------------------------------------------------------
(* What a step does to the load                                             *)

\* The runners are making something: nothing is over.
LEMMA BusyIsOn ==
  ASSUME Typed, NEW c \in fan.busy
  PROVE  /\ c \in Call /\ ~FanIsOver /\ call[c].id \in fan.listed /\ fan.by \in Call
         /\ call[c].pc \in {"preparing", "writing", "starting"}
         /\ \A k \in Call : call[k].pc # "listing"
         /\ ~fan.failed => call[fan.by].pc = "loading" /\ fan.by \notin fan.busy
BY DEF Typed, FanOK, FanRecord, FanIsOver, Creating

LEMMA FanKept ==
  ASSUME Typed, NEW c \in Call, NEW r \in CallRecord, Moves(c, r), UNCHANGED fan,
         {call[c].pc, r.pc} \cap {"listing", "loading"} = {},
         c \in fan.busy => r.pc \in Creating \cup {"starting"} /\ r.id = call[c].id
  PROVE  FanOK'
<1>1. \A k \in Call : call'[k] = IF k = c THEN r ELSE call[k]
  BY DEF Typed, CallsOK, Moves
<1>2. fan.busy \subseteq Call /\ FanIsOver' = FanIsOver
  BY DEF Typed, FanOK, FanRecord, FanIsOver
<1>3. {call'[w].id : w \in fan.busy} = {call[w].id : w \in fan.busy}
  BY <1>1, <1>2
<1> QED BY <1>1, <1>2, <1>3 DEF Typed, FanOK

LEMMA FanSettles ==
  ASSUME Typed, NEW c \in Call, NEW ok \in BOOLEAN, Settles(c, ok),
         call[c].pc = "loading" => FanIsOver
  PROVE  FanOK'
<1> USE DEF Typed
<1>1. /\ call'[c] = Idle /\ Idle.pc = "idle"
      /\ \A k \in Call : call'[k] \in {call[k], Idle}
      /\ \A k \in Call \ {c} :
              call'[k] = call[k] \/ (c \in fan.busy /\ k = fan.by /\ ~ok /\ ~fan.failed)
  BY SettlesCalls DEF Idle
<1>2. /\ fan \in FanRecord /\ fan.busy \subseteq Call /\ fan.runners \in Nat
      /\ IsFiniteSet(fan.busy) /\ Cardinality(fan.busy) \in Nat
      /\ Concurrency \in Nat
  BY FS_CardinalityType, ConcurrencyAssumption DEF FanOK, FanRecord
<1>3. CASE c \notin fan.busy
  <2>1. UNCHANGED fan
    BY <1>3 DEF Settles
  <2>2. {call'[w].id : w \in fan.busy} = {call[w].id : w \in fan.busy}
    BY <1>1, <1>2, <1>3
  <2> QED BY <1>1, <1>2, <1>3, <2>1, <2>2 DEF FanOK, FanIsOver
<1>4. CASE c \in fan.busy
  <2> DEFINE f == [fan EXCEPT !.busy = @ \ {c}, !.failed = @ \/ ~ok,
                              !.runners = IF ok THEN @ ELSE @ - 1,
                              !.made = IF ok THEN @ \cup {call[c].id} ELSE @]
  <2>1. fan' = f
    BY <1>4 DEF Settles
  <2>2. IsFiniteSet(fan.busy \ {c}) /\ Cardinality(fan.busy \ {c}) = Cardinality(fan.busy) - 1
    BY <1>2, <1>4, FS_RemoveElement
  <2>3. Cardinality(fan.busy) <= fan.runners /\ Cardinality(fan.busy \ {c}) \in Nat
    BY <1>2, <2>2, FS_CardinalityType DEF FanOK
  <2>4. /\ ~FanIsOver /\ call[c].id \in fan.listed /\ fan.by \in Call
        /\ \A k \in Call : call[k].pc # "listing"
        /\ ~fan.failed => call[fan.by].pc = "loading" /\ fan.by \notin fan.busy
    BY <1>4, BusyIsOn
  <2>5. fan.listed \in SUBSET Id
    BY <1>2 DEF FanRecord
  <2>6. /\ fan'.by = fan.by /\ fan'.listed = fan.listed /\ fan'.todo = fan.todo
        /\ fan'.busy = fan.busy \ {c} /\ fan'.failed = (fan.failed \/ ~ok)
        /\ fan'.runners = IF ok THEN fan.runners ELSE fan.runners - 1
        /\ fan'.made = IF ok THEN fan.made \cup {call[c].id} ELSE fan.made
        /\ fan'.start = fan.start
    BY <1>2, <2>1 DEF FanRecord
  <2>7. fan' \in FanRecord
    <3>1. fan.made \cup {call[c].id} \in SUBSET Id /\ fan.busy \ {c} \in SUBSET Call
          /\ fan.runners - 1 \in Nat
      BY <1>2, <2>2, <2>3, <2>4, <2>5 DEF FanRecord
    <3> QED BY <1>2, <2>1, <3>1 DEF FanRecord
  <2>8. \A w \in fan.busy \ {c} : call'[w] = call[w]
    BY <1>1, <1>2, <2>4
  <2>9. ~fan'.failed =>
          /\ fan'.listed = fan'.todo \cup fan'.made \cup {call'[w].id : w \in fan'.busy}
          /\ call'[fan.by] = call[fan.by]
    <3> SUFFICES ASSUME ~fan.failed, ok
                 PROVE  /\ fan.listed = fan.todo \cup (fan.made \cup {call[c].id})
                                        \cup {call'[w].id : w \in fan.busy \ {c}}
                        /\ call'[fan.by] = call[fan.by]
      BY <2>6
    <3>1. {call'[w].id : w \in fan.busy \ {c}} \cup {call[c].id} = {call[w].id : w \in fan.busy}
      BY <1>4, <2>8
    <3>2. fan.listed = fan.todo \cup fan.made \cup {call[w].id : w \in fan.busy}
      BY DEF FanOK
    <3> QED BY <1>1, <1>4, <2>4, <3>1, <3>2
  <2> HIDE DEF f
  <2>10. IsFiniteSet(fan'.busy) /\ Cardinality(fan'.busy) <= fan'.runners
         /\ fan'.runners <= Concurrency + 1
    BY <1>2, <2>2, <2>3, <2>6 DEF FanOK
  <2>11. fan'.todo \subseteq fan'.listed /\ fan'.made \subseteq fan'.listed
    BY <2>4, <2>6 DEF FanOK
  <2>12. \A w \in fan'.busy : call'[w].pc \in Creating \cup {"starting"}
                              /\ call'[w].id \in fan'.listed
    BY <2>6, <2>8 DEF FanOK
  <2>13. \A k \in Call : /\ call'[k].pc # "listing"
                         /\ call'[k].pc = "loading" => k = fan.by
    BY <1>1, <2>4 DEF FanOK
  <2> QED BY <2>4, <2>6, <2>7, <2>9, <2>10, <2>11, <2>12, <2>13 DEF FanOK
<1> QED BY <1>3, <1>4

LEMMA WidthType ==
  ASSUME NEW S \in SUBSET Id
  PROVE  Width(S) \in Nat /\ Width(S) <= Concurrency + 1
BY IdAssumption, ConcurrencyAssumption, FS_Subset, FS_CardinalityType DEF Width

LEMMA LoadStep ==
  ASSUME Typed, CallsOK', NEW c \in Call, Load(c) PROVE FanOK'
<1> USE DEF Typed
<1>1. PICK auto \in BOOLEAN : fan' = [fan EXCEPT !.by = c, !.start = auto]
  BY DEF Load
<1>2. fan \in FanRecord /\ FanIsOver /\ fan.busy = {}
  BY DEF FanOK, Load, FanIsOver
<1>3. /\ fan' \in FanRecord /\ fan'.by = c
      /\ fan'.listed = fan.listed /\ fan'.todo = fan.todo /\ fan'.busy = {}
      /\ fan'.runners = fan.runners /\ fan'.made = fan.made /\ fan'.failed = fan.failed
  BY <1>1, <1>2 DEF FanRecord
<1>4. \A k \in Call : call'[k].pc = IF k = c THEN "listing" ELSE "idle"
  BY DEF Load, CallsOK, At, Idle
<1> QED BY <1>2, <1>3, <1>4 DEF FanOK, FanIsOver

LEMMA ListedStep ==
  ASSUME Typed, NEW c \in Call, Listed(c) PROVE FanOK'
<1> USE DEF Typed
<1>1. CASE Returns(c)
  BY <1>1, FanSettles DEF Listed, Returns
<1>2. CASE ~Returns(c)
  <2> DEFINE ids == {i \in meta : ~Taken(i)}
  <2>1. /\ fan' = [fan EXCEPT !.listed = ids, !.todo = ids, !.runners = Width(ids),
                              !.made = {}, !.failed = FALSE]
        /\ Goes(c, "loading") /\ call[c].pc = "listing"
    BY <1>2 DEF Listed
  <2>2. fan \in FanRecord /\ FanIsOver /\ fan.busy = {} /\ c = fan.by
    BY <2>1 DEF FanOK, FanIsOver
  <2>3. ids \in SUBSET Id /\ Width(ids) \in Nat /\ Width(ids) <= Concurrency + 1
    BY WidthType DEF SwitchesOK
  <2> HIDE DEF ids
  <2>4. /\ fan' \in FanRecord /\ fan'.by = c /\ fan'.listed = ids /\ fan'.todo = ids
        /\ fan'.busy = {} /\ fan'.runners = Width(ids) /\ fan'.made = {} /\ ~fan'.failed
    BY <2>1, <2>2, <2>3 DEF FanRecord
  <2>5. /\ call'[c].pc = "loading" /\ \A k \in Call \ {c} : call'[k] = call[k]
    BY <2>1, GoesMoves DEF Moves, CallsOK, Pcs
  <2>6. \A k \in Call \ {c} : call[k].pc \notin {"listing", "loading"}
    BY <2>2 DEF FanOK
  <2> QED BY <2>3, <2>4, <2>5, <2>6, FS_EmptySet DEF FanOK
<1> QED BY <1>1, <1>2

LEMMA TakeStep ==
  ASSUME Typed, NEW w \in Call, Take(w) PROVE FanOK'
<1> USE DEF Typed
<1>1. /\ fan \in FanRecord /\ fan.busy \subseteq Call /\ fan.runners \in Nat
      /\ IsFiniteSet(fan.busy) /\ Cardinality(fan.busy) \in Nat
      /\ Cardinality(fan.busy) < fan.runners /\ Concurrency \in Nat
  BY FS_CardinalityType, ConcurrencyAssumption DEF FanOK, FanRecord, Take
<1>2. /\ ~FanIsOver /\ fan.by \in Call /\ call[w] = Idle /\ w \notin fan.busy
      /\ \A k \in Call : call[k].pc # "listing"
      /\ ~fan.failed => call[fan.by].pc = "loading" /\ fan.by # w /\ fan.by \notin fan.busy
  BY <1>1 DEF Take, FanOK, FanIsOver, Idle, Creating
<1>3. PICK i \in fan.todo :
        \/ /\ fan' = [fan EXCEPT !.todo = @ \ {i}, !.busy = @ \cup {w}]
           /\ Moves(w, At(IF fan.start THEN "createAndStart" ELSE "create", "preparing", i, None))
        \/ /\ fan' = [fan EXCEPT !.todo = @ \ {i}, !.runners = @ - 1, !.failed = TRUE]
           /\ call' = IF fan.failed THEN call ELSE [call EXCEPT ![fan.by] = Idle]
  BY DEF Take, Moves
<1>4. CASE /\ fan' = [fan EXCEPT !.todo = @ \ {i}, !.busy = @ \cup {w}]
           /\ Moves(w, At(IF fan.start THEN "createAndStart" ELSE "create", "preparing", i, None))
  <2>1. /\ call'[w].pc = "preparing" /\ call'[w].id = i
        /\ \A k \in Call \ {w} : call'[k] = call[k]
    BY <1>4 DEF Moves, CallsOK, At
  <2>2. /\ IsFiniteSet(fan.busy \cup {w})
        /\ Cardinality(fan.busy \cup {w}) = Cardinality(fan.busy) + 1
    BY <1>1, <1>2, FS_AddElement
  <2>3. /\ fan' \in FanRecord /\ fan'.by = fan.by /\ fan'.listed = fan.listed
        /\ fan'.todo = fan.todo \ {i} /\ fan'.busy = fan.busy \cup {w}
        /\ fan'.runners = fan.runners /\ fan'.made = fan.made /\ fan'.failed = fan.failed
    BY <1>1, <1>4 DEF FanRecord
  <2>4. {call'[k].id : k \in fan'.busy} = {call[k].id : k \in fan.busy} \cup {i}
    BY <1>1, <1>2, <2>1, <2>3
  <2>5. i \in fan.listed
    BY DEF FanOK
  <2>6. fan.listed = fan.todo \cup fan.made \cup {call[k].id : k \in fan.busy} =>
          fan'.listed = fan'.todo \cup fan'.made \cup {call'[k].id : k \in fan'.busy}
    BY <2>3, <2>4, <2>5
  <2>7. \A k \in fan'.busy : call'[k].pc \in Creating \cup {"starting"}
                             /\ call'[k].id \in fan'.listed
    BY <1>1, <2>1, <2>3, <2>5 DEF FanOK, Creating
  <2>8. \A k \in Call : /\ call'[k].pc # "listing"
                        /\ call'[k].pc = "loading" => k = fan.by
    BY <1>2, <2>1 DEF FanOK
  <2> QED BY <1>1, <1>2, <2>1, <2>2, <2>3, <2>6, <2>7, <2>8 DEF FanOK
<1>5. CASE /\ fan' = [fan EXCEPT !.todo = @ \ {i}, !.runners = @ - 1, !.failed = TRUE]
           /\ call' = IF fan.failed THEN call ELSE [call EXCEPT ![fan.by] = Idle]
  <2>1. \A k \in Call : /\ call'[k].pc # "listing"
                        /\ call'[k].pc = "loading" => k = fan.by
                        /\ k \in fan.busy => call'[k] = call[k]
    BY <1>2, <1>5 DEF CallsOK, FanOK, Idle
  <2>2. fan.runners - 1 \in Nat
    BY <1>1
  <2>3. /\ fan' \in FanRecord /\ fan'.by = fan.by /\ fan'.listed = fan.listed
        /\ fan'.todo = fan.todo \ {i} /\ fan'.busy = fan.busy /\ fan'.failed
        /\ fan'.runners = fan.runners - 1 /\ fan'.made = fan.made
    BY <1>1, <1>5, <2>2 DEF FanRecord
  <2>4. Cardinality(fan'.busy) <= fan'.runners /\ fan'.runners <= Concurrency + 1
    BY <1>1, <2>3 DEF FanOK
  <2> QED BY <1>1, <1>2, <2>1, <2>3, <2>4 DEF FanOK
<1> QED BY <1>3, <1>4, <1>5

LEMMA FanStep ==
  ASSUME Typed, [Next]_vars, CallsOK' PROVE FanOK'
<1> USE DEF Typed
<1>0. ASSUME UNCHANGED <<call, fan>> PROVE FanOK'
  BY <1>0 DEF FanOK, FanIsOver
<1>1. ASSUME NEW c \in Call, NEW i \in Id,
             Create(c, i) \/ Start(c, i) \/ Stop(c, i) \/ Logout(c, i)
      PROVE  FanOK'
  <2>1. call[c] = Idle /\ UNCHANGED fan
    BY <1>1 DEF Create, Start, Stop, Logout, Enters
  <2>2. call[c].pc = "idle" /\ c \notin fan.busy
    BY <2>1 DEF Idle, FanOK, Creating
  <2>3. PICK r : Moves(c, r) /\ r.pc \in {"preparing", "starting", "stopping", "unlinking"}
    <3>1. \E op, o : \E pc \in {"preparing", "starting", "stopping", "unlinking"} :
             Moves(c, At(op, pc, i, o))
      BY <1>1 DEF Create, Start, Stop, Logout, Moves
    <3> QED BY <3>1 DEF At
  <2>4. r \in CallRecord
    BY <2>3 DEF Moves, CallsOK
  <2> QED BY <2>1, <2>2, <2>3, <2>4, FanKept
<1>2. ASSUME NEW c \in Call, Prepared(c) PROVE FanOK'
  <2>1. PICK r \in CallRecord : Moves(c, r) /\ r.pc = "writing" /\ r.id = call[c].id
    BY <1>2, GoesMoves DEF Prepared, Pcs
  <2> QED BY <1>2, <2>1, FanKept DEF Prepared, Creating
<1>3. ASSUME NEW c \in Call, Registered(c) PROVE FanOK'
  <2>1. CASE Returns(c)
    BY <1>3, <2>1, FanSettles DEF Registered, Returns
  <2>2. CASE ~Returns(c)
    <3>1. UNCHANGED fan /\ call[c].pc = "writing"
          /\ \E o \in Object : Moves(c, At("create", "starting", call[c].id, o))
      BY <1>3, <2>2 DEF Registered, Moves
    <3>2. PICK r : Moves(c, r) /\ r.pc = "starting" /\ r.id = call[c].id
      BY <3>1 DEF At
    <3>3. r \in CallRecord
      BY <3>2 DEF Moves, CallsOK
    <3> QED BY <3>1, <3>2, <3>3, FanKept
  <2> QED BY <2>1, <2>2
<1>4. ASSUME NEW c \in Call, StopEnds(c) \/ LogoutEnds(c) PROVE FanOK'
  <2>1. call[c].pc \in {"stopping", "unlinking"} /\ CallShape(call[c])
    BY <1>4 DEF CallsOK, StopEnds, LogoutEnds
  <2>2. c \notin fan.busy
    BY <2>1 DEF FanOK, Creating
  <2>3. Returns(c) \/ ((Goes(c, "deregistering") \/ Goes(c, "starting")) /\ UNCHANGED fan)
    BY <1>4, <2>1 DEF StopEnds, LogoutEnds, CallShape
  <2>4. CASE Returns(c)
    BY <2>1, <2>4, FanSettles DEF Returns
  <2>5. ASSUME NEW pc \in {"deregistering", "starting"}, Goes(c, pc), UNCHANGED fan
        PROVE  FanOK'
    <3>1. PICK r \in CallRecord : Moves(c, r) /\ r.pc = pc
      BY <2>5, GoesMoves DEF Pcs
    <3> QED BY <2>1, <2>2, <2>5, <3>1, FanKept
  <2> QED BY <2>3, <2>4, <2>5
<1>5. ASSUME NEW c \in Call, Destroy(c) PROVE FanOK'
  <2>1. call[c] = Idle /\ UNCHANGED fan /\ Moves(c, At("destroy", "destroying", None, None))
    BY <1>5 DEF Destroy, Moves
  <2>2. call[c].pc = "idle" /\ c \notin fan.busy
    BY <2>1 DEF Idle, FanOK, Creating
  <2>3. PICK r : Moves(c, r) /\ r.pc = "destroying"
    BY <2>1 DEF At
  <2>4. r \in CallRecord
    BY <2>3 DEF Moves, CallsOK
  <2> QED BY <2>1, <2>2, <2>3, <2>4, FanKept
<1>6. ASSUME NEW c \in Call,
             CreateFails(c) \/ StartEnds(c) \/ Deregistered(c) \/ LoadEnds(c) \/ DestroyEnds(c)
      PROVE  FanOK'
  <2>1. call[c].pc = "loading" => FanIsOver
    BY <1>6 DEF CreateFails, StartEnds, Deregistered, LoadEnds, DestroyEnds, FanIsOver, Exhausted
  <2> QED BY <1>6, <2>1, FanSettles
          DEF CreateFails, StartEnds, Deregistered, LoadEnds, DestroyEnds, Returns, Throws
<1> QED BY <1>0, <1>1, <1>2, <1>3, <1>4, <1>5, <1>6, LoadStep, ListedStep, TakeStep
        DEF Next, Resume, DestroyOne, Unlinked, Reset, vars

LEMMA TypedInit == ASSUME Init PROVE Typed
<1>1. ObjectsOK
  BY DEF Init, ObjectsOK, ObjectRecord, States, Taken, Made
<1>2. CallsOK
  BY DEF Init, CallsOK, CallRecord, Ops, Pcs, Idle, CallShape, Creating, OnObject
<1>3. SwitchesOK
  BY DEF Init, SwitchesOK
<1>4. FanOK
  <2>1. /\ fan = [by |-> None, start |-> FALSE, listed |-> {}, todo |-> {}, busy |-> {},
                  runners |-> 0, made |-> {}, failed |-> FALSE]
        /\ \A c \in Call : call[c].pc = "idle"
    BY DEF Init, Idle
  <2>2. IsFiniteSet({}) /\ Cardinality({}) = 0
    BY FS_EmptySet
  <2> QED BY <2>1, <2>2, ConcurrencyAssumption DEF FanOK, FanRecord, FanIsOver
<1> QED BY <1>1, <1>2, <1>3, <1>4 DEF Typed

LEMMA TypedStep == ASSUME Typed, [Next]_vars PROVE Typed'
<1>1. ObjectsOK' /\ SwitchesOK' /\ CallsOK'
  BY ObjectsStep, SwitchesStep, CallsStep
<1>2. FanOK'
  BY <1>1, FanStep
<1> QED BY <1>1, <1>2 DEF Typed

\* The types hold in every reachable state, whatever overlaps whatever.
THEOREM TypeCorrect == Spec => []Typed
BY TypedInit, TypedStep, PTL DEF Spec

\* Only the end of the load, or a failure that rejects it, takes it off its wait.
LEMMA LoadingEnds ==
  ASSUME Typed, [Next]_vars, NEW c \in Call, call[c].pc = "loading", call'[c].pc = "idle",
         ~LoadEnds(c)
  PROVE  fan'.failed
<1> USE DEF Typed
<1>1. ASSUME NEW d \in Call, NEW r, Moves(d, r), call[d].pc # "loading" PROVE FALSE
  BY <1>1 DEF Moves, CallsOK
<1>2. ASSUME NEW d \in Call, NEW ok \in BOOLEAN, Settles(d, ok), d # c PROVE fan'.failed
  <2>1. call'[c] = call[c] \/ (d \in fan.busy /\ ~ok)
    BY <1>2, SettlesCalls
  <2> QED BY <1>2, <2>1 DEF Settles, FanOK, FanRecord
<1>3. ASSUME NEW d \in Call, NEW i \in Id,
             Create(d, i) \/ Start(d, i) \/ Stop(d, i) \/ Logout(d, i)
      PROVE  FALSE
  <2>1. call[d].pc # "loading"
    BY <1>3 DEF Create, Start, Stop, Logout, Enters, Idle
  <2>2. \E r : Moves(d, r)
    BY <1>3 DEF Create, Start, Stop, Logout, Moves
  <2> QED BY <1>1, <2>1, <2>2
<1>4. ASSUME NEW d \in Call, Load(d) \/ Destroy(d) PROVE FALSE
  <2>1. call[d] = Idle /\ \E r : Moves(d, r)
    <3>1. CASE Load(d)
      BY <3>1 DEF Load, Moves
    <3>2. CASE Destroy(d)
      BY <3>2 DEF Destroy, Moves
    <3> QED BY <1>4, <3>1, <3>2
  <2> QED BY <1>1, <2>1 DEF Idle
<1>5. ASSUME NEW d \in Call,
             \/ Prepared(d) \/ Registered(d) \/ CreateFails(d) \/ StartEnds(d) \/ StopEnds(d)
             \/ LogoutEnds(d) \/ Deregistered(d) \/ Listed(d) \/ DestroyEnds(d)
      PROVE  fan'.failed
  <2>1. CallShape(call[d])
    BY DEF CallsOK
  <2>2. call[d].pc # "loading"
    BY <1>5 DEF Prepared, Registered, CreateFails, StartEnds, StopEnds, LogoutEnds, Deregistered,
        Listed, DestroyEnds
  <2>3. (\E ok \in BOOLEAN : Settles(d, ok)) \/ (\E r : Moves(d, r))
    <3>1. ASSUME NEW pc \in Pcs, Goes(d, pc) PROVE \E r : Moves(d, r)
      BY <3>1, GoesMoves
    <3>2. Returns(d) \/ Throws(d) \/ (\E pc \in Pcs : Goes(d, pc)) \/ (\E r : Moves(d, r))
      BY <1>5, <2>1
         DEF Prepared, Registered, CreateFails, StartEnds, StopEnds, LogoutEnds, Deregistered,
             Listed, DestroyEnds, Pcs, Moves, CallShape
    <3> QED BY <3>1, <3>2 DEF Returns, Throws
  <2> QED BY <1>1, <1>2, <2>2, <2>3
<1>6. ASSUME NEW d \in Call, LoadEnds(d) PROVE fan'.failed
  BY <1>2, <1>6 DEF LoadEnds, Returns
<1>7. ASSUME NEW w \in Call, Take(w) PROVE fan'.failed
  <2>1. call[w].pc = "idle" /\ fan \in FanRecord
    BY <1>7 DEF Take, Idle, FanOK
  <2>2. (\E r : Moves(w, r)) \/ fan'.failed
    BY <1>7, <2>1 DEF Take, Moves, FanRecord
  <2> QED BY <1>1, <2>1, <2>2
<1>8. ASSUME UNCHANGED call PROVE FALSE
  BY <1>8
<1> QED BY <1>3, <1>4, <1>5, <1>6, <1>7, <1>8
        DEF Next, Resume, DestroyOne, Unlinked, Reset, vars

\* A load that resolves has made all it listed, each by one call of its own,
\* whatever overlaps it.
THEOREM LoadsAreComplete == Spec => LoadIsComplete
<1>1. ASSUME Typed, [Next]_vars
      PROVE  [\A c \in Call : call[c].pc = "loading" /\ call'[c].pc = "idle" /\ ~fan'.failed
                                => fan.made = fan.listed]_vars
  <2> SUFFICES ASSUME NEW c \in Call, call[c].pc = "loading", call'[c].pc = "idle", ~fan'.failed
               PROVE  fan.made = fan.listed
    OBVIOUS
  <2>1. LoadEnds(c)
    BY <1>1, LoadingEnds
  <2>2. fan.busy = {} /\ fan.todo = {} /\ fan' = fan
    BY <2>1 DEF LoadEnds, Exhausted, Returns, Settles
  <2> QED BY <1>1, <2>2 DEF Typed, FanOK
<1> QED BY <1>1, TypeCorrect, PTL DEF Spec, LoadIsComplete

-----------------------------------------------------------------------------
(* Calls about one id do not overlap                                        *)

SameIdApart == "sameId" \notin Admits

Creates(i) == \E c \in Call : call[c].pc \in Creating /\ call[c].id = i

\* Every id has one call at most, and none while the load is about to make it.
Apart ==
  /\ \A j, k \in Call : call[j].id = call[k].id /\ call[j].id # None => j = k
  /\ ~FanIsOver => \A k \in Call : call[k].id \notin fan.todo
  /\ \A c, k \in Call : call[c].pc = "listing" => call[k].id = None

\* What is being created is not registered yet.
NotYet == \A c \in Call : call[c].pc \in Creating => ~Taken(call[c].id)

\* A call's object, and one that is running, is the one registered; or destroy
\* has forgotten it, and nothing will take its place.
Reached ==
  /\ \A c \in Call : call[c].pc \in OnObject =>
       \/ sessions[call[c].id] = call[c].obj
       \/ destroyed /\ ~Taken(call[c].id)
  /\ \A c \in Call : call[c].pc = "deregistering" => ~Running(call[c].obj)
  /\ \A o \in Object : Running(o) =>
       \/ sessions[object[o].id] = o
       \/ destroyed /\ ~Taken(object[o].id) /\ ~Creates(object[o].id)

Stored == \A i \in Id : Taken(i) => i \in meta \/ object[sessions[i]].purgeBegun

\* What is being deregistered has had its purge begun.
Begun == \A c \in Call : call[c].pc = "deregistering" => object[call[c].obj].purgeBegun

ApartInv == Typed /\ Apart /\ NotYet /\ Reached /\ Begun /\ Stored

\* No call turns to another id.
LEMMA IdsKept ==
  ASSUME Typed, Apart,
         \A k \in Call : call'[k].id \in {call[k].id, None},
         \A k \in Call : call'[k].pc = "listing" => call[k].pc = "listing",
         fan'.todo \subseteq fan.todo, FanIsOver => FanIsOver'
  PROVE  Apart'
BY NoneAssumption DEF Apart, Typed, FanOK, FanRecord

\* A call that settles or moves on keeps its id or forgets it.
LEMMA SettlesApart ==
  ASSUME Typed, Apart, NEW c \in Call, NEW ok \in BOOLEAN, Settles(c, ok) PROVE Apart'
<1>1. \A k \in Call : call'[k] \in {call[k], Idle}
  BY SettlesCalls DEF Typed
<1>2. \A k \in Call : /\ call'[k].id \in {call[k].id, None}
                      /\ call'[k].pc = "listing" => call[k].pc = "listing"
  BY <1>1 DEF Idle
<1>3. CASE c \notin fan.busy
  <2>1. fan' = fan
    BY <1>3 DEF Settles
  <2> QED BY <1>2, <2>1, IdsKept DEF FanIsOver
<1>4. CASE c \in fan.busy
  <2>1. fan'.todo = fan.todo /\ ~FanIsOver
    BY <1>4 DEF Settles, Typed, FanOK, FanRecord, FanIsOver
  <2> QED BY <1>2, <2>1, IdsKept
<1> QED BY <1>3, <1>4

LEMMA MovesApart ==
  ASSUME Typed, Apart, NEW c \in Call, NEW r \in CallRecord, Moves(c, r), UNCHANGED fan,
         r.id \in {call[c].id, None}, r.pc # "listing"
  PROVE  Apart'
<1>1. \A k \in Call : call'[k] = IF k = c THEN r ELSE call[k]
  BY DEF Typed, CallsOK, Moves
<1> QED BY <1>1, IdsKept DEF FanIsOver

LEMMA EntersApart ==
  ASSUME Typed, Apart, SameIdApart, NEW c \in Call, NEW i \in Id, Enters(c, i),
         NEW r \in CallRecord, Moves(c, r), UNCHANGED fan, r.id = i, r.pc # "listing"
  PROVE  Apart'
<1>1. \A k \in Call : call'[k] = IF k = c THEN r ELSE call[k]
  BY DEF Typed, CallsOK, Moves
<1>2. /\ \A k \in Call : call[k].id # i /\ call[k].pc # "listing"
      /\ i \notin fan.todo \/ FanIsOver
  BY DEF Enters, SameIdApart
<1> QED BY <1>1, <1>2 DEF Apart, FanIsOver

LEMMA ApartStep ==
  ASSUME Typed, Typed', Apart, SameIdApart, [Next]_vars PROVE Apart'
<1> USE DEF Typed
<1>0. ASSUME UNCHANGED <<call, fan>> PROVE Apart'
  BY <1>0 DEF Apart, FanIsOver
<1>1. ASSUME NEW c \in Call, NEW i \in Id,
             Create(c, i) \/ Start(c, i) \/ Stop(c, i) \/ Logout(c, i)
      PROVE  Apart'
  <2>1. UNCHANGED fan /\ Enters(c, i)
    BY <1>1 DEF Create, Start, Stop, Logout
  <2>2. PICK r : Moves(c, r) /\ r.id = i /\ r.pc # "listing"
    <3>1. \E op, o : \E pc \in {"preparing", "starting", "stopping", "unlinking"} :
             Moves(c, At(op, pc, i, o))
      BY <1>1 DEF Create, Start, Stop, Logout, Moves
    <3> QED BY <3>1 DEF At
  <2>3. r \in CallRecord
    BY <2>2 DEF Moves, CallsOK
  <2> QED BY <2>1, <2>2, <2>3, EntersApart
<1>2. ASSUME NEW c \in Call, NEW pc \in Pcs \ {"listing"}, Goes(c, pc), UNCHANGED fan
      PROVE  Apart'
  <2>1. PICK r \in CallRecord : Moves(c, r) /\ r.pc = pc /\ r.id = call[c].id
    BY <1>2, GoesMoves
  <2> QED BY <1>2, <2>1, MovesApart
<1>3. ASSUME NEW c \in Call, Returns(c) \/ Throws(c) PROVE Apart'
  BY <1>3, SettlesApart DEF Returns, Throws
<1>4. ASSUME NEW c \in Call, Registered(c) PROVE Apart'
  <2>1. CASE Returns(c)
    BY <1>3, <2>1
  <2>2. CASE ~Returns(c)
    <3>1. UNCHANGED fan
          /\ \E o \in Object : Moves(c, At("create", "starting", call[c].id, o))
      BY <1>4, <2>2 DEF Registered, Moves
    <3>2. PICK r : Moves(c, r) /\ r.pc = "starting" /\ r.id = call[c].id
      BY <3>1 DEF At
    <3>3. r \in CallRecord
      BY <3>2 DEF Moves, CallsOK
    <3> QED BY <3>1, <3>2, <3>3, MovesApart
  <2> QED BY <2>1, <2>2
<1>5. ASSUME NEW c \in Call, StopEnds(c) \/ LogoutEnds(c) PROVE Apart'
  <2>1. CallShape(call[c])
    BY DEF CallsOK
  <2>2. Returns(c) \/ ((Goes(c, "deregistering") \/ Goes(c, "starting")) /\ UNCHANGED fan)
    BY <1>5, <2>1 DEF StopEnds, LogoutEnds, CallShape
  <2> QED BY <1>2, <1>3, <2>2 DEF Pcs
<1>6. ASSUME NEW c \in Call, Load(c) PROVE Apart'
  <2>1. \A k \in Call : call'[k].id = None
    BY <1>6 DEF Load, CallsOK, At, Idle
  <2>2. fan'.todo \in SUBSET Id
    BY DEF FanOK, FanRecord
  <2> QED BY <2>1, <2>2, NoneAssumption DEF Apart
<1>7. ASSUME NEW c \in Call, Listed(c) PROVE Apart'
  <2>1. CASE Returns(c)
    BY <1>3, <2>1
  <2>2. CASE ~Returns(c)
    <3>1. Goes(c, "loading") /\ \A k \in Call : call[k].id = None
      BY <1>7, <2>2 DEF Listed, Apart
    <3>2. \A k \in Call : call'[k].id = None
      BY <3>1 DEF Goes, CallsOK, CallRecord
    <3>3. fan'.todo \in SUBSET Id
      BY DEF FanOK, FanRecord
    <3> QED BY <3>2, <3>3, NoneAssumption DEF Apart
  <2> QED BY <2>1, <2>2
<1>8. ASSUME NEW w \in Call, Take(w) PROVE Apart'
  <2>1. fan \in FanRecord /\ ~FanIsOver /\ \A k \in Call : call[k].pc # "listing"
    <3>1. Cardinality(fan.busy) < fan.runners /\ fan.todo # {} /\ fan \in FanRecord
          /\ Cardinality(fan.busy) \in Nat
      BY <1>8, FS_CardinalityType DEF Take, FanOK
    <3> QED BY <3>1 DEF FanOK, FanIsOver, FanRecord
  <2>2. PICK i \in fan.todo :
        \/ /\ fan'.todo = fan.todo \ {i}
           /\ \E op : Moves(w, At(op, "preparing", i, None))
        \/ /\ fan'.todo = fan.todo \ {i}
           /\ call' = IF fan.failed THEN call ELSE [call EXCEPT ![fan.by] = Idle]
    BY <1>8, <2>1 DEF Take, Moves, FanRecord
  <2>3. CASE \E op : Moves(w, At(op, "preparing", i, None))
    <3>1. /\ call'[w].id = i /\ call'[w].pc = "preparing"
          /\ \A k \in Call \ {w} : call'[k] = call[k]
      BY <2>3 DEF Moves, CallsOK, At
    <3>2. \A k \in Call : call[k].id \notin fan.todo
      BY <2>1 DEF Apart
    <3> QED BY <2>1, <2>2, <3>1, <3>2 DEF Apart
  <2>4. CASE call' = IF fan.failed THEN call ELSE [call EXCEPT ![fan.by] = Idle]
    <3>1. \A k \in Call : call'[k] \in {call[k], Idle}
      BY <2>4 DEF CallsOK
    <3> QED BY <2>1, <2>2, <3>1, IdsKept DEF Idle
  <2> QED BY <2>2, <2>3, <2>4
<1>9. ASSUME NEW c \in Call, Destroy(c) PROVE Apart'
  <2>1. UNCHANGED fan /\ Moves(c, At("destroy", "destroying", None, None))
    BY <1>9 DEF Destroy, Moves
  <2>2. PICK r : Moves(c, r) /\ r.pc = "destroying" /\ r.id = None
    BY <2>1 DEF At
  <2>3. r \in CallRecord
    BY <2>2 DEF Moves, CallsOK
  <2> QED BY <2>1, <2>2, <2>3, MovesApart
<1> QED BY <1>0, <1>1, <1>2, <1>3, <1>4, <1>5, <1>6, <1>7, <1>8, <1>9
        DEF Next, Resume, DestroyOne, Unlinked, Reset, vars, Prepared, CreateFails, StartEnds,
            Deregistered, LoadEnds, DestroyEnds, Pcs

-----------------------------------------------------------------------------
(* Where a step leads a call                                                *)

\* No call comes to one of these program counters.
NoneLeads(pcs) == \A k \in Call : call'[k].pc \in pcs => call'[k] = call[k]

LEMMA SettlesLeads ==
  ASSUME Typed, NEW c \in Call, Returns(c) \/ Throws(c)
  PROVE  NoneLeads(Creating) /\ NoneLeads(OnObject)
<1>1. \A k \in Call : call'[k] \in {call[k], Idle}
  BY SettlesCalls DEF Typed, Returns, Throws
<1> QED BY <1>1 DEF NoneLeads, Idle, Creating, OnObject

LEMMA MovesLeads ==
  ASSUME Typed, NEW c \in Call, NEW r, Moves(c, r), NEW pcs, r.pc \notin pcs
  PROVE  NoneLeads(pcs)
BY DEF Typed, CallsOK, Moves, NoneLeads

\* What an action of a call, other than a construction, leads to.
LEMMA EnterLeads ==
  ASSUME Typed, NEW c \in Call, NEW i \in Id
  PROVE  /\ Create(c, i) => NoneLeads(OnObject)
         /\ Start(c, i) \/ Stop(c, i) \/ Logout(c, i) => NoneLeads(Creating \cup {"deregistering"})
<1>1. ASSUME Create(c, i) PROVE NoneLeads(OnObject)
  <2>1. PICK r : Moves(c, r) /\ r.pc = "preparing"
    <3>1. \E op : Moves(c, At(op, "preparing", i, None))
      BY <1>1 DEF Create, Moves
    <3> QED BY <3>1 DEF At
  <2> QED BY <2>1, MovesLeads DEF OnObject
<1>2. ASSUME Start(c, i) \/ Stop(c, i) \/ Logout(c, i)
      PROVE  NoneLeads(Creating \cup {"deregistering"})
  <2>1. PICK r : Moves(c, r) /\ r.pc \in {"starting", "stopping", "unlinking"}
    <3>1. \E op, o : \E pc \in {"starting", "stopping", "unlinking"} : Moves(c, At(op, pc, i, o))
      BY <1>2 DEF Start, Stop, Logout, Moves
    <3> QED BY <3>1 DEF At
  <2> QED BY <2>1, MovesLeads DEF Creating
<1> QED BY <1>1, <1>2

LEMMA GoesLeads ==
  ASSUME Typed, NEW c \in Call, NEW pc \in Pcs, Goes(c, pc)
  PROVE  /\ \A k \in Call \ {c} : call'[k] = call[k]
         /\ call'[c].pc = pc /\ call'[c].id = call[c].id /\ call'[c].obj = call[c].obj
BY GoesMoves DEF Moves, Typed, CallsOK

LEMMA PlainLeads ==
  ASSUME Typed, NEW c \in Call, Load(c) \/ Listed(c) \/ LoadEnds(c) \/ Destroy(c)
  PROVE  NoneLeads(OnObject) /\ NoneLeads(Creating)
<1>1. CASE Load(c)
  <2>1. PICK r : Moves(c, r) /\ r.pc = "listing"
    <3>1. Moves(c, At("load", "listing", None, None))
      BY <1>1 DEF Load, Moves
    <3> QED BY <3>1 DEF At
  <2> QED BY <2>1, MovesLeads DEF Creating, OnObject
<1>2. CASE Destroy(c)
  <2>1. PICK r : Moves(c, r) /\ r.pc = "destroying"
    <3>1. Moves(c, At("destroy", "destroying", None, None))
      BY <1>2 DEF Destroy, Moves
    <3> QED BY <3>1 DEF At
  <2> QED BY <2>1, MovesLeads DEF Creating, OnObject
<1>3. CASE Listed(c)
  <2>1. Returns(c) \/ Goes(c, "loading")
    BY <1>3 DEF Listed
  <2>2. CASE Goes(c, "loading")
    BY <2>2, GoesLeads DEF NoneLeads, Creating, OnObject, Pcs
  <2> QED BY <2>1, <2>2, SettlesLeads
<1>4. CASE LoadEnds(c)
  BY <1>4, SettlesLeads DEF LoadEnds
<1> QED BY <1>1, <1>2, <1>3, <1>4

\* A runner only ever begins a creation, of an id that is not registered, in a
\* manager that is alive.
LEMMA TakeLeads ==
  ASSUME Typed, NEW w \in Call, Take(w)
  PROVE  /\ NoneLeads(OnObject)
         /\ NoneLeads(Creating) \/ (/\ Alive /\ ~Taken(call'[w].id)
                                    /\ \A k \in Call \ {w} : call'[k] = call[k])
<1>1. PICK i \in fan.todo :
        \/ /\ Alive /\ ~Taken(i)
           /\ \E op : Moves(w, At(op, "preparing", i, None))
        \/ call' = IF fan.failed THEN call ELSE [call EXCEPT ![fan.by] = Idle]
  BY DEF Take, Moves
<1>2. CASE Alive /\ ~Taken(i) /\ \E op : Moves(w, At(op, "preparing", i, None))
  BY <1>2 DEF Moves, At, Typed, CallsOK, NoneLeads, OnObject
<1>3. CASE call' = IF fan.failed THEN call ELSE [call EXCEPT ![fan.by] = Idle]
  BY <1>3 DEF Typed, CallsOK, NoneLeads, OnObject, Creating, Idle
<1> QED BY <1>1, <1>2, <1>3

\* What is being created goes on being created, or is new, and not registered.
LEMMA CreatingLeads ==
  ASSUME Typed, [Next]_vars, NEW k \in Call, call'[k].pc \in Creating
  PROVE  \/ call[k].pc \in Creating /\ call'[k].id = call[k].id
         \/ ~destroyed' /\ ~Taken(call'[k].id) /\ UNCHANGED sessions
<1> USE DEF Typed
<1> DEFINE Goal == \/ call[k].pc \in Creating /\ call'[k].id = call[k].id
                   \/ ~destroyed' /\ ~Taken(call'[k].id) /\ UNCHANGED sessions
<1>0. ASSUME NoneLeads(Creating) \/ UNCHANGED call PROVE Goal
  BY <1>0 DEF NoneLeads
<1>1. ASSUME NEW c \in Call, NEW i \in Id, Create(c, i) PROVE Goal
  <2>1. ~destroyed' /\ ~Taken(i) /\ UNCHANGED sessions
        /\ \E op : Moves(c, At(op, "preparing", i, None))
    BY <1>1 DEF Create, Alive, shutdown, Moves
  <2>2. \A m \in Call : call'[m] = call[m] \/ (m = c /\ call'[m].id = i)
    BY <2>1 DEF Moves, CallsOK, At
  <2> QED BY <2>1, <2>2
<1>2. ASSUME NEW c \in Call, NEW i \in Id, Start(c, i) \/ Stop(c, i) \/ Logout(c, i) PROVE Goal
  BY <1>2, EnterLeads DEF NoneLeads
<1>3. ASSUME NEW c \in Call, Load(c) \/ Listed(c) \/ LoadEnds(c) \/ Destroy(c) PROVE Goal
  BY <1>0, <1>3, PlainLeads
<1>4. ASSUME NEW w \in Call, Take(w) PROVE Goal
  <2>1. UNCHANGED <<sessions, destroyed>>
    BY <1>4 DEF Take, shutdown
  <2> QED BY <1>0, <1>4, <2>1, TakeLeads DEF Alive
<1>5. ASSUME NEW c \in Call, Prepared(c) PROVE Goal
  BY <1>5, GoesLeads DEF Prepared, Creating, Pcs
<1>6. ASSUME NEW c \in Call, Registered(c) PROVE Goal
  <2>1. Returns(c) \/ \E o : Moves(c, At("create", "starting", call[c].id, o))
    BY <1>6 DEF Registered, Moves
  <2>2. ASSUME NEW o, Moves(c, At("create", "starting", call[c].id, o)) PROVE NoneLeads(Creating)
    BY <2>2 DEF Moves, CallsOK, At, NoneLeads, Creating
  <2> QED BY <1>0, <2>1, <2>2, SettlesLeads
<1>7. ASSUME NEW c \in Call, StopEnds(c) \/ LogoutEnds(c) PROVE Goal
  <2>1. CallShape(call[c])
    BY DEF CallsOK
  <2>2. Returns(c) \/ Goes(c, "deregistering") \/ Goes(c, "starting")
    BY <1>7, <2>1 DEF StopEnds, LogoutEnds, CallShape
  <2>3. ASSUME NEW pc \in {"deregistering", "starting"}, Goes(c, pc) PROVE NoneLeads(Creating)
    BY <2>3, GoesLeads DEF NoneLeads, Creating, Pcs
  <2> QED BY <1>0, <2>2, <2>3, SettlesLeads
<1>8. ASSUME NEW c \in Call,
             CreateFails(c) \/ StartEnds(c) \/ Deregistered(c) \/ DestroyEnds(c)
      PROVE  Goal
  BY <1>0, <1>8, SettlesLeads DEF CreateFails, StartEnds, Deregistered, DestroyEnds
<1>9. CASE UNCHANGED call
  BY <1>0, <1>9
<1> QED BY <1>1, <1>2, <1>3, <1>4, <1>5, <1>6, <1>7, <1>8, <1>9
        DEF Next, Resume, DestroyOne, Unlinked, Reset, vars

LEMMA NotYetStep ==
  ASSUME Typed, Apart, NotYet, [Next]_vars PROVE NotYet'
<1> SUFFICES ASSUME NEW k \in Call, call'[k].pc \in Creating PROVE sessions'[call'[k].id] = None
  BY DEF NotYet, Taken
<1>1. CASE ~destroyed' /\ ~Taken(call'[k].id) /\ UNCHANGED sessions
  BY <1>1 DEF Taken
<1>2. CASE call[k].pc \in Creating /\ call'[k].id = call[k].id
  <2>1. call[k].id \in Id /\ ~Taken(call[k].id)
    BY <1>2 DEF NotYet, Typed, CallsOK, CallShape
  <2>2. ASSUME NEW c \in Call, Registered(c) PROVE sessions'[call'[k].id] = None
    <3>1. \E o : sessions' = [sessions EXCEPT ![call[c].id] = o]
      BY <2>2, RegisteredMakes
    <3>2. c # k
      <4>1. Returns(c) \/ \E o : Moves(c, At("create", "starting", call[c].id, o))
        BY <2>2 DEF Registered, Moves
      <4>2. Returns(c) => call'[c] = Idle
        BY SettlesCalls DEF Returns, Typed
      <4> QED BY <4>1, <4>2 DEF Moves, At, Idle, Typed, CallsOK, Creating
    <3>3. call[c].id # call[k].id
      BY <2>1, <3>2, NoneAssumption DEF Apart
    <3> QED BY <1>2, <2>1, <3>1, <3>3 DEF Taken, Typed, ObjectsOK
  <2>3. ASSUME \A c \in Call : ~Registered(c) PROVE sessions'[call'[k].id] = None
    <3>1. \A i \in Id : sessions'[i] \in {sessions[i], None}
      BY <2>3 DEF Next, vars, Resume, Create, Start, Stop, Logout, Load, Destroy, Prepared,
          CreateFails, StartEnds, StopEnds, LogoutEnds, Deregistered, Listed, Take, LoadEnds,
          DestroyEnds, DestroyOne, Unlinked, Reset, Unregistered, Typed, ObjectsOK
    <3> QED BY <1>2, <2>1, <3>1 DEF Taken
  <2> QED BY <2>2, <2>3
<1> QED BY <1>1, <1>2, CreatingLeads

-----------------------------------------------------------------------------
(* The sessions a manager can reach                                         *)

\* A step that leaves the map alone keeps it in agreement with the objects, if
\* what it starts is in the map, or out of it for good.
LEMMA ReachedKept ==
  ASSUME Typed, Apart, Reached, UNCHANGED sessions, destroyed => destroyed',
         \A o \in Object : object'[o].id = object[o].id,
         \A k \in Call : call'[k].pc \in OnObject =>
           \/ /\ call[k].pc \in OnObject
              /\ call'[k].id = call[k].id /\ call'[k].obj = call[k].obj
           \/ sessions[call'[k].id] = call'[k].obj,
         \A k \in Call : \A o \in Object :
           call'[k].pc = "deregistering" /\ call'[k].obj = o => ~Running(o)',
         \A o \in Object : Running(o)' =>
           \/ Running(o) \/ sessions[object[o].id] = o
           \/ destroyed /\ ~Taken(object[o].id) /\ ~Creates(object[o].id),
         \A k \in Call : call'[k].pc \in Creating =>
           \/ ~destroyed'
           \/ call[k].pc \in Creating /\ call'[k].id = call[k].id,
         Typed'
  PROVE  Reached'
<1>1. ASSUME NEW c \in Call, call'[c].pc \in OnObject
      PROVE  sessions'[call'[c].id] = call'[c].obj \/ (destroyed' /\ sessions'[call'[c].id] = None)
  BY <1>1 DEF Reached, Taken
<1>2. ASSUME NEW c \in Call, call'[c].pc = "deregistering"
      PROVE  object'[call'[c].obj].state \notin {"starting", "up"}
  <2>1. call'[c].obj \in Object
    BY <1>2 DEF Typed, CallsOK, CallShape, OnObject
  <2> QED BY <1>2, <2>1 DEF Running
<1>3. ASSUME NEW o \in Object, Running(o)'
      PROVE  \/ sessions'[object'[o].id] = o
             \/ destroyed' /\ sessions'[object'[o].id] = None
                /\ \A k \in Call : ~(call'[k].pc \in Creating /\ call'[k].id = object'[o].id)
  <2>1. \/ sessions[object[o].id] = o
        \/ destroyed /\ ~Taken(object[o].id) /\ ~Creates(object[o].id)
    BY <1>3 DEF Reached
  <2> QED BY <2>1 DEF Taken, Creates
<1> QED BY <1>1, <1>2, <1>3 DEF Reached, Taken, Running, Creates

\* A step that leaves the objects and their calls alone.
LEMMA ReachedUndisturbed ==
  ASSUME Typed, Typed', Apart, Reached, [Next]_vars, UNCHANGED <<sessions, object>>,
         NoneLeads(OnObject)
  PROVE  Reached'
<1>1. destroyed => destroyed'
  BY DEF Next, vars, shutdown, Resume, Create, Start, Stop, Logout, Load, Destroy, Prepared,
      Registered, CreateFails, StartEnds, StopEnds, LogoutEnds, Deregistered, Listed, Take,
      LoadEnds, DestroyEnds, DestroyOne, Unlinked, Reset
<1>2. \A k \in Call : call'[k].pc \in OnObject => call'[k] = call[k]
  BY DEF NoneLeads
<1>3. ASSUME NEW k \in Call, NEW o \in Object, call'[k].pc = "deregistering", call'[k].obj = o
      PROVE  ~Running(o)'
  BY <1>2, <1>3 DEF Reached, Running, OnObject
<1>4. \A o \in Object : Running(o)' <=> Running(o)
  BY DEF Running
<1>5. \A k \in Call : call'[k].pc \in Creating =>
           \/ ~destroyed'
           \/ call[k].pc \in Creating /\ call'[k].id = call[k].id
  BY CreatingLeads
<1> QED BY <1>1, <1>2, <1>3, <1>4, <1>5, ReachedKept

\* The object a call is on is no other call's.
LEMMA AloneOnObject ==
  ASSUME Typed, Apart, NEW c \in Call, NEW k \in Call, call[c].pc \in OnObject,
         call[k].pc \in OnObject \cup Creating, call[k].id = object[call[c].obj].id
  PROVE  k = c
<1>1. call[c].id \in Id /\ object[call[c].obj].id = call[c].id
  BY OnItsObject DEF Typed
<1> QED BY <1>1, NoneAssumption DEF Apart

\* A call about an object brings it to a state, and ends or goes on.
LEMMA ReachedByCall ==
  ASSUME Typed, Typed', Apart, Reached, [Next]_vars, UNCHANGED <<sessions, destroyed>>, Kept,
         NEW c \in Call, call[c].pc \in OnObject,
         \A o \in Object \ {call[c].obj} : object'[o].state = object[o].state,
         \A k \in Call \ {c} : call'[k].pc \in OnObject \cup Creating => call'[k] = call[k],
         call'[c].pc \in OnObject => call'[c].id = call[c].id /\ call'[c].obj = call[c].obj,
         call'[c].pc = "deregistering" => object'[call[c].obj].state \notin {"starting", "up"}
  PROVE  Reached'
<1>0. PICK x \in Object : x = call[c].obj /\ object[x].id = call[c].id /\ call[c].id \in Id
  BY OnItsObject DEF Typed
<1>1. \A o \in Object : object'[o].id = object[o].id
  BY DEF Kept
<1>2. ASSUME NEW k \in Call, call'[k].pc \in OnObject
      PROVE  /\ call[k].pc \in OnObject
             /\ call'[k].id = call[k].id /\ call'[k].obj = call[k].obj
  BY <1>2
<1>3. ASSUME NEW k \in Call, NEW o \in Object, call'[k].pc = "deregistering", call'[k].obj = o
      PROVE  ~Running(o)'
  <2>1. CASE k = c
    BY <1>0, <1>3, <2>1 DEF Running, OnObject
  <2>2. CASE k # c
    <3>1. call'[k] = call[k] /\ call[k].pc \in OnObject /\ call[k].obj = o
      BY <1>3, <2>2 DEF OnObject
    <3>2. o # x
      BY <1>0, <2>2, <3>1, AloneOnObject, OnItsObject DEF Typed
    <3>3. ~Running(o)
      BY <1>3, <3>1 DEF Reached
    <3> QED BY <1>0, <3>2, <3>3 DEF Running
  <2> QED BY <2>1, <2>2
<1>4. ASSUME NEW o \in Object, Running(o)'
      PROVE  \/ Running(o) \/ sessions[object[o].id] = o
             \/ destroyed /\ ~Taken(object[o].id) /\ ~Creates(object[o].id)
  <2>1. CASE o # x
    BY <1>0, <1>4, <2>1 DEF Running
  <2>2. CASE o = x
    <3>1. sessions[call[c].id] = x \/ (destroyed /\ ~Taken(call[c].id))
      BY <1>0 DEF Reached
    <3>2. ~Creates(object[x].id)
      <4>1. ASSUME NEW k \in Call, call[k].pc \in Creating, call[k].id = object[x].id PROVE FALSE
        <5>1. k = c
          BY <1>0, <4>1, AloneOnObject
        <5> QED BY <4>1, <5>1 DEF Creating, OnObject
      <4> QED BY <4>1 DEF Creates
    <3> QED BY <1>0, <2>2, <3>1, <3>2
  <2> QED BY <2>1, <2>2
<1>5. \A k \in Call : call'[k].pc \in Creating =>
           \/ ~destroyed'
           \/ call[k].pc \in Creating /\ call'[k].id = call[k].id
  BY CreatingLeads
<1> QED BY <1>1, <1>2, <1>3, <1>4, <1>5, ReachedKept

\* What is constructed takes the place of nothing.
LEMMA RegisteredReached ==
  ASSUME Typed, Typed', Apart, NotYet, Reached, [Next]_vars, NEW c \in Call, Registered(c)
  PROVE  Reached'
<1> USE DEF Typed
<1>1. PICK i \in Id, o \in Object, n \in ObjectRecord :
         /\ i = call[c].id /\ ~Made(o) /\ n.id = i
         /\ sessions' = [sessions EXCEPT ![i] = o] /\ object' = [object EXCEPT ![o] = n]
  <2>1. Fresh(call[c].op, call[c].id).id = call[c].id
    BY DEF Fresh
  <2> QED BY <2>1, RegisteredMakes
<1>2. call[c].pc = "writing" /\ destroyed' = destroyed /\ ~Taken(i) /\ Creates(i)
  BY <1>1 DEF Registered, shutdown, NotYet, Creating, Creates
<1>3. /\ \A k \in Call \ {c} : call'[k] \in {call[k], Idle}
      /\ call'[c] = Idle \/ (call'[c].pc = "starting" /\ call'[c].id = i
                             /\ call'[c].obj = sessions'[i])
  <2>1. CASE Returns(c)
    BY <2>1, SettlesCalls DEF Returns
  <2>2. CASE ~Returns(c)
    <3>1. \E x \in Object : /\ Moves(c, At("create", "starting", i, x))
                            /\ sessions' = [sessions EXCEPT ![i] = x]
      BY <1>1, <2>2 DEF Registered, Moves
    <3> QED BY <3>1 DEF Moves, CallsOK, ObjectsOK, At
  <2> QED BY <2>1, <2>2
<1>4. \A k \in Call \ {c} : call[k].id # i
  BY <1>1, NoneAssumption DEF Apart
<1>5. ASSUME NEW k \in Call, call'[k].pc \in OnObject
      PROVE  \/ sessions'[call'[k].id] = call'[k].obj
             \/ destroyed' /\ sessions'[call'[k].id] = None
  <2>1. CASE k = c
    BY <1>3, <1>5, <2>1 DEF Idle, OnObject
  <2>2. CASE k # c
    <3>1. call'[k] = call[k] /\ call[k].id \in Id /\ call[k].id # i
      BY <1>3, <1>4, <1>5, <2>2, OnItsObject DEF Idle, OnObject
    <3> QED BY <1>1, <1>2, <1>5, <3>1 DEF Reached, Taken, ObjectsOK
  <2> QED BY <2>1, <2>2
<1>6. ASSUME NEW k \in Call, call'[k].pc = "deregistering"
      PROVE  object'[call'[k].obj].state \notin {"starting", "up"}
  <2>1. call'[k] = call[k] /\ call[k].pc \in OnObject
    BY <1>3, <1>6 DEF Idle, OnObject
  <2>2. call[k].obj \in Object /\ Made(call[k].obj) /\ ~Running(call[k].obj)
    BY <1>6, <2>1, OnItsObject DEF Reached
  <2> QED BY <1>1, <2>1, <2>2 DEF ObjectsOK, Running
<1>7. ASSUME NEW x \in Object, object'[x].state \in {"starting", "up"}
      PROVE  \/ sessions'[object'[x].id] = x
             \/ destroyed' /\ sessions'[object'[x].id] = None
                /\ \A k \in Call : ~(call'[k].pc \in Creating /\ call'[k].id = object'[x].id)
  <2>1. CASE x = o
    BY <1>1, <2>1 DEF ObjectsOK
  <2>2. CASE x # o
    <3>1. object'[x] = object[x] /\ Running(x) /\ object[x].id \in Id
      BY <1>1, <1>7, <2>2 DEF ObjectsOK, Running, Made
    <3>2. object[x].id # i
      BY <1>2, <3>1, NoneAssumption DEF Reached, Taken
    <3>3. \A k \in Call : call'[k].pc \in Creating => call'[k] = call[k]
      BY <1>3 DEF Idle, Creating
    <3> QED BY <1>1, <1>2, <3>1, <3>2, <3>3 DEF Reached, Taken, ObjectsOK, Creates
  <2> QED BY <2>1, <2>2
<1> QED BY <1>5, <1>6, <1>7 DEF Reached, Taken, Running, Creates

\* What is deregistered is down.
LEMMA DeregisteredReached ==
  ASSUME Typed, Typed', Apart, Reached, [Next]_vars, NEW c \in Call, Deregistered(c)
  PROVE  Reached'
<1> USE DEF Typed
<1>1. /\ UNCHANGED <<object, destroyed>> /\ call[c].pc = "deregistering"
      /\ \A k \in Call : call'[k] \in {call[k], Idle}
      /\ call'[c] = Idle
  BY SettlesCalls DEF Deregistered, Returns, shutdown
<1>2. CASE UNCHANGED sessions
  BY <1>1, <1>2, SettlesLeads, ReachedUndisturbed DEF Deregistered
<1>3. CASE sessions' = Unregistered(call[c].id)
  <2>1. PICK i \in Id : i = call[c].id /\ sessions' = [sessions EXCEPT ![i] = None]
    BY <1>1, <1>3, OnItsObject DEF Unregistered, OnObject
  <2>2. ASSUME NEW k \in Call, call'[k].pc \in OnObject
        PROVE  \/ sessions'[call'[k].id] = call'[k].obj
               \/ destroyed' /\ sessions'[call'[k].id] = None
    <3>1. call'[k] = call[k] /\ call[k].id \in Id /\ k # c
      BY <1>1, <2>2, OnItsObject DEF Idle, OnObject
    <3>2. call[k].id # i
      BY <2>1, <3>1, NoneAssumption DEF Apart
    <3> QED BY <1>1, <2>1, <2>2, <3>1, <3>2 DEF Reached, Taken, ObjectsOK
  <2>3. ASSUME NEW k \in Call, call'[k].pc = "deregistering"
        PROVE  object'[call'[k].obj].state \notin {"starting", "up"}
    BY <1>1, <2>3 DEF Reached, Running, Idle
  <2>4. ASSUME NEW x \in Object, object'[x].state \in {"starting", "up"}
        PROVE  \/ sessions'[object'[x].id] = x
               \/ destroyed' /\ sessions'[object'[x].id] = None
                  /\ \A k \in Call : ~(call'[k].pc \in Creating /\ call'[k].id = object'[x].id)
    <3>1. object'[x] = object[x] /\ Running(x) /\ object[x].id \in Id
      BY <1>1, <2>4 DEF ObjectsOK, Running, Made
    <3>2. \A k \in Call : call'[k].pc \in Creating => call'[k] = call[k]
      BY <1>1 DEF Idle, Creating
    <3>3. \/ sessions[object[x].id] = x
          \/ destroyed /\ ~Taken(object[x].id) /\ ~Creates(object[x].id)
      BY <3>1 DEF Reached
    <3>4. CASE object[x].id = i /\ sessions[i] = x
      <4>1. x # call[c].obj
        BY <1>1, <3>1 DEF Reached
      <4> QED BY <1>1, <2>1, <3>4, <4>1, NoneAssumption DEF Reached, Taken, OnObject
    <3> QED BY <1>1, <2>1, <3>1, <3>2, <3>3, <3>4 DEF Taken, ObjectsOK, Creates
  <2> QED BY <2>2, <2>3, <2>4 DEF Reached, Taken, Running, Creates
<1> QED BY <1>2, <1>3 DEF Deregistered

\* destroy forgets everything, and nothing is created any more.
LEMMA DestroyEndsReached ==
  ASSUME Typed, Typed', Apart, NotYet, Reached, [Next]_vars, NEW c \in Call, DestroyEnds(c)
  PROVE  Reached'
<1> USE DEF Typed
<1>1. /\ UNCHANGED object /\ destroyed /\ destroyed'
      /\ \A k \in Call : call'[k] \in {call[k], Idle}
      /\ \A i \in Id : sessions'[i] = None
  BY SettlesCalls DEF DestroyEnds, Returns, CallsOK, CallShape
<1>2. ASSUME NEW k \in Call, call'[k].pc \in OnObject PROVE sessions'[call'[k].id] = None
  BY <1>1, <1>2, OnItsObject DEF Idle, OnObject
<1>3. ASSUME NEW k \in Call, call'[k].pc = "deregistering"
      PROVE  object'[call'[k].obj].state \notin {"starting", "up"}
  BY <1>1, <1>3 DEF Reached, Running, Idle
<1>4. ASSUME NEW x \in Object, object'[x].state \in {"starting", "up"}
      PROVE  /\ sessions'[object'[x].id] = None
             /\ \A k \in Call : ~(call'[k].pc \in Creating /\ call'[k].id = object'[x].id)
  <2>1. object'[x] = object[x] /\ Running(x) /\ object[x].id \in Id
    BY <1>1, <1>4 DEF ObjectsOK, Running, Made
  <2>2. ~Creates(object[x].id)
    <3>1. ASSUME NEW k \in Call, call[k].pc \in Creating, call[k].id = object[x].id,
                 sessions[object[x].id] = x
          PROVE  FALSE
      BY <3>1, NoneAssumption DEF NotYet, Taken
    <3> QED BY <2>1, <3>1 DEF Reached, Creates
  <2> QED BY <1>1, <2>1, <2>2 DEF Creates, Idle, Creating
<1> QED BY <1>1, <1>2, <1>3, <1>4 DEF Reached, Taken, Running, Creates

LEMMA ReachedStep ==
  ASSUME Typed, Typed', Apart, NotYet, Reached, SameIdApart, [Next]_vars PROVE Reached'
<1> USE DEF Typed
<1>1. ASSUME NEW c \in Call, NEW i \in Id, Create(c, i) PROVE Reached'
  BY <1>1, EnterLeads, ReachedUndisturbed DEF Create
<1>2. ASSUME NEW c \in Call, NEW i \in Id, Start(c, i) \/ Stop(c, i) \/ Logout(c, i)
      PROVE  Reached'
  <2>1. PICK x \in Object : x = sessions[i] /\ Made(x) /\ object[x].id = i
    BY <1>2, TakenIsObject DEF Start, Stop, Logout
  <2>2. /\ UNCHANGED <<sessions, destroyed>> /\ \A k \in Call : call[k].id # i
        /\ \A o \in Object \ {x} : object'[o].state = object[o].state
    <3>1. Enters(c, i) /\ UNCHANGED <<sessions, destroyed>>
      BY <1>2 DEF Start, Stop, Logout, shutdown
    <3>2. UNCHANGED object \/ Becomes(x, "starting")
      BY <1>2, <2>1 DEF Start, Stop, Logout
    <3> QED BY <3>1, <3>2 DEF Enters, SameIdApart, Becomes, ObjectsOK
  <2>3. Kept
    <3>1. CASE UNCHANGED object
      BY <3>1 DEF Kept, ObjectsOK, Made
    <3>2. CASE Becomes(x, "starting")
      BY <2>1, <3>2, BecomesKeeps DEF States
    <3>3. UNCHANGED object \/ Becomes(x, "starting")
      BY <1>2, <2>1 DEF Start, Stop, Logout
    <3> QED BY <3>1, <3>2, <3>3
  <2>4. \A k \in Call : \/ call'[k] = call[k]
                        \/ /\ k = c /\ call'[k].id = i /\ call'[k].obj = x
                           /\ call'[k].pc \in {"starting", "stopping", "unlinking"}
    <3>1. \E op : \E pc \in {"starting", "stopping", "unlinking"} : Moves(c, At(op, pc, i, x))
      BY <1>2, <2>1 DEF Start, Stop, Logout, Moves
    <3> QED BY <3>1 DEF Moves, CallsOK, At
  <2>5. ASSUME NEW k \in Call, NEW o \in Object, call'[k].pc = "deregistering", call'[k].obj = o
        PROVE  ~Running(o)'
    <3>1. call'[k] = call[k] /\ call[k].pc \in OnObject /\ call[k].pc = "deregistering"
      BY <2>4, <2>5 DEF OnObject
    <3>2. o # x
      BY <2>1, <2>2, <2>5, <3>1, OnItsObject
    <3> QED BY <2>2, <2>5, <3>1, <3>2 DEF Reached, Running
  <2>6. ASSUME NEW o \in Object, Running(o)' PROVE Running(o) \/ sessions[object[o].id] = o
    BY <2>1, <2>2, <2>6 DEF Running
  <2>7. \A k \in Call : call'[k].pc \in OnObject =>
           \/ /\ call[k].pc \in OnObject
              /\ call'[k].id = call[k].id /\ call'[k].obj = call[k].obj
           \/ sessions[call'[k].id] = call'[k].obj
    BY <2>1, <2>4
  <2>8. \A k \in Call : call'[k].pc \in Creating =>
             call[k].pc \in Creating /\ call'[k].id = call[k].id
    BY <2>4 DEF Creating
  <2>9. \A o \in Object : object'[o].id = object[o].id
    BY <2>3 DEF Kept
  <2> QED BY <2>2, <2>5, <2>6, <2>7, <2>8, <2>9, ReachedKept
<1>3. ASSUME NEW c \in Call, Load(c) \/ Listed(c) \/ LoadEnds(c) PROVE Reached'
  BY <1>3, PlainLeads, ReachedUndisturbed DEF Load, Listed, LoadEnds
<1>4. ASSUME NEW c \in Call, Destroy(c) PROVE Reached'
  BY <1>4, PlainLeads, ReachedUndisturbed DEF Destroy
<1>5. ASSUME NEW c \in Call, Take(c) PROVE Reached'
  BY <1>5, TakeLeads, ReachedUndisturbed DEF Take
<1>6. ASSUME NEW c \in Call, Prepared(c) PROVE Reached'
  <2>1. NoneLeads(OnObject)
    BY <1>6, GoesLeads DEF Prepared, NoneLeads, OnObject, Pcs
  <2> QED BY <1>6, <2>1, ReachedUndisturbed DEF Prepared
<1>7. ASSUME NEW c \in Call, CreateFails(c) PROVE Reached'
  BY <1>7, SettlesLeads, ReachedUndisturbed DEF CreateFails
<1>8. ASSUME NEW c \in Call, StartEnds(c) PROVE Reached'
  <2>1. Becomes(call[c].obj, "up") \/ Becomes(call[c].obj, "down")
    BY <1>8 DEF StartEnds
  <2>2. \A k \in Call : call'[k] \in {call[k], Idle}
    BY <1>8, SettlesCalls DEF StartEnds, Returns, Throws
  <2>3. call'[c] = Idle
    BY <1>8, SettlesCalls DEF StartEnds, Returns, Throws
  <2>4. Kept
    BY <1>8, OnItsObject, BecomesKeeps DEF StartEnds, States, OnObject
  <2> QED BY <1>8, <2>1, <2>2, <2>3, <2>4, ReachedByCall
          DEF StartEnds, shutdown, OnObject, Creating, Becomes, ObjectsOK, Idle
<1>9. ASSUME NEW c \in Call, StopEnds(c) \/ LogoutEnds(c) PROVE Reached'
  <2>1. Kept /\ \A o \in Object \ {call[c].obj} : object'[o].state = object[o].state
    BY <1>9, HaltKeeps
  <2>2. UNCHANGED <<sessions, destroyed>> /\ call[c].pc \in OnObject
    BY <1>9 DEF StopEnds, LogoutEnds, shutdown, OnObject
  <2>3. /\ \A k \in Call \ {c} : call'[k].pc \in OnObject \cup Creating => call'[k] = call[k]
        /\ call'[c].pc \in OnObject => call'[c].id = call[c].id /\ call'[c].obj = call[c].obj
        /\ call'[c].pc = "deregistering" => object'[call[c].obj].state \notin {"starting", "up"}
    <3>1. CASE Returns(c)
      <4>1. call'[c] = Idle /\ \A k \in Call : call'[k] \in {call[k], Idle}
        BY <3>1, SettlesCalls DEF Returns
      <4> QED BY <4>1 DEF Idle, OnObject, Creating
    <3>2. CASE Goes(c, "starting")
      BY <3>2, GoesLeads DEF Pcs
    <3>3. CASE /\ Goes(c, "deregistering")
               /\ object'[call[c].obj].state \notin {"starting", "up"}
      BY <3>3, GoesLeads DEF Pcs
    <3> QED BY <1>9, <3>1, <3>2, <3>3, HaltKeeps
  <2> QED BY <2>1, <2>2, <2>3, ReachedByCall
<1>10. ASSUME Kept, UNCHANGED <<sessions, destroyed, call>>,
              \A o \in Object : Running(o)' => Running(o)
       PROVE  Reached'
  <2>1. \A o \in Object : object'[o].id = object[o].id
    BY <1>10 DEF Kept
  <2>2. \A k \in Call : \A o \in Object :
           call'[k].pc = "deregistering" /\ call'[k].obj = o => ~Running(o)'
    BY <1>10 DEF Reached
  <2> QED BY <1>10, <2>1, <2>2, ReachedKept
<1>11. ASSUME NEW o \in Object, Unlinked(o) PROVE Reached'
  <2>1. Kept
    BY <1>11, PurgeKeeps DEF Unlinked, States, Made
  <2>2. \A x \in Object : Running(x)' => Running(x)
    BY <1>11 DEF Unlinked, PurgedTo, PurgeFails, Becomes, Running, ObjectsOK, ObjectRecord
  <2> QED BY <1>10, <1>11, <2>1, <2>2 DEF Unlinked, shutdown
<1>12. ASSUME NEW o \in Object, Reset(o) PROVE Reached'
  <2>1. Kept
    BY <1>12, BecomesKeeps DEF Reset, States, Made
  <2>2. \A x \in Object : Running(x)' => Running(x)
    BY <1>12 DEF Reset, Becomes, Running, ObjectsOK, ObjectRecord
  <2> QED BY <1>10, <1>12, <2>1, <2>2 DEF Reset, shutdown
<1>13. ASSUME NEW c \in Call, NEW o \in Object, DestroyOne(c, o) PROVE Reached'
  <2>1. Kept /\ \A x \in Object : Running(x)' => Running(x)
    BY <1>13, DestroyOneHalts
  <2> QED BY <1>10, <1>13, <2>1 DEF DestroyOne
<1>14. ASSUME NEW c \in Call, Registered(c) PROVE Reached'
  BY <1>14, RegisteredReached
<1>15. ASSUME NEW c \in Call, Deregistered(c) PROVE Reached'
  BY <1>15, DeregisteredReached
<1>16. ASSUME NEW c \in Call, DestroyEnds(c) PROVE Reached'
  BY <1>16, DestroyEndsReached
<1>17. CASE UNCHANGED vars
  BY <1>17, ReachedUndisturbed DEF vars, NoneLeads
<1> QED BY <1>1, <1>2, <1>3, <1>4, <1>5, <1>6, <1>7, <1>8, <1>9, <1>11, <1>12, <1>13, <1>14,
           <1>15, <1>16, <1>17
        DEF Next, Resume

-----------------------------------------------------------------------------
(* The metadata of what is registered                                       *)

\* A purge that was begun stays begun.
StillBegun == \A o \in Object : Made(o) /\ object[o].purgeBegun => object'[o].purgeBegun

LEMMA StillBegunStep == ASSUME Typed, [Next]_vars PROVE StillBegun
<1> USE DEF Typed
<1>1. ASSUME NEW c \in Call, Registered(c) PROVE StillBegun
  BY <1>1, RegisteredMakes DEF ObjectsOK, StillBegun
<1>2. ASSUME NEW o, NEW s, Becomes(o, s) PROVE StillBegun
  BY <1>2 DEF Becomes, ObjectsOK, ObjectRecord, StillBegun
<1>3. ASSUME NEW o, NEW s, PurgedTo(o, s) \/ PurgeFails(o, s) PROVE StillBegun
  BY <1>3 DEF PurgedTo, PurgeFails, ObjectsOK, ObjectRecord, StillBegun
<1>4. CASE UNCHANGED object
  BY <1>4 DEF StillBegun
<1>5. ASSUME NEW c \in Call, NEW i \in Id, Start(c, i) PROVE StillBegun
  BY <1>2, <1>5 DEF Start
<1>6. ASSUME NEW c \in Call, StartEnds(c) PROVE StillBegun
  BY <1>2, <1>6 DEF StartEnds
<1>7. ASSUME NEW c \in Call, StopEnds(c) PROVE StillBegun
  <2>1. call[c].op \in {"stop", "restart", "remove"}
    BY <1>7 DEF StopEnds, CallsOK, CallShape
  <2> QED BY <1>2, <1>3, <1>7, <2>1 DEF StopEnds
<1>8. ASSUME NEW c \in Call, LogoutEnds(c) PROVE StillBegun
  BY <1>3, <1>4, <1>8 DEF LogoutEnds
<1>9. ASSUME NEW o \in Object, Unlinked(o) \/ Reset(o) PROVE StillBegun
  BY <1>2, <1>3, <1>9 DEF Unlinked, Reset
<1>10. ASSUME NEW c \in Call, NEW o \in Object, DestroyOne(c, o) PROVE StillBegun
  BY <1>10 DEF DestroyOne, ObjectsOK, ObjectRecord, StillBegun
<1> QED BY <1>1, <1>4, <1>5, <1>6, <1>7, <1>8, <1>9, <1>10
        DEF Next, Resume, vars, Create, Prepared, CreateFails, Stop, Logout, Deregistered, Load,
            Listed, Take, LoadEnds, Destroy, DestroyEnds

\* Only a call whose object's purge was begun comes to deregister.
LEMMA BegunStep == ASSUME Typed, Begun, [Next]_vars PROVE Begun'
<1> USE DEF Typed
<1>1. SUFFICES ASSUME NEW k \in Call, call'[k].pc = "deregistering"
               PROVE  call'[k] = call[k] \/ object'[call'[k].obj].purgeBegun
  <2>1. ASSUME NEW k \in Call, call'[k].pc = "deregistering", call'[k] = call[k]
        PROVE  object'[call'[k].obj].purgeBegun
    <3>1. call[k].obj \in Object /\ Made(call[k].obj)
      BY <2>1, OnItsObject DEF OnObject
    <3> QED BY <2>1, <3>1, StillBegunStep DEF Begun, StillBegun
  <2> QED BY <2>1 DEF Begun
<1>2. ASSUME NoneLeads(OnObject) \/ NoneLeads({"deregistering"}) PROVE call'[k] = call[k]
  BY <1>1, <1>2 DEF NoneLeads, OnObject
<1>3. ASSUME NEW c \in Call, NEW i \in Id, Create(c, i) \/ Start(c, i) \/ Stop(c, i) \/ Logout(c, i)
      PROVE  call'[k] = call[k]
  BY <1>1, <1>2, <1>3, EnterLeads DEF NoneLeads
<1>4. ASSUME NEW c \in Call, Load(c) \/ Listed(c) \/ LoadEnds(c) \/ Destroy(c) PROVE call'[k] = call[k]
  BY <1>2, <1>4, PlainLeads
<1>5. ASSUME NEW c \in Call, Take(c) PROVE call'[k] = call[k]
  BY <1>2, <1>5, TakeLeads
<1>6. ASSUME NEW c \in Call, Prepared(c) PROVE call'[k] = call[k]
  BY <1>1, <1>6, GoesLeads DEF Prepared, Pcs
<1>7. ASSUME NEW c \in Call, Registered(c) PROVE call'[k] = call[k]
  <2>1. Returns(c) \/ \E o : call' = [call EXCEPT ![c] = At("create", "starting", call[c].id, o)]
    BY <1>7 DEF Registered
  <2> QED BY <1>1, <1>2, <2>1, SettlesLeads DEF At, CallsOK
<1>8. ASSUME NEW c \in Call, CreateFails(c) \/ StartEnds(c) \/ Deregistered(c) \/ DestroyEnds(c)
      PROVE  call'[k] = call[k]
  BY <1>2, <1>8, SettlesLeads DEF CreateFails, StartEnds, Deregistered, DestroyEnds
<1>9. ASSUME NEW c \in Call, StopEnds(c) \/ LogoutEnds(c)
      PROVE  call'[k] = call[k] \/ object'[call'[k].obj].purgeBegun
  <2>1. \/ Returns(c) \/ Goes(c, "starting")
        \/ Goes(c, "deregistering") /\ \E s : PurgedTo(call[c].obj, s)
    <3>1. call[c].op \in {"stop", "restart", "remove"} \/ LogoutEnds(c)
      BY <1>9 DEF StopEnds, CallsOK, CallShape
    <3> QED BY <1>9, <3>1 DEF StopEnds, LogoutEnds
  <2>2. CASE Goes(c, "deregistering") /\ \E s : PurgedTo(call[c].obj, s)
    <3>1. call[c].obj \in Object
      BY <1>9, OnItsObject DEF StopEnds, LogoutEnds, OnObject
    <3>2. object'[call[c].obj].purgeBegun
      BY <2>2, <3>1 DEF PurgedTo, ObjectsOK, ObjectRecord
    <3> QED BY <2>2, <3>2, GoesLeads DEF Pcs
  <2>3. CASE Goes(c, "starting")
    BY <1>1, <2>3, GoesLeads DEF Pcs
  <2> QED BY <1>2, <2>1, <2>2, <2>3, SettlesLeads
<1> QED BY <1>3, <1>4, <1>5, <1>6, <1>7, <1>8, <1>9
        DEF Next, Resume, DestroyOne, Unlinked, Reset, vars

LEMMA StoredKept ==
  ASSUME Typed, Stored,
         \A i \in Id : sessions'[i] \in {sessions[i], None},
         \A o \in Object : Made(o) /\ object[o].purgeBegun => object'[o].purgeBegun,
         \A i \in Id : Taken(i) /\ i \in meta => i \in meta' \/ object'[sessions[i]].purgeBegun
  PROVE  Stored'
<1>1. ASSUME NEW i \in Id, sessions'[i] # None PROVE i \in meta' \/ object'[sessions'[i]].purgeBegun
  BY <1>1, TakenIsObject DEF Stored, Typed, Taken
<1> QED BY <1>1 DEF Stored, Taken

\* A purge of an object takes the metadata of the session it is, or was.
LEMMA StoredPurged ==
  ASSUME Typed, Stored, UNCHANGED sessions, NEW o \in Object, NEW s \in States, Made(o),
         sessions[object[o].id] = o \/ ~Taken(object[o].id),
         PurgedTo(o, s) \/ PurgeFails(o, s) \/ (Becomes(o, s) /\ UNCHANGED meta)
  PROVE  Stored'
<1> USE DEF Typed
<1>1. CASE PurgedTo(o, s) \/ PurgeFails(o, s)
  <2>1. /\ object'[o].purgeBegun /\ \A x \in Object \ {o} : object'[x] = object[x]
        /\ meta' \in {meta, meta \ {object[o].id}}
    BY <1>1 DEF PurgedTo, PurgeFails, ObjectsOK, ObjectRecord
  <2> QED BY <2>1, StoredKept DEF Taken
<1>2. CASE Becomes(o, s) /\ UNCHANGED meta
  <2>1. \A x \in Object : object'[x].purgeBegun = object[x].purgeBegun
    BY <1>2 DEF Becomes, ObjectsOK, ObjectRecord
  <2> QED BY <1>2, <2>1, StoredKept
<1> QED BY <1>1, <1>2

LEMMA StoredStep ==
  ASSUME Typed, Apart, NotYet, Reached, Begun, Stored, [Next]_vars PROVE Stored'
<1> USE DEF Typed
<1>1. ASSUME NEW c \in Call, Registered(c) PROVE Stored'
  <2>1. PICK i \in Id, o \in Object :
          /\ i = call[c].id /\ ~Made(o) /\ sessions' = [sessions EXCEPT ![i] = o]
          /\ \A x \in Object \ {o} : object'[x] = object[x]
    BY <1>1, RegisteredMakes DEF ObjectsOK
  <2>2. meta' = meta \cup {i}
    BY <1>1, <2>1 DEF Registered, Written
  <2>3. ASSUME NEW k \in Id, k # i, sessions'[k] # None
        PROVE  k \in meta' \/ object'[sessions'[k]].purgeBegun
    <3>1. sessions'[k] = sessions[k] /\ Taken(k)
      BY <2>1, <2>3 DEF Taken, ObjectsOK
    <3>2. sessions[k] \in Object /\ sessions[k] # o
      BY <2>1, <3>1, TakenIsObject
    <3> QED BY <2>1, <2>2, <3>1, <3>2 DEF Stored
  <2> QED BY <2>2, <2>3 DEF Stored, Taken
<1>2. ASSUME NEW c \in Call, StopEnds(c) \/ LogoutEnds(c) PROVE Stored'
  <2>1. /\ UNCHANGED sessions /\ call[c].obj \in Object /\ Made(call[c].obj)
        /\ sessions[object[call[c].obj].id] = call[c].obj \/ ~Taken(object[call[c].obj].id)
    BY <1>2, OnItsObject DEF StopEnds, LogoutEnds, Reached, OnObject
  <2>2. CallShape(call[c])
    BY DEF CallsOK
  <2>3. \/ UNCHANGED <<object, meta>>
        \/ \E s \in States : \/ PurgedTo(call[c].obj, s) \/ PurgeFails(call[c].obj, s)
                             \/ Becomes(call[c].obj, s) /\ UNCHANGED meta
    <3>1. {"starting", "logged_out", Halted(call[c].obj)} \subseteq States
      BY HaltedType DEF States
    <3> QED BY <1>2, <2>2, <3>1 DEF StopEnds, LogoutEnds, CallShape
  <2>4. CASE UNCHANGED <<object, meta>>
    BY <2>1, <2>4, StoredKept
  <2>5. ASSUME NEW s \in States,
               \/ PurgedTo(call[c].obj, s) \/ PurgeFails(call[c].obj, s)
               \/ Becomes(call[c].obj, s) /\ UNCHANGED meta
        PROVE  Stored'
    BY <2>1, <2>5, StoredPurged
  <2> QED BY <2>3, <2>4, <2>5
<1>3. ASSUME NEW o \in Object, Unlinked(o) PROVE Stored'
  <2>1. UNCHANGED sessions /\ Made(o) /\ Running(o) /\ "logged_out" \in States
    BY <1>3 DEF Unlinked, Made, Running, States
  <2>2. sessions[object[o].id] = o \/ ~Taken(object[o].id)
    BY <2>1 DEF Reached
  <2> QED BY <1>3, <2>1, <2>2, StoredPurged DEF Unlinked
<1>4. ASSUME NEW o \in Object, NEW s \in States, Becomes(o, s), UNCHANGED <<sessions, meta>>
      PROVE  Stored'
  <2>1. \A x \in Object : object'[x].purgeBegun = object[x].purgeBegun
    BY <1>4 DEF Becomes, ObjectsOK, ObjectRecord
  <2> QED BY <1>4, <2>1, StoredKept
<1>5. ASSUME NEW c \in Call, NEW i \in Id, Start(c, i) PROVE Stored'
  BY <1>4, <1>5, TakenIsObject DEF Start, States
<1>6. ASSUME NEW c \in Call, StartEnds(c) PROVE Stored'
  BY <1>4, <1>6, OnItsObject DEF StartEnds, States, OnObject
<1>7. ASSUME NEW o \in Object, Reset(o) PROVE Stored'
  BY <1>4, <1>7 DEF Reset, States
<1>8. ASSUME NEW c \in Call, NEW o \in Object, DestroyOne(c, o) PROVE Stored'
  <2>1. \A x \in Object : object'[x].purgeBegun = object[x].purgeBegun
    BY <1>8 DEF DestroyOne, ObjectsOK, ObjectRecord
  <2> QED BY <1>8, <2>1, StoredKept DEF DestroyOne
<1>9. ASSUME UNCHANGED object, meta \subseteq meta',
             \A i \in Id : sessions'[i] \in {sessions[i], None}
      PROVE  Stored'
  BY <1>9, StoredKept
<1>10. ASSUME NEW c \in Call, Deregistered(c) PROVE Stored'
  <2>1. UNCHANGED object /\ call[c].id \in Id
    BY <1>10, OnItsObject DEF Deregistered, OnObject
  <2>2. CASE UNCHANGED sessions
    <3>1. call[c].obj \in Object /\ object[call[c].obj].purgeBegun /\ call[c].pc \in OnObject
      BY <1>10, OnItsObject DEF Deregistered, OnObject, Begun
    <3>2. sessions[call[c].id] = call[c].obj \/ ~Taken(call[c].id)
      BY <3>1 DEF Reached
    <3>3. meta' \in {meta, meta \ {call[c].id}}
      BY <1>10 DEF Deregistered
    <3> QED BY <2>1, <2>2, <3>1, <3>2, <3>3, StoredKept
  <2>3. CASE meta' = meta \ {call[c].id} /\ sessions' = Unregistered(call[c].id)
    BY <2>1, <2>3 DEF Stored, Taken, Unregistered, ObjectsOK
  <2> QED BY <1>10, <2>2, <2>3 DEF Deregistered
<1>11. ASSUME NEW c \in Call, DestroyEnds(c) PROVE Stored'
  BY <1>9, <1>11 DEF DestroyEnds
<1>12. ASSUME NEW c \in Call, CreateFails(c) PROVE Stored'
  BY <1>9, <1>12 DEF CreateFails, Written
<1> QED BY <1>1, <1>2, <1>3, <1>5, <1>6, <1>7, <1>8, <1>9, <1>10, <1>11, <1>12
        DEF Next, Resume, vars, Create, Stop, Logout, Load, Destroy, Prepared, Listed, Take,
            LoadEnds

LEMMA ApartInit == ASSUME Init PROVE ApartInv
<1>1. /\ \A k \in Call : call[k].id = None /\ call[k].pc = "idle"
      /\ \A i \in Id : ~Taken(i)
      /\ \A o \in Object : ~Running(o)
      /\ FanIsOver
  BY DEF Init, Idle, Taken, Running, FanIsOver
<1> QED BY <1>1, TypedInit DEF ApartInv, Apart, NotYet, Reached, Begun, Stored, Creating, OnObject

LEMMA ApartInvStep == ASSUME SameIdApart, ApartInv, [Next]_vars PROVE ApartInv'
<1> USE DEF ApartInv
<1>1. Typed'
  BY TypedStep
<1> QED BY <1>1, ApartStep, NotYetStep, ReachedStep, BegunStep, StoredStep

LEMMA ApartHolds == ASSUME SameIdApart PROVE Spec => []ApartInv
BY ApartInit, ApartInvStep, PTL DEF Spec

\* Where calls about one id do not overlap, a registered session has its
\* metadata until a purge of its own data is begun, whether that purge succeeds,
\* fails or fails in part, even while destroy is under way.
THEOREM StoredFromTheStart ==
  ASSUME "sameId" \notin Admits PROVE Spec => []RegisteredIsStored
<1>1. ApartInv => RegisteredIsStored
  BY TypedIsTyped DEF ApartInv, Stored, RegisteredIsStored
<1> QED BY <1>1, ApartHolds, PTL DEF SameIdApart

-----------------------------------------------------------------------------
(* Nothing overlaps destroy                                                 *)

DestroyApart == "destroy" \notin Admits

\* Once destroy is called nothing else awaits; what runs still has its turn;
\* and it is not over before it has forgotten everything.
Quiet ==
  /\ destroyed => FanIsOver /\ \A k \in Call : call[k].pc \in {"idle", "destroying"}
  /\ \A j, k \in Call : call[j].pc = "destroying" /\ call[k].pc = "destroying" => j = k
  /\ \A k \in Call : call[k].pc = "destroying" => \A o \in Object : Running(o) => o \in doomed
  /\ destroyed /\ adaptersOpen => \E k \in Call : call[k].pc = "destroying"
  /\ ~adaptersOpen => destroyed /\ \A k \in Call : call[k].pc = "idle"
  /\ DestroyedIsDown /\ NoStraySession

QuietInv == ApartInv /\ Quiet

\* While the manager is alive, what runs is what is registered.
LEMMA AliveReaches ==
  ASSUME Reached, ~destroyed PROVE NoStraySession
BY DEF Reached, NoStraySession

\* A destroyed manager takes no call that does anything.
LEMMA DestroyedIsShut ==
  ASSUME QuietInv, DestroyApart, destroyed, [Next]_vars
  PROVE  \/ UNCHANGED vars
         \/ \E c \in Call, o \in Object : DestroyOne(c, o)
         \/ \E c \in Call : DestroyEnds(c)
         \/ \E o \in Object : Unlinked(o) \/ Reset(o)
<1> USE DEF QuietInv, ApartInv, Typed
<1>1. \A k \in Call : call[k].pc \in {"idle", "destroying"} /\ CallShape(call[k])
  BY DEF Quiet, CallsOK
<1>2. FanIsOver /\ \A w \in Call : ~Take(w)
  <2>1. FanIsOver /\ fan.busy \subseteq Call /\ fan.runners \in Nat
    BY DEF Quiet, FanOK, FanRecord
  <2>2. ASSUME NEW w \in Call, Take(w) PROVE FALSE
    <3>1. Cardinality(fan.busy) < fan.runners /\ fan.todo # {}
      BY <2>2 DEF Take
    <3> QED BY <2>1, <3>1, FS_EmptySet DEF FanIsOver
  <2> QED BY <2>1, <2>2
<1>3. ASSUME NEW c \in Call, NEW i \in Id,
             Create(c, i) \/ Start(c, i) \/ Stop(c, i) \/ Logout(c, i)
      PROVE  FALSE
  <2>1. Enters(c, i) /\ Taken(i)
    BY <1>3 DEF Create, Start, Stop, Logout, Alive
  <2>2. adaptersOpen
    BY <2>1 DEF Quiet, DestroyedIsDown, InMap, Taken
  <2>3. PICK k \in Call : call[k].pc = "destroying"
    BY <2>2 DEF Quiet
  <2> QED BY <1>1, <2>1, <2>3 DEF Enters, DestroyApart, CallShape
<1>4. ASSUME NEW c \in Call,
             \/ Load(c) \/ Destroy(c) \/ Prepared(c) \/ Registered(c) \/ CreateFails(c)
             \/ StartEnds(c) \/ StopEnds(c) \/ LogoutEnds(c) \/ Deregistered(c) \/ Listed(c)
             \/ LoadEnds(c)
      PROVE  FALSE
  BY <1>1, <1>4 DEF Load, Destroy, Alive, Prepared, Registered, CreateFails, StartEnds, StopEnds,
      LogoutEnds, Deregistered, Listed, LoadEnds
<1> QED BY <1>2, <1>3, <1>4 DEF Next, Resume

LEMMA QuietStep ==
  ASSUME QuietInv, ApartInv', SameIdApart, DestroyApart, [Next]_vars PROVE Quiet'
<1> USE DEF QuietInv, ApartInv, Typed
<1>1. CASE ~destroyed'
  <2>1. ~destroyed /\ UNCHANGED adaptersOpen
    <3>1. ~destroyed
      BY <1>1 DEF Next, vars, shutdown, Resume, Create, Start, Stop, Logout, Load, Destroy,
          Prepared, Registered, CreateFails, StartEnds, StopEnds, LogoutEnds, Deregistered,
          Listed, Take, LoadEnds, DestroyEnds, DestroyOne, Unlinked, Reset
    <3>2. ASSUME NEW c \in Call, DestroyEnds(c) PROVE FALSE
      BY <3>1, <3>2 DEF DestroyEnds, CallsOK, CallShape
    <3> QED BY <3>1, <3>2
        DEF Next, vars, shutdown, Resume, Create, Start, Stop, Logout, Load, Destroy,
            Prepared, Registered, CreateFails, StartEnds, StopEnds, LogoutEnds, Deregistered,
            Listed, Take, LoadEnds, DestroyOne, Unlinked, Reset
  <2>2. adaptersOpen' /\ \A k \in Call : call'[k].pc # "destroying"
    BY <1>1, <2>1 DEF Quiet, CallsOK, CallShape
  <2>3. NoStraySession'
    BY <1>1 DEF Reached, NoStraySession
  <2> QED BY <1>1, <2>2, <2>3 DEF Quiet, DestroyedIsDown
<1>2. ASSUME NEW c \in Call, ~destroyed, Destroy(c) PROVE Quiet'
  <2>1. /\ FanIsOver /\ fan' = fan /\ \A k \in Call : call[k] = Idle
        /\ UNCHANGED <<object, sessions, adaptersOpen>> /\ doomed' = InMap
    BY <1>2 DEF Destroy, DestroyApart
  <2>2. call'[c].pc = "destroying" /\ \A k \in Call \ {c} : call'[k].pc = "idle"
    <3>1. Moves(c, At("destroy", "destroying", None, None))
      BY <1>2 DEF Destroy, Moves
    <3> QED BY <2>1, <3>1 DEF Moves, At, CallsOK, Idle
  <2>3. NoStraySession
    BY <1>2, AliveReaches
  <2>4. adaptersOpen
    BY <1>2 DEF Quiet
  <2>5. \A o \in Object : Running(o) => o \in InMap
    BY <2>3, NoneAssumption DEF NoStraySession, InMap, Running, Made, ObjectsOK
  <2> QED BY <2>1, <2>2, <2>3, <2>4, <2>5
          DEF Quiet, DestroyedIsDown, NoStraySession, Running, FanIsOver
<1>3. CASE destroyed
  <2>1. ASSUME UNCHANGED <<sessions, destroyed, adaptersOpen, call, fan>>, Kept,
               \A o \in Object : Running(o)' => Running(o) /\ (o \in doomed => o \in doomed')
        PROVE  Quiet'
    <3>1. DestroyedIsDown' /\ NoStraySession'
      BY <2>1 DEF Quiet, DestroyedIsDown, NoStraySession, InMap, Kept
    <3> QED BY <2>1, <3>1 DEF Quiet, FanIsOver
  <2>2. ASSUME NEW c \in Call, NEW o \in Object, DestroyOne(c, o) PROVE Quiet'
    BY <2>1, <2>2, DestroyOneHalts DEF DestroyOne
  <2>3. ASSUME NEW o \in Object, Unlinked(o) PROVE Quiet'
    <3>1. Kept
      BY <2>3, PurgeKeeps DEF Unlinked, States, Made
    <3>2. \A x \in Object : Running(x)' => Running(x)
      BY <2>3 DEF Unlinked, PurgedTo, PurgeFails, Becomes, Running, ObjectsOK, ObjectRecord
    <3> QED BY <2>1, <2>3, <3>1, <3>2 DEF Unlinked, shutdown
  <2>4. ASSUME NEW o \in Object, Reset(o) PROVE Quiet'
    <3>1. Kept
      BY <2>4, BecomesKeeps DEF Reset, States, Made
    <3>2. \A x \in Object : Running(x)' => Running(x)
      BY <2>4 DEF Reset, Becomes, Running, ObjectsOK, ObjectRecord
    <3> QED BY <2>1, <2>4, <3>1, <3>2 DEF Reset, shutdown
  <2>5. ASSUME NEW c \in Call, DestroyEnds(c) PROVE Quiet'
    <3>1. /\ \A i \in Id : sessions'[i] = None
          /\ ~adaptersOpen' /\ destroyed' /\ doomed = {} /\ UNCHANGED object
          /\ call[c].pc = "destroying"
      BY <1>3, <2>5 DEF DestroyEnds
    <3>2. \A o \in Object : ~Running(o)
      BY <3>1 DEF Quiet
    <3>3. call'[c] = Idle /\ \A k \in Call : call'[k] \in {call[k], Idle}
      BY <2>5, SettlesCalls DEF DestroyEnds, Returns
    <3>4. \A k \in Call : call'[k].pc = "idle"
      BY <1>3, <3>1, <3>3 DEF Quiet, Idle
    <3>5. FanIsOver'
      <4>1. fan.busy = {} /\ FanIsOver
        BY <1>3 DEF Quiet, FanIsOver
      <4> QED BY <2>5, <4>1 DEF DestroyEnds, Returns, Settles, FanIsOver
    <3>6. DestroyedIsDown' /\ NoStraySession'
      BY <3>1, <3>2 DEF DestroyedIsDown, NoStraySession, InMap, Running
    <3> QED BY <3>1, <3>4, <3>5, <3>6 DEF Quiet
  <2>6. CASE UNCHANGED vars
    BY <2>6 DEF vars, Quiet, DestroyedIsDown, NoStraySession, FanIsOver, Running, InMap
  <2> QED BY <1>3, <2>2, <2>3, <2>4, <2>5, <2>6, DestroyedIsShut
<1>4. ASSUME ~destroyed, destroyed' PROVE \E c \in Call : Destroy(c)
  BY <1>4 DEF Next, vars, shutdown, Resume, Create, Start, Stop, Logout, Load,
      Prepared, Registered, CreateFails, StartEnds, StopEnds, LogoutEnds, Deregistered,
      Listed, Take, LoadEnds, DestroyEnds, DestroyOne, Unlinked, Reset
<1> QED BY <1>1, <1>2, <1>3, <1>4

LEMMA QuietInit == ASSUME Init PROVE QuietInv
<1>1. /\ \A k \in Call : call[k].pc = "idle"
      /\ \A o \in Object : ~Running(o)
      /\ ~destroyed /\ adaptersOpen
  BY DEF Init, Idle, Running
<1> QED BY <1>1, ApartInit DEF QuietInv, Quiet, DestroyedIsDown, NoStraySession

LEMMA QuietHolds == ASSUME SameIdApart, DestroyApart PROVE Spec => []QuietInv
<1>1. QuietInv /\ [Next]_vars => QuietInv'
  BY ApartInvStep, QuietStep DEF QuietInv
<1> QED BY <1>1, QuietInit, PTL DEF Spec

\* Where calls about one id do not overlap and nothing overlaps destroy, what
\* runs can be reached through the manager.
THEOREM NoneStrays ==
  ASSUME {"sameId", "destroy"} \cap Admits = {} PROVE Spec => []NoStraySession
<1>1. SameIdApart /\ DestroyApart
  BY DEF SameIdApart, DestroyApart
<1>2. QuietInv => NoStraySession
  BY DEF QuietInv, Quiet
<1> QED BY <1>1, <1>2, QuietHolds, PTL

\* Under the same hypothesis, nothing runs and nothing is registered once
\* destroy has closed the adapters.
THEOREM DestroyStopsAll ==
  ASSUME {"sameId", "destroy"} \cap Admits = {} PROVE Spec => []DestroyedIsDown
<1>1. SameIdApart /\ DestroyApart
  BY DEF SameIdApart, DestroyApart
<1>2. QuietInv => DestroyedIsDown
  BY DEF QuietInv, Quiet
<1> QED BY <1>1, <1>2, QuietHolds, PTL
=============================================================================
