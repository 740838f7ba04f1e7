------------------------------ MODULE AuthStore ------------------------------
(***************************************************************************)
(* The credentials, Signal keys and metadata of one session at rest:       *)
(* useAuthState and SessionRegistry (src/src/auth, session/registry.ts)    *)
(* over each storage adapter (src/src/storage, src/src/adapters).  A call  *)
(* is a record of what it still has to do; how much of it one step does is *)
(* up to the adapter.  Any step of a persistent adapter may fail, and the  *)
(* process may crash between any two.  A value is its version; 0 is none.  *)
(* Beside the session's keys the backend holds those of a neighbour and,   *)
(* in Redis, the session's lock: names and prefixes are Keyspace's.         *)
(***************************************************************************)
EXTENDS FiniteSets, Keyspace

CONSTANTS Backend,     \* the adapters to consider
          Lane,        \* calls that can be under way at once
          Signal, Name, \* Signal keys, and the name of each
          Session, Neighbour, \* two session ids
          LockPrefix,  \* redisLock's prefix
          Chunk,       \* rows per statement (200), keys per DEL (500)
          Overlapping, \* whether a saveCreds may start while another is under way
          MaxVersion   \* bound of the versions written

ASSUME BackendAssumption == Backend \subseteq {"memory", "file", "sql", "redis", "mongo"}
ASSUME SignalAssumption == Signal \cap {"creds", "meta", "neighbour", "lock"} = {}
\* A session id is one of [A-Za-z0-9_-]; a Signal key has its type in front.
ASSUME SessionAssumption ==
  Session # Neighbour /\ \A id \in {Session, Neighbour} : id \in Seq(Char) /\ ~Contains(id, ":")
ASSUME NameAssumption ==
  /\ Name \in [Signal -> Seq(Char)] /\ \A j, k \in Signal : Name[j] = Name[k] => j = k
  /\ \A k \in Signal : \E t \in SignalType : IsStrictPrefix(Append(t, "-"), Name[k])
ASSUME LockAssumption ==
  /\ LockPrefix \in Seq(Char)
  /\ "redis" \in Backend => ~IsPrefix(SessionPrefix(Session), LockPrefix \o LockKey(Session))
ASSUME BoundAssumption ==
  Chunk \in Nat \ {0} /\ MaxVersion \in Nat \ {0} /\ Overlapping \in BOOLEAN

VARIABLES backend,
          naming,   \* what the names mean to it: Naming(backend), throughout
          disk,     \* the stored version of each key
          dir,      \* the session's directory exists (file)
          temps,    \* temporary files in it, by lane and key (file)
          call,     \* the calls under way
          auth,     \* the session has an auth state loaded
          next,     \* the last version written so far
          acked,    \* the last credentials whose save was confirmed
          wiped     \* the Signal keys were dropped on purpose, or a set began
                    \* behind which unlinks of one that failed still go on

setting == <<backend, naming>>
files == <<disk, dir, temps>>
history == <<next, acked, wiped>>
vars == <<setting, files, call, auth, history>>

Key == Signal \cup {"creds", "meta"}
Resident == Key \cup {"neighbour", "lock"}
Absent == 0
Torn == 0 - 1
Present == {k \in Resident : disk[k] # Absent}

Full(k) ==
  CASE k = "creds" -> StorageKey(Session, Creds)
    [] k = "meta" -> StorageKey(Session, Meta)
    [] k = "neighbour" -> StorageKey(Neighbour, Creds)
    [] k = "lock" -> LockPrefix \o LockKey(Session)
    [] OTHER -> StorageKey(Session, Name[k])

\* How an adapter reads a key back from its place.
ReadBack(b, k) == ParseStorageKey(Reported(b, Full(k)))

\* The full keys that an adapter's backend may hold.
Holds(b) == IF b = "redis" THEN Resident ELSE Resident \ {"lock"}

\* What its names mean to an adapter: which keys the session's prefix finds,
\* which of them are then taken for Signal keys, which keys share a place, and
\* whose the namespace's prefix finds.
Naming(b) ==
  LET scope == {k \in Holds(b) : Selects(b, SessionPrefix(Session), Full(k))}
  IN [scope |-> scope,
      signal |-> {k \in scope : IsSignalKey(ReadBack(b, k).key)},
      place |-> [k \in Key |-> {j \in Holds(b) : Place(b, Full(j)) = Place(b, Reported(b, Full(k)))}],
      owner |-> {<<k, ReadBack(b, k).id>> : k \in {j \in Holds(b) : Selects(b, NamespacePrefix, Full(j))}}]

Found == Present \cap naming.scope
Places(ks) == UNION {naming.place[k] : k \in ks}

None == [k \in {} |-> "todo"]
Idle == [op |-> "none", phase |-> "none", ver |-> 0, puts |-> {}, drops |-> {}, st |-> None,
         told |-> "none", raced |-> {}]

Init ==
  /\ backend \in Backend /\ naming = Naming(backend)
  /\ disk = [k \in Resident |->
               IF k \in Holds(backend) \ {"creds", "meta"} THEN 1 ELSE Absent]
  /\ dir = TRUE /\ temps = {}
  /\ call = [c \in Lane |-> Idle]
  /\ auth = FALSE
  /\ next = 1 /\ acked = Absent /\ wiped = FALSE

Busy == {c \in Lane : call[c].op # "none"}

\* Calls that may put k, and calls that clear the session.
Purging == {c \in Busy : call[c].op = "purge"}

-----------------------------------------------------------------------------
(* Starting a call                                                           *)

Todo(ks) == [k \in ks |-> "todo"]

\* The parts of a write: the file adapter begins with the directory.
Parts(ks) == [k \in ks |-> IF backend = "file" THEN "dir" ELSE "todo"]

\* A call begins; a purge takes note of the writes it overlaps, and a save of it.
Begin(c, r) ==
  /\ call[c].op = "none"
  /\ call' = [d \in Lane |->
       IF d = c THEN [r EXCEPT !.raced = IF r.op = "purge" THEN UNION {call[e].puts : e \in Busy}
                                         ELSE IF r.op = "save" /\ Purging # {} THEN Key ELSE {}]
       ELSE IF r.op = "purge" /\ call[d].op = "save" THEN [call[d] EXCEPT !.raced = Key]
       ELSE IF d \in Purging THEN [call[d] EXCEPT !.raced = @ \cup r.puts]
       ELSE call[d]]

Write(op, ks, ds) ==
  [Idle EXCEPT !.op = op, !.phase = "write", !.ver = next + 1, !.puts = ks, !.drops = ds,
               !.st = Parts(ks)]

\* The caller still waits for a call of this kind.
Waiting(op) ==
  \E d \in Busy : call[d].op = op /\ (call[d].told = "none" \/ backend # "file")

\* get and mget: what is stored at the key's place, if anything is.
Read(k) == {disk[j] : j \in Present \cap naming.place[k]}

\* useAuthState: the credentials are read back, or made anew when there are
\* none.  A file that was cut off is an error, and stays one.
Load ==
  /\ ~auth /\ Purging = {}
  /\ Torn \notin Read("creds")
  /\ auth' = TRUE
  /\ UNCHANGED <<setting, files, call, history>>

\* saveCreds encodes the live credentials before its first await.
SaveCreds(c) ==
  /\ auth /\ next < MaxVersion
  /\ Overlapping \/ ~Waiting("save")
  /\ Begin(c, Write("save", {"creds"}, {}))
  /\ next' = next + 1
  /\ UNCHANGED <<setting, files, auth, acked, wiped>>

\* Deletes of a set go on: past its end, when one of the file adapter's failed.
Straying == \E d \in Busy : call[d].op = "set" /\ call[d].phase = "delete"

\* state.keys.set: writes, then deletes.  The driver waits for one before the next.
SetKeys(c, ks, ds) ==
  /\ auth /\ next < MaxVersion /\ ~Waiting("set")
  /\ ks # {} /\ ks \cap ds = {}
  /\ Begin(c, Write("set", ks, ds))
  /\ next' = next + 1
  /\ wiped' = (wiped \/ Straying)
  /\ UNCHANGED <<setting, files, auth, acked>>

\* The same with nothing to write: its deletes come at once.
DropKeys(c, ds) ==
  /\ auth /\ ~Waiting("set")
  /\ ds # {}
  /\ Begin(c, [Idle EXCEPT !.op = "set", !.phase = "delete", !.drops = ds, !.st = Todo(ds)])
  /\ wiped' = (wiped \/ Straying \/ Present \cap Signal \subseteq ds)
  /\ UNCHANGED <<setting, files, auth, next, acked>>

\* SessionRegistry.write and .remove.
WriteMeta(c) ==
  /\ next < MaxVersion
  /\ Begin(c, Write("register", {"meta"}, {}))
  /\ next' = next + 1
  /\ UNCHANGED <<setting, files, auth, acked, wiped>>

RemoveMeta(c) ==
  /\ Begin(c, [Idle EXCEPT !.op = "forget", !.phase = "delete", !.drops = {"meta"},
                           !.st = Todo({"meta"})])
  /\ UNCHANGED <<setting, files, auth, history>>

\* clearKeys, also as state.keys.clear.
ClearKeys(c) ==
  /\ auth
  /\ Begin(c, [Idle EXCEPT !.op = "wipe", !.phase = "list", !.puts = {}, !.st = Todo(Found)])
  /\ wiped' = TRUE
  /\ UNCHANGED <<setting, files, auth, next, acked>>

\* purge, and the session forgets its auth state when it is over.
Purge(c) ==
  /\ auth /\ Purging = {}
  /\ Begin(c, [Idle EXCEPT !.op = "purge", !.phase = "list", !.st = Todo(Found)])
  /\ wiped' = TRUE
  /\ acked' = Absent
  /\ UNCHANGED <<setting, files, auth, next>>

-----------------------------------------------------------------------------
(* What a call does next                                                     *)

Set(c, r) == call' = [call EXCEPT ![c] = r]

\* SQL writes in chunks of rows; a Redis clear deletes in chunks of keys.
Chunked(c) ==
  \/ backend = "sql" /\ call[c].phase = "write"
  \/ backend = "redis" /\ call[c].op = "purge"

\* The parts that one statement covers: all of them, those of a chunk, or one
\* by one in any order.
Batch(c) ==
  LET todo == DOMAIN call[c].st
  IN CASE backend \in {"mongo", "file"} -> {{k} : k \in todo}
       [] Chunked(c) -> IF Cardinality(todo) < Chunk THEN {todo}
                      ELSE {g \in SUBSET todo : Cardinality(g) = Chunk}
       [] OTHER -> {todo}

Without(c, g) == [k \in DOMAIN call[c].st \ g |-> call[c].st[k]]

\* A write of every adapter but the file one.
Land(c, g) ==
  /\ call[c].phase = "write" /\ backend # "file"
  /\ disk' = [k \in Resident |-> IF k \in Places(g) THEN call[c].ver ELSE disk[k]]
  /\ Set(c, [call[c] EXCEPT !.st = Without(c, g)])
  /\ UNCHANGED <<setting, dir, temps, auth, history>>

Stage(c, k, from) == call[c].phase = "write" /\ k \in DOMAIN call[c].st /\ call[c].st[k] = from
GoOn(c, k, to) == Set(c, [call[c] EXCEPT !.st[k] = to])

\* writeEnvelope: mkdir -p, then a temporary file, then rename over the key.
MakeDir(c, k) ==
  /\ Stage(c, k, "dir")
  /\ dir' = TRUE
  /\ GoOn(c, k, "open")
  /\ UNCHANGED <<setting, disk, temps, auth, history>>

\* Mutant of Begun: writes credentials in place, as v1 did.
BegunInPlace(k) == [disk EXCEPT ![k] = Torn]

\* What the key holds while its file is being written.
Begun(k) == disk

OpenTemp(c, k) ==
  /\ Stage(c, k, "open")
  /\ dir
  /\ temps' = temps \cup {<<c, k>>}
  /\ disk' = Begun(k)
  /\ GoOn(c, k, "rename")
  /\ UNCHANGED <<setting, dir, auth, history>>

Rename(c, k) ==
  /\ Stage(c, k, "rename")
  /\ <<c, k>> \in temps
  /\ temps' = temps \ {<<c, k>>}
  /\ disk' = [j \in Resident |-> IF j \in Places({k}) THEN call[c].ver ELSE disk[j]]
  /\ Set(c, [call[c] EXCEPT !.st = Without(c, {k})])
  /\ UNCHANGED <<setting, dir, auth, history>>

\* One part fails.  The file adapter's other parts and those of an unordered
\* MongoDB bulk go on, the former behind the back of a caller already told.
PartFails(c, k) ==
  /\ backend \in {"file", "mongo"}
  /\ k \in DOMAIN call[c].st /\ call[c].phase \in {"write", "delete"}
  /\ temps' = temps \ {<<c, k>>}
  /\ Set(c, [call[c] EXCEPT !.st = Without(c, {k}), !.told = "failed"])
  /\ UNCHANGED <<setting, disk, dir, auth, history>>

\* A call fails as a whole: its next statement did.
Fail(c) ==
  /\ call[c].op # "none"
  /\ \/ backend \in {"sql", "redis"}
     \/ backend # "memory" /\ call[c].phase \in {"list", "clear"}
  /\ Set(c, Idle)
  /\ UNCHANGED <<setting, files, auth, history>>

\* Mutant of Doomed: clearKeys drops whatever it finds.
DoomedAll(c, seen) == seen

\* clearKeys keeps what is ours rather than Signal's.
Doomed(c, seen) == IF call[c].op = "wipe" THEN seen \cap naming.signal ELSE seen

\* SQL and memory clear in one go.
ClearAtOnce(c) ==
  /\ call[c].phase = "list" /\ call[c].op = "purge" /\ backend \in {"sql", "memory"}
  /\ disk' = [k \in Resident |-> IF k \in naming.scope THEN Absent ELSE disk[k]]
  /\ Set(c, [call[c] EXCEPT !.phase = "cleared", !.st = None])
  /\ UNCHANGED <<setting, dir, temps, auth, history>>

\* Mutant of Listed: the walk ends with the first reply, its cursor unread.
ListedFirst(c, seen) == seen \subseteq Found

\* What keys() and the walk of a clear may return.  SCAN and a cursor return
\* every key that is there from beginning to end, and perhaps others.
Listed(c, seen) ==
  IF backend \in {"redis", "mongo"} THEN Found \cap DOMAIN call[c].st \subseteq seen
  ELSE seen = Found

List(c) ==
  /\ call[c].phase = "list"
  /\ ~(call[c].op = "purge" /\ backend \in {"sql", "memory"})
  /\ \E seen \in SUBSET (Found \cup DOMAIN call[c].st) :
       /\ Listed(c, seen)
       /\ Set(c, [call[c] EXCEPT !.phase = IF call[c].op = "purge" THEN "clear" ELSE "delete",
                                 !.st = Todo(Doomed(c, seen))])
  /\ UNCHANGED <<setting, files, auth, history>>

Delete(c, g) ==
  /\ call[c].phase \in {"delete", "clear"}
  /\ disk' = [k \in Resident |-> IF k \in Places(g) THEN Absent ELSE disk[k]]
  /\ Set(c, [call[c] EXCEPT !.st = Without(c, g)])
  /\ UNCHANGED <<setting, dir, temps, auth, history>>

\* rm -r ends with the directory, which must be empty by then; the temporary
\* files it met are gone as well.
RemoveDir(c, left) ==
  /\ call[c].phase = "clear" /\ backend = "file" /\ call[c].st = None
  /\ left \in SUBSET temps
  /\ temps' = left
  /\ dir' = (left # {} \/ Found # {})
  /\ Set(c, [call[c] EXCEPT !.phase = "cleared",
                            !.told = IF left # {} \/ Found # {} THEN "failed" ELSE @])
  /\ UNCHANGED <<setting, disk, auth, history>>

-----------------------------------------------------------------------------
(* The end of a call                                                         *)

\* Mutant of Deleting: the deletes go ahead although a write failed.
DeletingAnyway(c) == call[c].op = "set" /\ call[c].phase = "write"

\* A set whose writes are through goes on to its deletes.
Deleting(c) ==
  /\ call[c].op = "set" /\ call[c].phase = "write"
  /\ call[c].told = "none" /\ call[c].drops # {}

Finished(c) ==
  /\ call[c].op # "none" /\ call[c].st = None
  /\ call[c].phase # "list"
  /\ ~(backend = "file" /\ call[c].phase = "clear")

Return(c) ==
  /\ Finished(c)
  /\ IF Deleting(c)
     THEN /\ Set(c, [call[c] EXCEPT !.phase = "delete", !.st = Todo(call[c].drops)])
          /\ UNCHANGED <<auth, acked>>
     ELSE /\ Set(c, Idle)
          /\ acked' = IF call[c].op = "save" /\ call[c].told = "none" /\ call[c].raced = {}
                         /\ call[c].ver > acked
                      THEN call[c].ver ELSE acked
          /\ auth' = (auth /\ ~(call[c].op = "purge" /\ call[c].told = "none"))
  /\ UNCHANGED <<setting, files, next, wiped>>

\* The process dies.  The memory adapter dies with it.
Crash ==
  /\ backend # "memory"
  /\ call' = [c \in Lane |-> Idle]
  /\ auth' = FALSE
  /\ temps' = {}
  /\ UNCHANGED <<setting, disk, dir, history>>

Starts(c) ==
  /\ call[c].op = "none"
  /\ \/ SaveCreds(c) \/ WriteMeta(c) \/ RemoveMeta(c) \/ ClearKeys(c) \/ Purge(c)
     \/ \E ks, ds \in SUBSET Signal : SetKeys(c, ks, ds)
     \/ \E ds \in SUBSET Signal : DropKeys(c, ds)

Steps(c) ==
  /\ call[c].op # "none"
  /\ \/ \E g \in Batch(c) \ {{}} : Land(c, g) \/ Delete(c, g)
     \/ \E k \in Key : MakeDir(c, k) \/ OpenTemp(c, k) \/ Rename(c, k) \/ PartFails(c, k)
     \/ \E left \in SUBSET temps : RemoveDir(c, left)
     \/ ClearAtOnce(c) \/ List(c) \/ Fail(c) \/ Return(c)

Next == Load \/ Crash \/ \E c \in Lane : Starts(c) \/ Steps(c)

Spec == Init /\ [][Next]_vars

-----------------------------------------------------------------------------
(* Properties                                                               *)

TypeOK ==
  /\ backend \in Backend /\ disk \in [Resident -> Torn..MaxVersion]
  /\ dir \in BOOLEAN /\ temps \subseteq Lane \X Key
  /\ auth \in BOOLEAN /\ next \in 1..MaxVersion /\ acked \in 0..MaxVersion /\ wiped \in BOOLEAN
  /\ \A c \in Lane : DOMAIN call[c].st \subseteq Resident /\ call[c].raced \subseteq Key

\* "Persist the live credentials" (auth-state.ts:35): credentials whose save
\* was confirmed are there, or newer ones, until a purge; no failed save, crash
\* or call beside it truncates them or brings older ones back.  Two saves of
\* one session do overlap, and then may: see Overlapping.
AckedCredsSurvive == TypeOK /\ disk["creds"] >= acked

\* A rotation writes its new keys before it drops the old ones (auth-state.ts:134),
\* so that a failure or a crash in between leaves a session with both, never with
\* none.  It does not hold of a set that begins while the file adapter still
\* unlinks for one that was told to have failed (file.ts:169): what the later one
\* wrote the earlier one may take.  Such a set counts as one that drops them all.
SomeKeySurvives == wiped \/ \E k \in Signal : disk[k] # Absent

\* A key of the session, and none of another session or of the locks, changes
\* only as a call under way asked: to the whole value of a write, or to nothing
\* by a purge, a key-store reset (Signal keys only: otherwise it would "turn a
\* key-store reset into an unlink", auth-state.ts:147), the registry, or a set
\* that is past its writes.
ChangesAreAsked ==
  [][\A k \in Resident : disk'[k] # disk[k] =>
       \E c \in Busy : k \in Key /\
         \/ disk'[k] = call[c].ver /\ k \in call[c].puts
         \/ /\ disk'[k] = Absent
            /\ \/ call[c].op = "purge"
               \/ call[c].op = "wipe" /\ k \in Signal
               \/ call[c].op \in {"set", "forget"} /\ k \in call[c].drops
                  /\ call[c].phase = "delete"]_vars

\* "Drop everything the session owns": a purge that returns without an error
\* left nothing, except what a write that overlapped it put.
PurgeIsComplete ==
  [][\A c \in Purging :
       call'[c] = Idle /\ auth /\ ~auth' /\ call[c].told = "none" /\ Finished(c) =>
         Present' \cap Key \subseteq call[c].raced]_vars

\* The session's prefix finds the session's keys and no others, its Signal keys
\* are told from ours, and every key has a place of its own.
WellNamed(n) == n.scope = Key /\ n.signal = Signal /\ \A k \in Key : n.place[k] = {k}

\* "Session ids present in the default backend" (manager.ts:189): discover and
\* load find the sessions that have data, and nothing else; nor does anything
\* else that goes by the names mistake one key for another.
Discovered == {p[2] : p \in {q \in naming.owner : q[1] \in Present}}
DiscoveredHaveData ==
  /\ WellNamed(naming)
  /\ \A id \in Discovered \cup {Session, Neighbour} :
       id \in Discovered <=>
         \/ id = Session /\ Present \cap Key # {}
         \/ id = Neighbour /\ "neighbour" \in Present
=============================================================================
