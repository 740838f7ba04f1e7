---------------------------- MODULE PairingProofs ----------------------------
(***************************************************************************)
(* Pairing for any number of requests and QR codes, any limit, timeout and  *)
(* clock bound, and every set of late arrivals a property allows.           *)
(***************************************************************************)
EXTENDS Pairing, TLAPS

-----------------------------------------------------------------------------
(* The transition table                                                     *)

\* A state and a trigger lead to one state at most.
LEMMA TableIsFunction ==
  \A from, trigger, to, other :
    <<from, trigger, to>> \in Transitions /\ <<from, trigger, other>> \in Transitions => to = other
BY DEF Transitions

\* Where the table has an edge, tryApply follows it.
LEMMA TryApplyFollows ==
  ASSUME NEW from, NEW trigger, NEW to \in SessionStates, <<from, trigger, to>> \in Transitions
  PROVE  TryApply(from, trigger) = to
BY TableIsFunction DEF TryApply, Can

\* Where tryApply leads is where the state was, or the end of an edge.
LEMMA TryApplyResult ==
  ASSUME NEW from \in SessionStates, NEW trigger
  PROVE  /\ TryApply(from, trigger) \in SessionStates
         /\ \/ TryApply(from, trigger) = from
            \/ <<from, trigger, TryApply(from, trigger)>> \in Transitions
<1>1. CASE Can(from, trigger)
  <2>1. PICK to \in SessionStates : <<from, trigger, to>> \in Transitions
    BY <1>1 DEF Can
  <2> QED BY <2>1, TryApplyFollows
<1>2. CASE ~Can(from, trigger)
  BY <1>2 DEF TryApply
<1> QED BY <1>1, <1>2

\* Only a QR code makes a session wait for a scan.
LEMMA ScanAwaitsQr ==
  ASSUME NEW from \in SessionStates, NEW trigger, TryApply(from, trigger) = "awaiting_scan"
  PROVE  from = "awaiting_scan" \/ trigger = "qr"
BY TryApplyResult DEF Transitions

-----------------------------------------------------------------------------
(* Types                                                                    *)

\* The QR counter never runs ahead of the codes issued, which bounds it.
Typed == TypeOK /\ qrAttempt <= latest

\* What is written to an entry, or left of it, is an entry.
LEMMA EntryTyped ==
  ASSUME TypeOK
  PROVE  /\ \A ref \in 0..MaxQr : Held(ref) \in Code
         /\ None \in Code
         /\ \A entry \in Code : Kept(entry) \in Code
BY TimeAssumption DEF TypeOK, Held, None, Kept, Code

\* A call moves on, or is made.
LEMMA CallTyped ==
  /\ \A call \in Call, pc \in {"orphan", "answered", "refused"} : [call EXCEPT !.pc = pc] \in Call
  /\ \A ref \in 0..MaxQr : [pc |-> "asked", ref |-> ref] \in Call
  /\ \A call \in Call : call.ref \in 0..MaxQr
BY DEF Call

LEMMA InitTyped == Init => Typed
<1> SUFFICES ASSUME Init PROVE Typed
  OBVIOUS
<1>1. [pc |-> "out", ref |-> 0] \in Call
  BY TimeAssumption DEF Call
<1>2. qr \in Code /\ pairing \in Code
  BY TimeAssumption DEF Init, None, Code
<1>3. request \in [Request -> Call]
  BY <1>1 DEF Init
<1>4. /\ latest \in 0..MaxQr /\ spent \in 0..latest /\ now \in 0..MaxNow
      /\ qrAttempt \in 0..MaxQr /\ qrAttempt <= latest
  BY TimeAssumption DEF Init
<1> QED BY <1>2, <1>3, <1>4 DEF Init, Typed, TypeOK, SessionStates

\* The session's own steps.
LEMMA ConnectionTyped ==
  ASSUME Typed, Connects \/ OnQr \/ OnOpen \/ OnClose \/ Stops \/ Stopped \/ Reset \/ Removed
  PROVE  Typed'
<1> USE TimeAssumption DEF Typed, TypeOK
<1>t. \A trigger : TryApply(state, trigger) \in SessionStates
  BY TryApplyResult
<1>1. CASE Connects
  BY <1>1, <1>t DEF Connects, liveVars
<1>2. CASE OnQr
  <2>1. TryApply(TryApply(state, "qr"), "qr_exhausted") \in SessionStates
    BY <1>t, TryApplyResult
  <2>2. state' \in SessionStates /\ socket' \in {"none", "new", "opened"}
    BY <1>2, <1>t, <2>1 DEF OnQr
  <2>3. qr' \in Code
    BY <1>2, EntryTyped DEF OnQr, RememberQr
  <2>4. latest' \in 0..MaxQr /\ spent' \in 0..latest' /\ qrAttempt' \in 0..MaxQr
        /\ qrAttempt' <= latest'
    BY <1>2 DEF OnQr
  <2> QED BY <1>2, <2>2, <2>3, <2>4 DEF OnQr
<1>3. CASE OnOpen
  <2>1. qr' \in Code /\ pairing' \in Code
    BY <1>3, EntryTyped DEF OnOpen, Remember
  <2>2. latest' \in 0..MaxQr /\ spent' \in 0..latest' /\ qrAttempt' \in 0..MaxQr
        /\ qrAttempt' <= latest'
    BY <1>3 DEF OnOpen
  <2> QED BY <1>3, <1>t, <2>1, <2>2 DEF OnOpen
<1>4. CASE OnClose
  BY <1>4, <1>t DEF OnClose, liveVars
<1>5. CASE Stops
  BY <1>5, <1>t DEF Stops, liveVars
<1>6. CASE Stopped
  BY <1>6, <1>t DEF Stopped, liveVars
<1>7. CASE Reset
  <2>1. state' \in SessionStates
    BY <1>7, <1>t DEF Reset
  <2>2. latest' \in 0..MaxQr /\ spent' \in 0..latest' /\ qrAttempt' \in 0..MaxQr
        /\ qrAttempt' <= latest'
    BY <1>7 DEF Reset
  <2> QED BY <1>7, <2>1, <2>2 DEF Reset, liveVars
<1>8. CASE Removed
  <2>1. request' \in [Request -> Call]
    BY <1>8, CallTyped DEF Removed
  <2>2. qr' \in Code /\ pairing' \in Code
    BY <1>8, EntryTyped DEF Removed, Remember
  <2>3. state' \in SessionStates
    BY <1>8 DEF Removed, SessionStates
  <2>4. latest' \in 0..MaxQr /\ spent' \in 0..latest' /\ qrAttempt' \in 0..MaxQr
        /\ qrAttempt' <= latest'
    BY <1>8 DEF Removed
  <2> QED BY <1>8, <2>1, <2>2, <2>3, <2>4 DEF Removed
<1> QED BY <1>1, <1>2, <1>3, <1>4, <1>5, <1>6, <1>7, <1>8

\* The calls, the server and the clock.
LEMMA OthersTyped ==
  ASSUME Typed,
         \/ \E r \in Request : Requests(r) \/ Answered(r) \/ Refused(r)
         \/ Ask \/ Close \/ Tick \/ UNCHANGED vars
  PROVE  Typed'
<1> USE TimeAssumption DEF Typed, TypeOK
<1>1. ASSUME NEW r \in Request, Requests(r) PROVE Typed'
  <2>1. request' \in [Request -> Call]
    BY <1>1, CallTyped DEF Requests
  <2> QED BY <1>1, <2>1 DEF Requests, liveVars
<1>2. ASSUME NEW r \in Request, Answered(r) PROVE Typed'
  <2>1. request' \in [Request -> Call]
    BY <1>2, CallTyped DEF Answered
  <2>2. pairing' \in Code
    BY <1>2, EntryTyped, CallTyped DEF Answered, RememberCode
  <2>3. pairingPending' \in BOOLEAN
    BY <1>2 DEF Answered, AfterAnswer
  <2> QED BY <1>2, <2>1, <2>2, <2>3 DEF Answered
<1>3. ASSUME NEW r \in Request, Refused(r) PROVE Typed'
  <2>1. request' \in [Request -> Call]
    BY <1>3, CallTyped DEF Refused
  <2> QED BY <1>3, <2>1 DEF Refused, liveVars
<1>4. CASE Ask
  <2>1. qr' \in Code /\ pairing' \in Code
    BY <1>4, EntryTyped DEF Ask
  <2> QED BY <1>4, <2>1 DEF Ask, sessionVars
<1>5. CASE Close
  BY <1>5, EntryTyped DEF Close, sessionVars
<1>6. CASE Tick
  BY <1>6 DEF Tick, sessionVars, liveVars
<1>7. CASE UNCHANGED vars
  BY <1>7 DEF vars, sessionVars, liveVars
<1> QED BY <1>1, <1>2, <1>3, <1>4, <1>5, <1>6, <1>7

LEMMA NextTyped == Typed /\ [Next]_vars => Typed'
BY ConnectionTyped, OthersTyped DEF Next

\* The types, the bound of the QR counter among them.
THEOREM TypeCorrect == Spec => []Typed
BY InitTyped, NextTyped, PTL DEF Spec

-----------------------------------------------------------------------------
(* One request per QR code                                                  *)

\* Calls that a code was, or may yet be, issued to under the current QR code,
\* those of a removed object included.
Issued(r) == request[r].pc \in {"asked", "orphan", "answered"} /\ request[r].ref = latest

\* A request is made while a scan is awaited, under a QR code of the object
\* that makes it: the calls that a removal leaves behind belong to codes that
\* were issued before, so none of them is Standing when the flag matters.
OneInv ==
  /\ Typed
  /\ \A r \in Request : request[r].ref <= latest
  /\ \A r, u \in Request : Issued(r) /\ Issued(u) => r = u
  /\ state = "awaiting_scan" =>
       /\ pairingPending <=> \E r \in Request : Standing(r)
       /\ \A r \in Request : request[r].pc = "orphan" => request[r].ref < latest

LEMMA InitOne == Init => OneInv
BY InitTyped DEF Init, OneInv, Issued

LEMMA NextOne ==
  ASSUME "failure" \notin Admits, OneInv, Typed', [Next]_vars
  PROVE  OneInv'
<1> DEFINE Refs == /\ \A r \in Request : request[r].ref <= latest
                   /\ \A r, u \in Request : Issued(r) /\ Issued(u) => r = u
           Flag == /\ pairingPending <=> \E r \in Request : Standing(r)
                   /\ \A r \in Request : request[r].pc = "orphan" => request[r].ref < latest
<1> SUFFICES Refs' /\ (state' = "awaiting_scan" => Flag')
  BY DEF OneInv, Issued, Standing
<1> USE DEF OneInv, Typed, TypeOK, Issued, Standing
<1>0. latest \in Int /\ \A r \in Request : request[r].ref \in Int
  BY TimeAssumption DEF Call
\* A step that touches neither calls nor codes, nor the flag of a session
\* that awaits a scan, and does not lead to that state.
<1>1. ASSUME UNCHANGED <<request, latest>>,
             state' = "awaiting_scan" => state = "awaiting_scan" /\ UNCHANGED pairingPending
      PROVE  Refs' /\ (state' = "awaiting_scan" => Flag')
  BY <1>1
<1>2. ASSUME NEW trigger, trigger # "qr", state' = TryApply(state, trigger)
      PROVE  state' = "awaiting_scan" => state = "awaiting_scan"
  BY <1>2, ScanAwaitsQr
<1>3. CASE Connects
  BY <1>1, <1>3 DEF Connects
<1>4. CASE OnQr
  BY <1>0, <1>4 DEF OnQr
<1>5. CASE OnOpen
  <2>1. state' # "awaiting_scan"
    <3>1. state = "awaiting_scan" => state' = "open"
      BY <1>5, TryApplyFollows DEF OnOpen, Transitions, SessionStates
    <3> QED BY <1>2, <1>5, <3>1 DEF OnOpen
  <2> QED BY <1>1, <1>5, <2>1 DEF OnOpen
<1>6. CASE OnClose
  <2>1. PICK c \in DisconnectCauses : state' = TryApply(state, DisconnectTrigger(c, state))
    BY <1>6 DEF OnClose
  <2>2. DisconnectTrigger(c, state) # "qr"
    BY DEF DisconnectTrigger
  <2> QED BY <1>1, <1>2, <1>6, <2>1, <2>2 DEF OnClose
<1>7. CASE Stops \/ Stopped \/ Reset
  <2>1. \E trigger \in {"stop", "stopped", "reset"} : state' = TryApply(state, trigger)
    BY <1>7 DEF Stops, Stopped, Reset
  <2> QED BY <1>1, <1>2, <1>7, <2>1 DEF Stops, Stopped, Reset
<1>8. CASE Removed
  BY <1>8 DEF Removed
<1>9. ASSUME NEW r \in Request, Requests(r) PROVE Refs' /\ (state' = "awaiting_scan" => Flag')
  BY <1>9 DEF Requests, Pairable
<1>10. ASSUME NEW r \in Request, Answered(r) PROVE Refs' /\ (state' = "awaiting_scan" => Flag')
  BY <1>10 DEF Answered, AfterAnswer
<1>11. ASSUME NEW r \in Request, Refused(r) PROVE Refs' /\ (state' = "awaiting_scan" => Flag')
  <2>1. /\ request'[r].pc = "refused" /\ request'[r].ref = request[r].ref
        /\ \A u \in Request \ {r} : request'[u] = request[u]
    BY <1>11 DEF Refused, Call
  <2>2. Refs'
    BY <1>11, <2>1 DEF Refused
  <2>3. CASE request[r].pc = "asked"
    <3>1. state = "awaiting_scan" => pairingPending' = FALSE /\ ~\E u \in Request : Standing(u)'
      BY <1>11, <2>1, <2>3 DEF Refused
    <3> QED BY <1>11, <2>1, <2>2, <3>1 DEF Refused
  <2>4. CASE request[r].pc = "orphan"
    <3>1. pairingPending' = pairingPending
      BY <1>11, <2>4 DEF Refused
    <3>2. \A u \in Request : Standing(u)' <=> Standing(u)
      BY <1>11, <2>1, <2>4 DEF Refused
    <3> QED BY <1>11, <2>1, <2>2, <3>1, <3>2 DEF Refused
  <2> QED BY <1>11, <2>3, <2>4 DEF Refused
<1>12. CASE Ask \/ Close \/ Tick \/ UNCHANGED vars
  BY <1>1, <1>12 DEF Ask, Close, Tick, vars, sessionVars
<1> QED BY <1>3, <1>4, <1>5, <1>6, <1>7, <1>8, <1>9, <1>10, <1>11, <1>12 DEF Next

\* "Only one request may be pending, because a second silently invalidates
\* the first" (session.ts:322-323), if no failure comes later than a fresh code.
THEOREM OneRequest ==
  ASSUME "failure" \notin Admits
  PROVE  Spec => []OneRequestPerQr
<1>1. OneInv /\ Typed' /\ [Next]_vars => OneInv'
  BY NextOne
<1>2. OneInv => OneRequestPerQr
  BY DEF OneInv, OneRequestPerQr, Issued, Standing
<1> QED BY <1>1, <1>2, InitOne, TypeCorrect, PTL DEF Spec

-----------------------------------------------------------------------------
(* What the server serves                                                   *)

\* Sockets that have not opened belong to sessions that are coming up or
\* being stopped, so an open is a transition unless a stop is waiting.
Awaited == socket = "new" => state \in {"connecting", "awaiting_scan", "closing"}

ServedInv == Typed /\ Awaited /\ (~serving => qr = None /\ pairing = None) /\ ServedIsUnused

LEMMA InitServed == Init => ServedInv
BY InitTyped DEF Init, ServedInv, Typed, Awaited, ServedIsUnused, IsFresh, SessionStates

LEMMA NextServed ==
  ASSUME {"answer", "open"} \cap Admits = {}, ServedInv, Typed', [Next]_vars
  PROVE  ServedInv'
<1> DEFINE Silent == ~serving => qr = None /\ pairing = None
           Unused == /\ IsFresh(qr) => qr.ref > spent
                     /\ IsFresh(pairing) => pairing.ref > spent
<1> SUFFICES Awaited' /\ Silent' /\ Unused'
  BY DEF ServedInv, ServedIsUnused, Typed
<1> USE TimeAssumption DEF ServedInv, ServedIsUnused, Typed, TypeOK, Awaited, IsFresh
<1>0. /\ now \in Int /\ spent \in Int
      /\ \A entry \in {qr, pairing} : entry.ref \in Int /\ entry.expiresAt \in Int
  BY DEF Code
\* An entry that is kept lapses, and one that has lapsed stays so.
<1>1. ASSUME UNCHANGED <<serving, spent>>, now' >= now,
             qr' = qr \/ qr' = None, pairing' = pairing \/ pairing' = None
      PROVE  Silent' /\ Unused'
  BY <1>0, <1>1
<1>2. CASE Connects
  BY <1>1, <1>2 DEF Connects, liveVars
<1>3. CASE OnQr
  <2>1. Awaited'
    BY <1>3, TryApplyResult DEF OnQr, Transitions
  <2>2. Silent' /\ Unused'
    BY <1>3 DEF OnQr, RememberQr, Held, None
  <2> QED BY <2>1, <2>2
<1>4. CASE OnOpen
  <2>1. state' = "open"
    BY <1>4, TryApplyFollows DEF OnOpen, Transitions, SessionStates
  <2> QED BY <1>4, <2>1 DEF OnOpen, Remember, Forgets
<1>5. CASE OnClose
  BY <1>1, <1>5 DEF OnClose, liveVars
<1>6. CASE Stops
  <2>1. Awaited'
    BY <1>6, TryApplyResult DEF Stops, Transitions
  <2> QED BY <1>1, <1>6, <2>1 DEF Stops, liveVars
<1>7. CASE Stopped
  BY <1>1, <1>7 DEF Stopped, liveVars
<1>8. CASE Reset
  <2>1. state = "logged_out"
    BY <1>8 DEF Reset, Can, Transitions
  <2> QED BY <1>1, <1>8, <2>1 DEF Reset, liveVars
<1>9. CASE Removed
  BY <1>9 DEF Removed, Remember, Forgets
<1>10. ASSUME NEW r \in Request, Requests(r) \/ Refused(r) PROVE Awaited' /\ Silent' /\ Unused'
  BY <1>1, <1>10 DEF Requests, Refused, liveVars
<1>11. ASSUME NEW r \in Request, Answered(r) PROVE Awaited' /\ Silent' /\ Unused'
  <2>1. request[r].ref > spent
    BY <1>0, <1>11 DEF Answered, Call
  <2>2. IsFresh(pairing)' => pairing'.ref > spent'
    BY <1>11, <2>1 DEF Answered, RememberCode, Held
  <2> QED BY <1>11, <2>2 DEF Answered, RememberCode, Held
<1>12. CASE Ask
  BY <1>1, <1>12 DEF Ask, Kept, sessionVars
<1>13. CASE Close
  BY <1>13 DEF Close, sessionVars
<1>14. CASE Tick \/ UNCHANGED vars
  BY <1>1, <1>14 DEF Tick, vars, sessionVars, liveVars
<1> QED BY <1>2, <1>3, <1>4, <1>5, <1>6, <1>7, <1>8, <1>9, <1>10, <1>11, <1>12, <1>13, <1>14 DEF Next

\* What the server would still serve was neither consumed by an open nor
\* abandoned with its session (live.ts:109-111), if no code comes later than
\* that and no session opens while a stop waits.
THEOREM ServedUnused ==
  ASSUME {"answer", "open"} \cap Admits = {}
  PROVE  Spec => []ServedIsUnused
<1>1. ServedInv /\ Typed' /\ [Next]_vars => ServedInv'
  BY NextServed
<1> QED BY <1>1, InitServed, TypeCorrect, PTL DEF Spec, ServedInv
=============================================================================
