-------------------------------- MODULE Pairing --------------------------------
(***************************************************************************)
(* Pairing a session with a phone: the QR codes its driver issues, the      *)
(* phone codes requested for them (src/src/session/session.ts), and what    *)
(* the HTTP server remembers of both from the session's events              *)
(* (src/src/server/live.ts).  QR codes are numbered.  How sockets, locks    *)
(* and timers come about is Session's; here a session has a socket or none. *)
(*                                                                          *)
(* Admits names what may come late:                                          *)
(*   "failure"  the failure of a request, after another QR code              *)
(*   "answer"   a code, after its session opened or was removed              *)
(*   "open"     the driver's open, while a stop waits for the send queue     *)
(***************************************************************************)
EXTENDS Integers, SessionTable

CONSTANTS Request,    \* calls of requestPairingCode
          QrMax,      \* config.qr.maxAttempts
          Timeout,    \* config.qr.timeoutMs
          Admits,
          MaxQr, MaxNow  \* bounds: QR codes in all, and the clock

ASSUME TimeAssumption == QrMax \in Nat /\ Timeout \in Nat /\ MaxQr \in Nat /\ MaxNow \in Nat

VARIABLES byCode,     \* config.pairing.enabled, fixed
          state,      \* #machine
          socket,     \* #socket, with our listener on it: "none", "new" or "opened"
          sawQr, qrAttempt, pairingPending,
          request,    \* each call: where it is, and the QR code it was made under
          latest,     \* the number of the last QR code
          serving,    \* LiveState is subscribed
          qr, pairing,  \* its maps' entries of this session
          now,
          spent       \* history: the last QR code that no phone can use any more

sessionVars == <<state, socket, sawQr, qrAttempt, pairingPending>>
liveVars == <<serving, qr, pairing>>
vars == <<byCode, sessionVars, request, latest, liveVars, now, spent>>

None == [ref |-> 0, expiresAt |-> 0]
Held(ref) == [ref |-> ref, expiresAt |-> now + Timeout]

Init ==
  /\ byCode \in BOOLEAN
  /\ state = "idle" /\ socket = "none"
  /\ sawQr = FALSE /\ qrAttempt = 0 /\ pairingPending = FALSE
  /\ request = [r \in Request |-> [pc |-> "out", ref |-> 0]]
  /\ latest = 0 /\ spent = 0
  /\ serving = TRUE /\ qr = None /\ pairing = None
  /\ now = 0

-----------------------------------------------------------------------------
(* LiveState                                                                 *)

\* #remember of a QR code and of a pairing code.
RememberQr(ref) == qr' = IF serving THEN Held(ref) ELSE qr
RememberCode(ref) == pairing' = IF serving THEN Held(ref) ELSE pairing

\* Mutant of Forgets: the entries of a removed session stay.
ForgetsOpened(event) == event = "open"

\* The events after which both entries are dropped.
Forgets(event) == event \in {"open", "session.removed"}

Remember(event) ==
  IF serving /\ Forgets(event) THEN qr' = None /\ pairing' = None ELSE UNCHANGED <<qr, pairing>>

\* #fresh: an entry that has lapsed is dropped by whoever asks for it.
IsFresh(entry) == entry # None /\ entry.expiresAt > now
Kept(entry) == IF IsFresh(entry) THEN entry ELSE None

Ask ==
  /\ serving
  /\ \/ qr' = Kept(qr) /\ UNCHANGED pairing
     \/ pairing' = Kept(pairing) /\ UNCHANGED qr
  /\ UNCHANGED <<byCode, sessionVars, request, latest, serving, now, spent>>

Close ==
  /\ serving
  /\ serving' = FALSE /\ qr' = None /\ pairing' = None
  /\ UNCHANGED <<byCode, sessionVars, request, latest, now, spent>>

-----------------------------------------------------------------------------
(* The session's connection                                                  *)

\* start, or the reconnect timer: it opens a socket whatever the state was
\* before, if the machine has come to `connecting`.
Connects ==
  /\ socket = "none"
  /\ \E trigger \in {"start", "reconnect", "none"} :
       /\ Can(state, trigger) \/ trigger = "none"
       /\ state' = TryApply(state, trigger)
  /\ state' = "connecting"
  /\ socket' = "new"
  /\ UNCHANGED <<byCode, sawQr, qrAttempt, pairingPending, request, latest, liveVars, now, spent>>

\* #onQr.  The code that exceeds the limit is not shown.
OnQr ==
  /\ socket = "new" /\ latest < MaxQr
  /\ latest' = latest + 1
  /\ sawQr' = TRUE /\ pairingPending' = FALSE
  /\ qrAttempt' = qrAttempt + 1
  /\ IF qrAttempt' > QrMax
     THEN /\ state' = TryApply(TryApply(state, "qr"), "qr_exhausted")
          /\ socket' = "none"
          /\ UNCHANGED qr
     ELSE /\ state' = TryApply(state, "qr")
          /\ IF byCode THEN UNCHANGED qr ELSE RememberQr(latest')
          /\ UNCHANGED socket
  /\ UNCHANGED <<byCode, request, serving, pairing, now, spent>>

\* #onOpen, and the event of a transition into `open`.
OnOpen ==
  /\ socket = "new" /\ socket' = "opened"
  /\ state = "closing" => "open" \in Admits
  /\ state' = TryApply(state, "connected")
  /\ qrAttempt' = 0 /\ pairingPending' = FALSE
  /\ spent' = latest
  /\ Remember(state')
  /\ UNCHANGED <<byCode, sawQr, request, latest, serving, now>>

\* #onClose, of whatever cause; a fence and a logout end alike.  The flag of a pending
\* request stays.
OnClose ==
  /\ socket # "none"
  /\ socket' = "none"
  /\ \E c \in DisconnectCauses : state' = TryApply(state, DisconnectTrigger(c, state))
  /\ UNCHANGED <<byCode, sawQr, qrAttempt, pairingPending, request, latest, liveVars, now, spent>>

\* stop closes the queue and waits for it before it closes the socket.
Stops ==
  /\ Can(state, "stop")
  /\ state' = TryApply(state, "stop")
  /\ UNCHANGED <<byCode, socket, sawQr, qrAttempt, pairingPending, request, latest, liveVars, now,
                 spent>>

Stopped ==
  /\ state = "closing"
  /\ state' = TryApply(state, "stopped")
  /\ socket' = "none"
  /\ UNCHANGED <<byCode, sawQr, qrAttempt, pairingPending, request, latest, liveVars, now, spent>>

Reset ==
  /\ Can(state, "reset")
  /\ state' = TryApply(state, "reset")
  /\ qrAttempt' = 0 /\ sawQr' = FALSE
  /\ UNCHANGED <<byCode, socket, pairingPending, request, latest, liveVars, now, spent>>

\* The manager's remove, past the stop, and a create of the same id: a new
\* object, and calls that still await the driver of the old one.
Removed ==
  /\ socket = "none" /\ state \in {"idle", "closed", "logged_out"}
  /\ state' = "idle"
  /\ sawQr' = FALSE /\ qrAttempt' = 0 /\ pairingPending' = FALSE
  /\ request' = [r \in Request |-> IF request[r].pc = "asked" THEN [request[r] EXCEPT !.pc = "orphan"]
                                   ELSE request[r]]
  /\ spent' = latest
  /\ Remember("session.removed")
  /\ UNCHANGED <<byCode, socket, latest, serving, now>>

-----------------------------------------------------------------------------
(* requestPairingCode                                                        *)

Pairable == socket # "none" /\ state = "awaiting_scan" /\ sawQr

Requests(r) ==
  /\ request[r].pc = "out"
  /\ Pairable /\ ~pairingPending
  /\ pairingPending' = TRUE
  /\ request' = [request EXCEPT ![r] = [pc |-> "asked", ref |-> latest]]
  /\ UNCHANGED <<byCode, state, socket, sawQr, qrAttempt, latest, liveVars, now, spent>>

\* Mutant of AfterAnswer: the flag is cleared whichever way the call ends.
AfterAnswerFree == FALSE

\* The code stands for as long as its QR code: so does the flag.
AfterAnswer == pairingPending

\* The driver returns a code, which the session announces.
Answered(r) ==
  /\ request[r].pc \in {"asked", "orphan"}
  /\ request[r].ref <= spent => "answer" \in Admits
  /\ request' = [request EXCEPT ![r].pc = "answered"]
  /\ pairingPending' = IF request[r].pc = "asked" THEN AfterAnswer ELSE pairingPending
  /\ RememberCode(request[r].ref)
  /\ UNCHANGED <<byCode, state, socket, sawQr, qrAttempt, latest, serving, qr, now, spent>>

\* The driver refuses, or its socket is gone.
Refused(r) ==
  /\ request[r].pc \in {"asked", "orphan"}
  /\ request[r].pc = "asked" /\ request[r].ref # latest => "failure" \in Admits
  /\ request' = [request EXCEPT ![r].pc = "refused"]
  /\ pairingPending' = (pairingPending /\ request[r].pc = "orphan")
  /\ UNCHANGED <<byCode, state, socket, sawQr, qrAttempt, latest, liveVars, now, spent>>

Tick ==
  /\ now < MaxNow
  /\ now' = now + 1
  /\ UNCHANGED <<byCode, sessionVars, request, latest, liveVars, spent>>

Next ==
  \/ Connects \/ OnQr \/ OnOpen \/ OnClose \/ Stops \/ Stopped \/ Reset \/ Removed
  \/ \E r \in Request : Requests(r) \/ Answered(r) \/ Refused(r)
  \/ Ask \/ Close \/ Tick

Spec == Init /\ [][Next]_vars

-----------------------------------------------------------------------------
(* Properties                                                               *)

Call == [pc : {"out", "asked", "orphan", "answered", "refused"}, ref : 0..MaxQr]
Code == [ref : 0..MaxQr, expiresAt : 0..(MaxNow + Timeout)]

TypeOK ==
  /\ byCode \in BOOLEAN /\ state \in SessionStates
  /\ socket \in {"none", "new", "opened"}
  /\ sawQr \in BOOLEAN /\ pairingPending \in BOOLEAN /\ qrAttempt \in 0..MaxQr
  /\ request \in [Request -> Call]
  /\ latest \in 0..MaxQr /\ spent \in 0..latest
  /\ serving \in BOOLEAN /\ qr \in Code /\ pairing \in Code
  /\ now \in 0..MaxNow

\* Calls whose code is awaited, or issued and not yet invalidated by another QR code.
Standing(r) == request[r].pc \in {"asked", "answered"} /\ request[r].ref = latest

\* "Only one request may be pending, because a second silently invalidates the
\* first" (session.ts:322-323), also once its code was issued and for as long
\* as its QR code lasts; and nobody is refused for a request that is not there.
OneRequestPerQr ==
  /\ \A r, u \in Request : Standing(r) /\ Standing(u) => r = u
  /\ state = "awaiting_scan" => (pairingPending <=> \E r \in Request : Standing(r))

\* "A session that opened has consumed its QR, and a removed one will never
\* consume it.  Serving either afterwards would send someone to scan a code
\* the phone has already accepted" (live.ts:109-111).
ServedIsUnused ==
  /\ TypeOK
  /\ IsFresh(qr) => qr.ref > spent
  /\ IsFresh(pairing) => pairing.ref > spent
=============================================================================
