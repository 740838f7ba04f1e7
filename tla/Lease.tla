-------------------------------- MODULE Lease --------------------------------
(***************************************************************************)
(* What a LockProvider promises about one key (src/src/lock.ts, and the    *)
(* contract comment at its top): at any instant at most one acquisition    *)
(* holds the key, and an acquisition that has lost it never holds it       *)
(* again.  A token stands for one acquisition, not for the instance that   *)
(* made it.                                                                 *)
(***************************************************************************)
CONSTANTS Token,    \* one value per acquisition
          None      \* nobody holds the key; not a token

VARIABLES holder,   \* the acquisition that holds the key, or None
          past      \* every acquisition that was ever granted

leaseVars == <<holder, past>>

LeaseInit == holder = None /\ past = {}

\* A grant needs the key to be free and mints a token never seen before.
Grant(t) ==
  /\ holder = None
  /\ t \notin past
  /\ holder' = t
  /\ past' = past \cup {t}

\* The holder loses the key: it released it, or its lease ran out.
Lose ==
  /\ holder # None
  /\ holder' = None
  /\ UNCHANGED past

LeaseNext == (\E t \in Token : Grant(t)) \/ Lose

LeaseSpec == LeaseInit /\ [][LeaseNext]_leaseVars
=============================================================================
