----------------------------- MODULE LockClients -----------------------------
(***************************************************************************)
(* The callers of a lock provider (src/src/lock.ts), for one key: what the *)
(* in-process provider (LeaseLock) and those that several processes share  *)
(* (RemoteLock) have in common.  A token stands for one acquisition.        *)
(***************************************************************************)
EXTENDS Integers

CONSTANTS Client,    \* instance ids or processes; one may acquire many times
          Token,     \* the tokens that can be minted
          TTL,       \* ttlMs
          MaxNow     \* bound of the clock

ASSUME TimeAssumption == TTL \in Nat /\ MaxNow \in Nat

VARIABLES now,      \* the clock the provider reads
          owner,    \* the client each token was minted for
          known,    \* the expiry last told to the token's holder
          gaveUp    \* tokens their holder has released or was told it lost
=============================================================================
