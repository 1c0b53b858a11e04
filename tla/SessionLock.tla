---------------------------- MODULE SessionLock ----------------------------
(***************************************************************************)
(* The lock on one thread_id: app/session_cache.py.                        *)
(*                                                                         *)
(* With expires = TRUE it is AsyncRedisSessionLock (and RedisSessionLock): *)
(* SET key token NX PX ttl, released by a script that deletes the key only *)
(* if it still holds the caller's token, and never renewed.                *)
(* With expires = FALSE it is AsyncDictSessionLock (and DictSessionLock):  *)
(* a member of an in-process set, with no expiry and no token.  Which of   *)
(* the two a deployment uses is fixed when it starts.                      *)
(*                                                                         *)
(* Time is kept as the ticks left of each turn's own ttl, so that it needs *)
(* no bound.                                                               *)
(***************************************************************************)
EXTENDS Naturals

CONSTANTS
    Turn,      \* turns; a turn's uuid token is the turn
    NoTurn,    \* the key is absent
    LockTtl    \* session_lock_ttl_seconds, in ticks

ASSUME LockAssumption ==
    /\ NoTurn \notin Turn
    /\ LockTtl \in Nat \ {0}

VARIABLES
    expires,   \* Redis (TRUE) or in-process (FALSE) lock
    lock,      \* the token stored under the key, or NoTurn
    left       \* ticks left of the ttl each turn was granted

lockVars == <<expires, lock, left>>

LockInit ==
    /\ expires \in BOOLEAN
    /\ lock = NoTurn
    /\ left = [t \in Turn |-> 0]

Bug_LockGranted(t) ==
    /\ lock' = t
    /\ left' = [left EXCEPT ![t] = LockTtl]
    /\ UNCHANGED expires

(* SET NX succeeded, or thread_id was added to _held.                      *)
LockGranted(t) ==
    /\ lock = NoTurn
    /\ lock' = t
    /\ left' = [left EXCEPT ![t] = LockTtl]
    /\ UNCHANGED expires

(* SET NX failed: the deadline has passed and SessionBusyError is raised.  *)
LockRefused(t) ==
    /\ lock # NoTurn
    /\ UNCHANGED lockVars

Bug_Unlocked(t) ==
    /\ lock' = NoTurn
    /\ left' = [left EXCEPT ![t] = 0]
    /\ UNCHANGED expires

(* _UNLOCK_LUA: delete the key if it still holds this token.  The          *)
(* in-process lock discards the member whoever asks.                       *)
Unlocked(t) ==
    /\ lock' = IF lock = t \/ ~expires THEN NoTurn ELSE lock
    /\ left' = [left EXCEPT ![t] = 0]
    /\ UNCHANGED expires

Bug_LockTick ==
    /\ expires
    /\ \E t \in Turn : left[t] > 0
    /\ left' = [t \in Turn |-> IF left[t] > 0 THEN left[t] - 1 ELSE 0]
    /\ UNCHANGED <<expires, lock>>

(* Redis drops the key when its PX has run out.                            *)
LockTick ==
    /\ expires
    /\ \E t \in Turn : left[t] > 0
    /\ left' = [t \in Turn |-> IF left[t] > 0 THEN left[t] - 1 ELSE 0]
    /\ lock' = IF lock # NoTurn /\ left[lock] <= 1 THEN NoTurn ELSE lock
    /\ UNCHANGED expires

LockTypeOK ==
    /\ expires \in BOOLEAN
    /\ lock \in Turn \union {NoTurn}
    /\ left \in [Turn -> 0..LockTtl]
=============================================================================
