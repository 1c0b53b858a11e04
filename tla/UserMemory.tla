----------------------------- MODULE UserMemory -----------------------------
(***************************************************************************)
(* The long-term memory of one user: app/memory.py over the hot store      *)
(* (RedisUserStore) and the user_profiles row (app/db/archive.py).         *)
(*                                                                         *)
(* Sessions of the user load the profile and save it with the facts of     *)
(* their turn merged in.  A save reads the store, on a miss the row, which *)
(* it copies into the store, then writes the merged profile to the store   *)
(* and to the row.  The session lock is per session, so operations of two  *)
(* sessions interleave freely.                                             *)
(*                                                                         *)
(* The profile is reduced to the order fields; last_intent, the course     *)
(* fields and handoff_pending are merged by the same statements.           *)
(***************************************************************************)
EXTENDS Naturals, Sequences

CONSTANTS
    Session,    \* sessions of the user that use the memory
    Order,      \* order numbers
    NoOrder,    \* no order number
    NoSave,     \* a session that does not save
    NoProfile,  \* no entry, no row
    MaxRecent,  \* MAX_RECENT
    MaxSaves    \* bound on saves

Profile == [last : Order \union {NoOrder}, recent : Seq(Order)]

ASSUME MemoryAssumption ==
    /\ NoOrder \notin Order /\ NoSave \notin Order \union {NoOrder}
    /\ NoProfile \notin Profile
    /\ MaxRecent \in Nat \ {0} /\ MaxSaves \in Nat

VARIABLES
    store,      \* the entry in the user store
    row,        \* profile_json of the user's row
    pc,         \* where each session is in load_user_memory, save_user_memory
    fact,       \* the order number it saves, if any; NoSave: it only loads
    mine,       \* the profile in its hands
    clock,      \* history: number of saves that reached the store
    stamp,      \* history: when each order was last saved, 0 if never
    overlapped, \* history: another operation ran during a save
    behind,     \* history: the row misses what the store holds
    lost        \* history: the newer of the two copies was lost

vars == <<store, row, pc, fact, mine, clock, stamp, overlapped, behind, lost>>
histories == <<clock, stamp, overlapped, behind, lost>>

Blank == [last |-> NoOrder, recent |-> <<>>]
OrBlank(profile) == IF profile = NoProfile THEN Blank ELSE profile
PC == {"idle", "get", "row", "backfill", "put", "upsert"}

Init ==
    /\ store = NoProfile /\ row = NoProfile
    /\ pc = [s \in Session |-> "idle"]
    /\ fact = [s \in Session |-> NoSave]
    /\ mine = [s \in Session |-> Blank]
    /\ clock = 0 /\ stamp = [o \in Order |-> 0]
    /\ overlapped = FALSE /\ behind = FALSE /\ lost = FALSE

(* After load_user_memory: a save goes on, a load is done.                 *)
Loaded(s, profile) ==
    LET saves == fact[s] # NoSave
    IN  /\ pc' = [pc EXCEPT ![s] = IF saves THEN "put" ELSE "idle"]
        /\ mine' = [mine EXCEPT ![s] = IF saves THEN profile ELSE Blank]

Done(s) ==
    /\ pc' = [pc EXCEPT ![s] = "idle"]
    /\ fact' = [fact EXCEPT ![s] = NoSave]
    /\ mine' = [mine EXCEPT ![s] = Blank]

Busy(s) == pc[s] # "idle"

-----------------------------------------------------------------------------
(* _hydrate_slots loads, persist_from_state saves.                         *)
Begin(s) ==
    /\ ~Busy(s) /\ clock < MaxSaves
    /\ pc' = [pc EXCEPT ![s] = "get"]
    /\ \E o \in Order \union {NoOrder, NoSave} :
        /\ fact' = [fact EXCEPT ![s] = o]
        /\ overlapped' = (overlapped \/ \E u \in Session :
                              Busy(u) /\ (o # NoSave \/ fact[u] # NoSave))
    /\ UNCHANGED <<store, row, mine, clock, stamp, behind, lost>>

(* store.get                                                               *)
Get(s) ==
    /\ pc[s] = "get"
    /\ \/ store # NoProfile /\ Loaded(s, store)
       \/ store = NoProfile /\ pc' = [pc EXCEPT ![s] = "row"] /\ UNCHANGED mine
    /\ UNCHANGED <<store, row, fact, histories>>

(* load_user_profile: a row is copied into the store.                      *)
ReadRow(s) ==
    /\ pc[s] = "row"
    /\ \/ row = NoProfile /\ Loaded(s, Blank)
       \/ /\ row # NoProfile
          /\ pc' = [pc EXCEPT ![s] = "backfill"]
          /\ mine' = [mine EXCEPT ![s] = row]
    /\ UNCHANGED <<store, row, fact, histories>>

(* The database fails: the same as no row, and a save starts from nothing. *)
RowUnreadable(s) ==
    /\ pc[s] = "row"
    /\ Loaded(s, Blank)
    /\ lost' = (lost \/ (fact[s] # NoSave /\ row # NoProfile))
    /\ UNCHANGED <<store, row, fact, clock, stamp, overlapped, behind>>

(* store.put of what was read; its failure is logged.                      *)
Backfill(s) ==
    /\ pc[s] = "backfill"
    /\ store' \in {store, mine[s]}
    /\ Loaded(s, mine[s])
    /\ UNCHANGED <<row, fact, histories>>

Least(m, n) == IF m < n THEN m ELSE n

(* _prepend_unique of a list without repetitions: the value moves, or      *)
(* comes, to the front; the end falls off.                                 *)
prepend_unique(items, value) ==
    LET known == \E i \in 1 .. Len(items) : items[i] = value
        at == IF known THEN CHOOSE i \in 1 .. Len(items) : items[i] = value
              ELSE Len(items) + 1
    IN  [j \in 1 .. Least(MaxRecent, IF known THEN Len(items) ELSE Len(items) + 1) |->
            IF j = 1 THEN value ELSE IF j <= at THEN items[j - 1] ELSE items[j]]

Bug_Merged(profile, o) == IF o = NoOrder THEN profile ELSE [profile EXCEPT !.last = o]

(* A turn without an order leaves the profile's as they are.               *)
Merged(profile, o) ==
    IF o = NoOrder THEN profile
    ELSE [last |-> o, recent |-> prepend_unique(profile.recent, o)]

(* The merge and store.put.                                                *)
Put(s) ==
    LET merged == Merged(mine[s], fact[s])
    IN  /\ pc[s] = "put"
        /\ store' = merged
        /\ mine' = [mine EXCEPT ![s] = merged]
        /\ clock' = clock + 1
        /\ stamp' = IF fact[s] = NoOrder THEN stamp ELSE [stamp EXCEPT ![fact[s]] = clock + 1]
        /\ pc' = [pc EXCEPT ![s] = "upsert"]
        /\ UNCHANGED <<row, fact, overlapped, behind, lost>>

Bug_Upsert(s) ==
    /\ pc[s] = "upsert"
    /\ row' = IF row = NoProfile THEN mine[s] ELSE row
    /\ behind' = FALSE
    /\ Done(s)
    /\ UNCHANGED <<store, clock, stamp, overlapped, lost>>

(* upsert_user_profile                                                     *)
Upsert(s) ==
    /\ pc[s] = "upsert"
    /\ row' = mine[s]
    /\ behind' = FALSE
    /\ Done(s)
    /\ UNCHANGED <<store, clock, stamp, overlapped, lost>>

(* The upsert fails and is logged, a call to the store raises, or the      *)
(* process dies.                                                           *)
Fail(s) ==
    /\ Busy(s)
    /\ behind' = (behind \/ pc[s] = "upsert")
    /\ lost' = (lost \/ (pc[s] = "upsert" /\ store = NoProfile))
    /\ Done(s)
    /\ UNCHANGED <<store, row, clock, stamp, overlapped>>

(* user_memory_ttl_minutes pass without a write.                           *)
Expire ==
    /\ store # NoProfile /\ store' = NoProfile
    /\ lost' = (lost \/ behind)
    /\ UNCHANGED <<row, pc, fact, mine, clock, stamp, overlapped, behind>>

Next ==
    \/ \E s \in Session :
        \/ Begin(s) \/ Get(s) \/ ReadRow(s) \/ RowUnreadable(s) \/ Backfill(s)
        \/ Put(s) \/ Upsert(s) \/ Fail(s)
    \/ Expire

Spec == Init /\ [][Next]_vars

-----------------------------------------------------------------------------
TypeOK ==
    /\ store \in Profile \union {NoProfile} /\ row \in Profile \union {NoProfile}
    /\ pc \in [Session -> PC]
    /\ fact \in [Session -> Order \union {NoOrder, NoSave}]
    /\ mine \in [Session -> Profile]
    /\ clock \in Nat /\ stamp \in [Order -> Nat]
    /\ overlapped \in BOOLEAN /\ behind \in BOOLEAN /\ lost \in BOOLEAN

Coherent(profile) ==
    LET recent == profile.recent
    IN  /\ Len(recent) <= MaxRecent
        /\ \A i, j \in 1 .. Len(recent) : i # j => recent[i] # recent[j]
        /\ profile.last = IF Len(recent) = 0 THEN NoOrder ELSE recent[1]

(* Every copy of the profile is coherent, however the steps of sessions,   *)
(* failures and backfills interleave: the recent orders are bounded and    *)
(* without repetition and the last order heads them.  _prepend_unique     *)
CopiesCoherent ==
    /\ Coherent(OrBlank(store)) /\ Coherent(OrBlank(row))
    /\ \A s \in Session : Coherent(mine[s])

(* profile.recent lists exactly the MaxRecent orders saved last, newest    *)
(* first.                                                                  *)
UpToDate(profile) ==
    LET recent == profile.recent
    IN  /\ \A i \in 1 .. Len(recent) : stamp[recent[i]] > 0
        /\ \A i, j \in 1 .. Len(recent) : i < j => stamp[recent[i]] > stamp[recent[j]]
        /\ \A o \in Order : stamp[o] > 0 /\ (\A i \in 1 .. Len(recent) : recent[i] # o) =>
            /\ Len(recent) = MaxRecent
            /\ \A i \in 1 .. Len(recent) : stamp[o] < stamp[recent[i]]

(* Nothing a session saved is forgotten before MaxRecent newer orders: the *)
(* profile the next load finds, in the store or in the row, is up to date  *)
(* whenever no save is in flight, unless two sessions' operations          *)
(* overlapped, a save could not read the row, or the store's entry went    *)
(* while the row was behind.  save_user_memory, load_user_memory           *)
NothingForgotten ==
    ~overlapped /\ ~lost /\ (\A s \in Session : fact[s] = NoSave) =>
        UpToDate(OrBlank(IF store # NoProfile THEN store ELSE row))
=============================================================================
