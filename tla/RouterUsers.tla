---------------------------- MODULE RouterUsers ----------------------------
(***************************************************************************)
(* A user table of a router and the one command of the bot that works on   *)
(* it.  Updates are handled one at a time (concurrent_updates(False)) and  *)
(* no job uses the managers, so the others who change the table meanwhile  *)
(* are on the router's side: its administrators, and accounts that expire. *)
(* The hotspot and the User Manager tables share nothing, and a behaviour  *)
(* is about one of them.                                                   *)
(***************************************************************************)
EXTENDS Naturals, Sequences, FiniteSets

CONSTANTS
    Names,          \* names of accounts
    MaxAccounts,    \* bound: accounts the router is ever asked to add
    MaxCount,       \* bound: cards of a batch
    NoName,
    NoList,         \* the list is not in the cache
    Gone,           \* the account was removed
    Unknown         \* nothing was confirmed about an account

ASSUME MaxAccountsAssumption == MaxAccounts \in Nat
ASSUME MaxCountAssumption == MaxCount \in Nat
ASSUME NamesAssumption == NoName \notin Names

VARIABLES
    table,          \* "hotspot" or "userman"
    users,          \* rows of the table
    last,           \* .id of the account added last; ids are not used again
    linked,         \* names with a row in user-profile
    users_cache,    \* _users_cache of the manager, for this router
    at,             \* where the running command is
    name,           \* the account it is about
    uid,            \* its .id as _get_user_id found it
    left,           \* cards still to make
    existing,       \* names the batch knows as taken (or has prepared)
    cards,          \* the cards made
    kept,           \* what became of the cards: "saved", "sent"
    added,          \* rows this command added (history)
    lost,           \* of these, the ones whose reply was lost (history)
    everLinked,     \* names that were linked while it ran (history)
    trouble,        \* the calls outside the router that failed (history)
    confirmed       \* what the bot was told about an account last (history)

router == <<users, last, linked>>
command == <<at, name, uid, left, existing, cards, kept>>
history == <<added, lost, everLinked, trouble>>
vars == <<table, users, last, linked, users_cache, at, name, uid, left, existing, cards,
          kept, added, lost, everLinked, trouble, confirmed>>

Ids == 1 .. MaxAccounts

Rows == [id : Ids, name : Names, disabled : BOOLEAN]

ASSUME ConfirmedAssumption == Gone \notin Rows /\ Unknown \notin Rows /\ Gone # Unknown

Taken == {u.name : u \in users}

TypeOK ==
    /\ table \in {"hotspot", "userman"}
    /\ users \in SUBSET Rows
    /\ last \in 0 .. MaxAccounts
    /\ linked \in SUBSET Names
    /\ users_cache \in {NoList} \cup SUBSET Rows
    /\ at \in {"idle", "add", "log", "attach", "verify", "change", "save", "send"}
    /\ name \in Names \cup {NoName}
    /\ uid \in 0 .. MaxAccounts
    /\ left \in 0 .. MaxCount
    /\ existing \in SUBSET Names
    /\ cards \in Seq([name : Names, linked : BOOLEAN])
    /\ kept \in SUBSET {"saved", "sent"}
    /\ added \in SUBSET Rows
    /\ lost \in SUBSET Rows
    /\ everLinked \in SUBSET Names
    /\ trouble \in SUBSET {"log", "save", "send"}
    /\ confirmed \in [Ids -> Rows \cup {Gone, Unknown}]

Init ==
    /\ table \in {"hotspot", "userman"}
    /\ users = {} /\ last = 0 /\ linked = {}
    /\ users_cache = NoList
    /\ at = "idle" /\ name = NoName /\ uid = 0 /\ left = 0
    /\ existing = {} /\ cards = <<>> /\ kept = {}
    /\ added = {} /\ lost = {} /\ everLinked = {} /\ trouble = {}
    /\ confirmed = [i \in Ids |-> Unknown]

Idle == at = "idle"

IsHotspot == table = "hotspot"

IsUserMan == table = "userman"

-----------------------------------------------------------------------------
(* The router.  A write the router executes may still end in an exception  *)
(* for the bot: its reply is lost and every repetition is refused, or the  *)
(* repetitions are used up.                                                *)
New(n) == [id |-> last + 1, name |-> n, disabled |-> FALSE]

(* Names are unique: an add of a taken name is refused.                    *)
Adds(n) ==
    /\ n \notin Taken
    /\ last < MaxAccounts
    /\ users' = users \cup {New(n)}
    /\ last' = last + 1
    /\ UNCHANGED linked

Removes(u) ==
    /\ users' = users \ {u}
    /\ linked' = linked \ {u.name}
    /\ UNCHANGED last

(* The changes of a row: a field that is not the name, or the name.        *)
Changed(u) ==
    {[u EXCEPT !.disabled = ~ @]} \cup {[u EXCEPT !.name = n] : n \in Names \ Taken}

Replaces(u, v) ==
    /\ users' = (users \ {u}) \cup {v}
    /\ linked' = {IF n = u.name THEN v.name ELSE n : n \in linked}
    /\ everLinked' = everLinked \cup linked'
    /\ UNCHANGED last

Links(n) ==
    /\ n \in Taken
    /\ linked' = linked \cup {n}
    /\ everLinked' = everLinked \cup {n}
    /\ UNCHANGED <<users, last>>

Unlinks(n) ==
    /\ linked' = linked \ {n}
    /\ UNCHANGED <<users, last>>

Confirms(i, what) == confirmed' = [confirmed EXCEPT ![i] = what]

(* Another administrator of the router, or the expiry of an account.       *)
OthersAdd ==
    /\ \E n \in Names : Adds(n)
    /\ UNCHANGED <<table, users_cache, command, history, confirmed>>

OthersRemove ==
    /\ \E u \in users : Removes(u) /\ Confirms(u.id, Unknown)
    /\ UNCHANGED <<table, users_cache, command, history>>

OthersChange ==
    /\ \E u \in users : \E v \in Changed(u) : Replaces(u, v) /\ Confirms(u.id, Unknown)
    /\ UNCHANGED <<table, users_cache, command, added, lost, trouble>>

-----------------------------------------------------------------------------
(* TTLCache of one key.                                                    *)
CacheExpires ==
    /\ users_cache # NoList
    /\ users_cache' = NoList
    /\ UNCHANGED <<table, router, command, history, confirmed>>

(* _get_all_users_cached: the cached list, or the router's, then cached.   *)
AllUsers == IF users_cache = NoList THEN users ELSE users_cache

(* What reads the list caches it.                                          *)
ReadsList ==
    /\ Idle
    /\ users_cache' = AllUsers
    /\ UNCHANGED <<table, router, command, history, confirmed>>

-----------------------------------------------------------------------------
(* A batch of cards begins.                                                *)
BatchBegins ==
    /\ Idle
    /\ cards' = <<>> /\ kept' = {}
    /\ added' = {} /\ lost' = {} /\ everLinked' = {} /\ trouble' = {}

(* An exception, or the last step: the handler returns.                    *)
Ends == at' = "idle" /\ name' = NoName /\ uid' = 0 /\ left' = 0 /\ existing' = {}

Card(n, isLinked) == [name |-> n, linked |-> isLinked]

(* save_card_batch: an error of sqlite is logged.                          *)
SaveOr(next) ==
    /\ \/ kept' = kept \cup {"saved"} /\ UNCHANGED trouble
       \/ trouble' = trouble \cup {"save"} /\ UNCHANGED kept
    /\ next
    /\ UNCHANGED <<table, router, users_cache, cards, added, lost, everLinked, confirmed>>

(* The file is made and sent; an error ends the handler.                   *)
SendOr(next) ==
    /\ \/ kept' = kept \cup {"sent"} /\ next /\ UNCHANGED trouble
       \/ trouble' = trouble \cup {"send"} /\ Ends /\ UNCHANGED kept
    /\ UNCHANGED <<table, router, users_cache, cards, added, lost, everLinked, confirmed>>

GoesTo(s) == at' = s /\ UNCHANGED <<name, uid, left, existing>>

RouterNext == OthersAdd \/ OthersRemove \/ OthersChange \/ CacheExpires

=============================================================================
