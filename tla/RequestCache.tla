---------------------------- MODULE RequestCache ----------------------------
(***************************************************************************)
(* El::PSP::RequestCache: pages that were made for one request answer      *)
(* others until they expire.  The first request that finds a page expired  *)
(* prolongs it for a while and makes a new one; meanwhile the others get   *)
(* the old one.  Pages nobody asks for are purged now and then.            *)
(*                                                                         *)
(* Requests are threads.  Each reads the clock when it comes.  A reader of *)
(* the map has lock_ from finding an expired page to prolonging it, so     *)
(* that others may find it expired as well; a writer's turn is one step,   *)
(* taken while no reader has the lock.                                     *)
(***************************************************************************)
EXTENDS Integers, FiniteSets

CONSTANTS
  Requests, Keys,
  Entries,                      \* where entries may be in memory
  timeout, unused_timeout,      \* of the entries; seconds
  entry_timeout_delay_, entry_unused_check_period_,
  MaxTime                       \* bound: the clock

NoEntry == "no entry"

ASSUME RequestCacheAssumption ==
  /\ IsFiniteSet(Requests)
  /\ NoEntry \notin Keys \union Entries
  /\ timeout \in Nat \ {0} /\ unused_timeout \in Nat
  /\ entry_timeout_delay_ \in Nat /\ entry_unused_check_period_ \in Nat
  /\ MaxTime \in Nat

VARIABLES
  now,
  cache_map_,          \* the entry of a key, or NoEntry
  mem,                 \* the entries, see Free
  unused_entry_next_check_,
  at, key, time,       \* of a request: where it is, its key, when it came
  entry,               \* ... the entry it found
  own,                 \* ... the entry it makes, its callback
  gaveUp               \* history: of a key, when the latest request came
                       \* that was to make its page and did not

requestVars == <<at, key, time, entry, own>>
vars == <<now, cache_map_, mem, unused_entry_next_check_, requestVars, gaveUp>>

Times == 0 .. MaxTime
Never == -1

(* An entry: the references to it; its members; and history, when it was   *)
(* filled.  This one is free memory.                                       *)
Free == [refs |-> 0, key |-> NoEntry, expire |-> 0, expire_unused |-> 0,
         saved |-> Never]

Init ==
  /\ now = 0
  /\ cache_map_ = [k \in Keys |-> NoEntry]
  /\ mem = [e \in Entries |-> Free]
  /\ unused_entry_next_check_ = 0
  /\ at = [r \in Requests |-> "away"]
  /\ key = [r \in Requests |-> NoEntry] /\ time = [r \in Requests |-> 0]
  /\ entry = [r \in Requests |-> NoEntry] /\ own = [r \in Requests |-> NoEntry]
  /\ gaveUp = [k \in Keys |-> Never]

-----------------------------------------------------------------------------
Go(r, place) == at' = [at EXCEPT ![r] = place]

(* The end of a request. *)
Leave(r) ==
  /\ Go(r, "away")
  /\ key' = [key EXCEPT ![r] = NoEntry] /\ time' = [time EXCEPT ![r] = 0]
  /\ entry' = [entry EXCEPT ![r] = NoEntry] /\ own' = [own EXCEPT ![r] = NoEntry]

(* The memory when a reference to each of these entries is dropped.        *)
Without(dropped) ==
  [e \in Entries |-> CASE e \notin dropped -> mem[e]
                       [] e \in dropped /\ mem[e].refs = 1 -> Free
                       [] OTHER -> [mem[e] EXCEPT !.refs = @ - 1]]

(* No reader is about to prolong an entry. *)
Unread == \A r \in Requests : at[r] # "prolong"

(* check_unused, before the read lock is released: on without an answer.   *)
OnWithout(r) ==
  Go(r, IF unused_entry_next_check_ <= time[r] THEN "purge" ELSE "make")

(* new Entry, the request's callback, in this memory.                      *)
Allocate(r, memory) ==
  \E e \in Entries :
    /\ memory[e].refs = 0
    /\ own' = [own EXCEPT ![r] = e]
    /\ mem' = [memory EXCEPT ![e] = [Free EXCEPT !.refs = 1, !.key = key[r]]]

-----------------------------------------------------------------------------
(* A request for a page that may be cached comes. *)
Come(r) ==
  /\ at[r] = "away"
  /\ \E k \in Keys : key' = [key EXCEPT ![r] = k]
  /\ time' = [time EXCEPT ![r] = now]
  /\ Go(r, "find")
  /\ UNCHANGED <<now, cache_map_, mem, unused_entry_next_check_, entry, own,
                 gaveUp>>

FindNothing(r) ==
  /\ at[r] = "find"
  /\ cache_map_[key[r]] = NoEntry
  /\ Allocate(r, mem)
  /\ OnWithout(r)
  /\ UNCHANGED <<now, cache_map_, unused_entry_next_check_, key, time, entry,
                 gaveUp>>

(* Mutant: the reference is left to be taken by the caller. *)
FindBare(r) ==
  /\ at[r] = "find"
  /\ cache_map_[key[r]] # NoEntry
  /\ LET e == cache_map_[key[r]]
     IN /\ mem' = [mem EXCEPT ![e].expire_unused = time[r] + unused_timeout]
        /\ entry' = [entry EXCEPT ![r] = e]
        /\ Go(r, IF mem[e].expire <= time[r] THEN "prolong" ELSE "respond")
  /\ UNCHANGED <<now, cache_map_, unused_entry_next_check_, key, time, own,
                 gaveUp>>

(* An entry that has not expired is answered with, if the client knows its *)
(* encodings; the reference is taken under the lock.                       *)
Find(r) ==
  /\ at[r] = "find"
  /\ cache_map_[key[r]] # NoEntry
  /\ LET e == cache_map_[key[r]]
         used == [mem EXCEPT ![e].expire_unused = time[r] + unused_timeout]
     IN \/ /\ mem[e].expire <= time[r]
           /\ entry' = [entry EXCEPT ![r] = e]
           /\ mem' = used
           /\ Go(r, "prolong")
        \/ /\ mem[e].expire > time[r]
           /\ entry' = [entry EXCEPT ![r] = e]
           /\ mem' = [used EXCEPT ![e].refs = @ + 1]
           /\ Go(r, "respond")
        \/ /\ mem[e].expire > time[r]
           /\ mem' = used
           /\ OnWithout(r)
           /\ UNCHANGED entry
  /\ UNCHANGED <<now, cache_map_, unused_entry_next_check_, key, time, own,
                 gaveUp>>

(* Mutant: the page is prolonged, and nobody makes another. *)
ProlongOnly(r) ==
  /\ at[r] = "prolong"
  /\ mem' = [mem EXCEPT ![entry[r]].expire = time[r] + entry_timeout_delay_]
  /\ entry' = [entry EXCEPT ![r] = NoEntry]
  /\ OnWithout(r)
  /\ UNCHANGED <<now, cache_map_, own, unused_entry_next_check_, key, time,
                 gaveUp>>

(* The request is to make the page again. *)
Prolong(r) ==
  /\ at[r] = "prolong"
  /\ Allocate(r, [mem EXCEPT ![entry[r]].expire = time[r] + entry_timeout_delay_])
  /\ entry' = [entry EXCEPT ![r] = NoEntry]
  /\ OnWithout(r)
  /\ UNCHANGED <<now, cache_map_, unused_entry_next_check_, key, time, gaveUp>>

Purge(r) ==
  /\ at[r] = "purge"
  /\ Unread
  /\ LET unused == {k \in Keys : /\ cache_map_[k] # NoEntry
                                /\ mem[cache_map_[k]].expire_unused <= time[r]}
     IN /\ cache_map_' = [k \in Keys |-> IF k \in unused THEN NoEntry
                                                        ELSE cache_map_[k]]
        /\ mem' = Without({cache_map_[k] : k \in unused})
  /\ unused_entry_next_check_' = time[r] + entry_unused_check_period_
  /\ Go(r, "make")
  /\ UNCHANGED <<now, key, time, entry, own, gaveUp>>

-----------------------------------------------------------------------------
(* The page is made.  The request's entry is dropped if it has none, if    *)
(* the page is an error or set its timeout to 0, or if memory is short.    *)
Drop(r) ==
  /\ at[r] = "make"
  /\ mem' = Without({own[r]})
  /\ gaveUp' = [gaveUp EXCEPT ![key[r]] =
                  IF own[r] # NoEntry /\ @ < time[r] THEN time[r] ELSE @]
  /\ Leave(r)
  /\ UNCHANGED <<now, cache_map_, unused_entry_next_check_>>

(* finalize(OK): the entry's times are set before the lock is taken ...    *)
Finalize(r) ==
  /\ at[r] = "make"
  /\ own[r] # NoEntry
  /\ mem' = [mem EXCEPT ![own[r]] =
       [@ EXCEPT !.expire = now + timeout, !.saved = now,
                 !.expire_unused = now + unused_timeout]]
  /\ Go(r, "save")
  /\ UNCHANGED <<now, cache_map_, unused_entry_next_check_, key, time, entry,
                 own, gaveUp>>

(* ... and it replaces whatever the key had.  The request's own reference  *)
(* goes with the request, the map's has come.                              *)
Save(r) ==
  /\ at[r] = "save"
  /\ Unread
  /\ cache_map_' = [cache_map_ EXCEPT ![key[r]] = own[r]]
  /\ mem' = Without({cache_map_[key[r]]})
  /\ Leave(r)
  /\ UNCHANGED <<now, unused_entry_next_check_, gaveUp>>

(* Entry::respond, and the end of the request. *)
Respond(r) ==
  /\ at[r] = "respond"
  /\ mem' = Without({entry[r]})
  /\ Leave(r)
  /\ UNCHANGED <<now, cache_map_, unused_entry_next_check_, gaveUp>>

Tick ==
  /\ now < MaxTime
  /\ now' = now + 1
  /\ UNCHANGED <<cache_map_, mem, unused_entry_next_check_, requestVars,
                 gaveUp>>

Next ==
  \/ \E r \in Requests :
       \/ Come(r) \/ FindNothing(r) \/ Find(r) \/ Prolong(r) \/ Purge(r)
       \/ Drop(r) \/ Finalize(r) \/ Save(r) \/ Respond(r)
  \/ Tick

Spec == Init /\ [][Next]_vars

-----------------------------------------------------------------------------
EntryType ==
  [refs : Nat, key : Keys \union {NoEntry}, expire : Nat, expire_unused : Nat,
   saved : Times \union {Never}]

TypeOK ==
  /\ now \in Times /\ unused_entry_next_check_ \in Nat
  /\ cache_map_ \in [Keys -> Entries \union {NoEntry}]
  /\ mem \in [Entries -> EntryType]
  /\ at \in [Requests -> {"away", "find", "prolong", "purge", "make", "save",
                          "respond"}]
  /\ key \in [Requests -> Keys \union {NoEntry}] /\ time \in [Requests -> Times]
  /\ entry \in [Requests -> Entries \union {NoEntry}]
  /\ own \in [Requests -> Entries \union {NoEntry}]
  /\ gaveUp \in [Keys -> Times \union {Never}]

(* An entry is answered with, prolonged or filled only while it exists and *)
(* is of the page asked for, although others may purge or replace it at    *)
(* any time; one that is filled is nobody else's.                          *)
EntriesLive ==
  /\ TypeOK
  /\ \A r \in Requests, e \in Entries :
       e \in {entry[r], own[r]} => mem[e].refs > 0 /\ mem[e].key = key[r]
  /\ \A r \in Requests :
       own[r] # NoEntry =>
         /\ \A k \in Keys : cache_map_[k] # own[r]
         /\ \A q \in Requests : own[r] # entry[q] /\ (q # r => own[r] # own[q])

(* Somebody is making a page of this key who came less than the delay      *)
(* before this time, or had been, and gave it up.                          *)
Excused(k, t) ==
  \/ \E q \in Requests : /\ own[q] # NoEntry /\ key[q] = k
                         /\ t < time[q] + entry_timeout_delay_
  \/ gaveUp[k] # Never /\ t < gaveUp[k] + entry_timeout_delay_

(* A request gets a page older than its timeout only while a request that  *)
(* came less than the delay before it, or after it, is making the page     *)
(* again, or if the page has been replaced or purged since it was found;   *)
(* or if such a request gave up making it: for the rest of the delay the   *)
(* old page is answered with, although nobody makes another.               *)
StaleOnlyInTheMeantime ==
  \A r \in Requests :
    at[r] = "respond" => \/ time[r] < mem[entry[r]].saved + timeout
                         \/ cache_map_[key[r]] # entry[r]
                         \/ Excused(key[r], time[r])
=============================================================================
