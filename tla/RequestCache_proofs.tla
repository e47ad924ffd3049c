------------------------ MODULE RequestCache_proofs ------------------------
(***************************************************************************)
(* Theorems about RequestCache: for any finite set of requests, any keys,  *)
(* times and memory.                                                       *)
(***************************************************************************)
EXTENDS RequestCache, FiniteSetTheorems, TLAPS

Responders(e) == {r \in Requests : at[r] = "respond" /\ entry[r] = e}
Owned(e) == \E r \in Requests : own[r] = e
Mapped(e) == \E k \in Keys : cache_map_[k] = e
One(held) == IF held THEN 1 ELSE 0

(* Where a request is tells what it has: an entry it found while it        *)
(* prolongs or answers, and one of its own between finding and leaving.    *)
(* The entry to be prolonged is still the key's, since the reader has the  *)
(* lock.                                                                   *)
Places ==
  \A r \in Requests :
    /\ entry[r] # NoEntry <=> at[r] \in {"prolong", "respond"}
    /\ own[r] # NoEntry => at[r] \in {"purge", "make", "save"}
    /\ at[r] = "save" => own[r] # NoEntry
    /\ at[r] # "away" => key[r] \in Keys
    /\ at[r] = "prolong" => cache_map_[key[r]] = entry[r]

(* Entries are where their keys say. *)
KeysAgree ==
  /\ \A k \in Keys : cache_map_[k] # NoEntry => mem[cache_map_[k]].key = k
  /\ \A r \in Requests :
       /\ at[r] = "respond" => mem[entry[r]].key = key[r]
       /\ own[r] # NoEntry => mem[own[r]].key = key[r]

(* An entry that is being filled is its request's alone. *)
OwnAlone ==
  \A r \in Requests :
    own[r] # NoEntry =>
      /\ \A k \in Keys : cache_map_[k] # own[r]
      /\ \A q \in Requests : own[r] # entry[q] /\ (q # r => own[r] # own[q])

(* The count of an entry: its maker's reference, the map's, and one for    *)
(* each request that answers with it.                                      *)
RefsExact ==
  \A e \in Entries :
    mem[e].refs = One(Owned(e)) + One(Mapped(e)) + Cardinality(Responders(e))

IInv == TypeOK /\ Places /\ KeysAgree /\ OwnAlone /\ RefsExact

-----------------------------------------------------------------------------
(* The requests that answer with an entry can be counted. *)
LEMMA RespondersCounted ==
  ASSUME NEW e
  PROVE  IsFiniteSet(Responders(e)) /\ Cardinality(Responders(e)) \in Nat
BY RequestCacheAssumption, FS_Subset, FS_CardinalityType, Responders(e) \subseteq Requests
   DEF Responders

(* An entry with a count of 0 is nobody's. *)
LEMMA FreeIsNobodys ==
  ASSUME IInv, NEW e \in Entries, mem[e].refs = 0
  PROVE  /\ \A r \in Requests : own[r] # e /\ entry[r] # e
         /\ \A k \in Keys : cache_map_[k] # e
<1>1. One(Owned(e)) = 0 /\ One(Mapped(e)) = 0 /\ Cardinality(Responders(e)) = 0
  <2>1. /\ One(Owned(e)) \in {0, 1} /\ One(Mapped(e)) \in {0, 1}
        /\ 0 = One(Owned(e)) + One(Mapped(e)) + Cardinality(Responders(e))
    BY DEF IInv, RefsExact, One
  <2> QED
    BY <2>1, RespondersCounted
<1>2. ~Owned(e) /\ ~Mapped(e)
  BY <1>1 DEF One
<1>3. Responders(e) = {}
  BY <1>1, RespondersCounted, FS_EmptySet
<1>4. ASSUME NEW r \in Requests, entry[r] = e PROVE FALSE
  <2>1. at[r] \in {"prolong", "respond"}
    BY <1>4, RequestCacheAssumption DEF IInv, Places
  <2>2. at[r] # "respond"
    BY <1>3, <1>4 DEF Responders
  <2>3. cache_map_[key[r]] = e /\ key[r] \in Keys
    BY <1>4, <2>1, <2>2 DEF IInv, Places
  <2> QED
    BY <1>2, <2>3 DEF Mapped
<1> QED
  BY <1>2, <1>4 DEF Owned, Mapped

(* Whoever has an entry counts. *)
LEMMA HeldIsCounted ==
  ASSUME IInv, NEW e \in Entries,
         \/ \E r \in Requests : e \in {own[r], entry[r]}
         \/ \E k \in Keys : cache_map_[k] = e
  PROVE  mem[e].refs \in Nat /\ mem[e].refs > 0
<1>1. mem[e].refs \in Nat
  BY DEF IInv, TypeOK, EntryType
<1> QED
  BY <1>1, FreeIsNobodys

(* Dropping a reference lowers the counts of the entries it is taken from; *)
(* the last one frees the entry.                                           *)
LEMMA WithoutIsLess ==
  ASSUME TypeOK, NEW S, \A e \in S \intersect Entries : mem[e].refs > 0
  PROVE  /\ Without(S) \in [Entries -> EntryType]
         /\ \A e \in Entries :
              /\ e \notin S => Without(S)[e] = mem[e]
              /\ e \in S => /\ Without(S)[e].refs = mem[e].refs - 1
                            /\ mem[e].refs > 1 => Without(S)[e].key = mem[e].key
<1>1. ASSUME NEW e \in Entries
      PROVE  /\ Without(S)[e] \in EntryType
             /\ e \notin S => Without(S)[e] = mem[e]
             /\ e \in S => /\ Without(S)[e].refs = mem[e].refs - 1
                           /\ mem[e].refs > 1 => Without(S)[e].key = mem[e].key
  <2>1. mem[e] \in EntryType
    BY DEF TypeOK
  <2>2. CASE e \notin S
    BY <2>1, <2>2 DEF Without
  <2>3. CASE e \in S /\ mem[e].refs = 1
    BY <2>1, <2>3 DEF Without, Free, EntryType, Never
  <2>4. CASE e \in S /\ mem[e].refs # 1
    <3>1. mem[e].refs \in Nat /\ mem[e].refs > 1
      BY <2>1, <2>4 DEF EntryType
    <3>2. Without(S)[e] = [mem[e] EXCEPT !.refs = @ - 1]
      BY <2>4 DEF Without
    <3> QED
      BY <2>1, <2>4, <3>1, <3>2 DEF EntryType
  <2> QED
    BY <2>2, <2>3, <2>4
<1> QED
  BY <1>1 DEF Without

-----------------------------------------------------------------------------
(* What moves no reference but those of the request itself keeps every     *)
(* count: the readers' half of the invariant.                              *)
LEMMA SameResponders ==
  ASSUME NEW r \in Requests, NEW e, at[r] # "respond", at'[r] # "respond",
         \A q \in Requests \ {r} : at'[q] = at[q] /\ entry'[q] = entry[q]
  PROVE  Responders(e)' = Responders(e)
BY DEF Responders

LEMMA InitIInv == Init => IInv
<1> SUFFICES ASSUME Init PROVE IInv
  OBVIOUS
<1>1. TypeOK
  BY RequestCacheAssumption DEF Init, TypeOK, EntryType, Free, Times, Never
<1>2. Places /\ KeysAgree /\ OwnAlone
  BY RequestCacheAssumption DEF Init, Places, KeysAgree, OwnAlone
<1>3. ASSUME NEW e \in Entries
      PROVE  mem[e].refs = One(Owned(e)) + One(Mapped(e)) + Cardinality(Responders(e))
  <2>1. ~Owned(e) /\ ~Mapped(e) /\ Responders(e) = {}
    BY RequestCacheAssumption DEF Init, Owned, Mapped, Responders
  <2>2. Cardinality(Responders(e)) = 0
    BY <2>1, FS_EmptySet
  <2> QED
    BY <2>1, <2>2 DEF Init, Free, One
<1> QED
  BY <1>1, <1>2, <1>3 DEF IInv, RefsExact

LEMMA ComeKeeps ==
  ASSUME IInv, NEW r \in Requests, Come(r)
  PROVE  IInv'
<1> USE DEF IInv, Come, Go
<1>1. TypeOK'
  BY DEF TypeOK
<1>2. Places'
  BY DEF Places, TypeOK
<1>3. KeysAgree'
  BY DEF KeysAgree, Places, TypeOK
<1>4. OwnAlone'
  BY DEF OwnAlone
<1>5. RefsExact'
  <2>1. \A e : Responders(e)' = Responders(e)
    BY SameResponders DEF TypeOK
  <2> QED
    BY ZenonT(40), <2>1 DEF RefsExact, Owned, Mapped
<1> QED
  BY <1>1, <1>2, <1>3, <1>4, <1>5

LEMMA PurgeOrMake ==
  ASSUME TypeOK, NEW r \in Requests, OnWithout(r)
  PROVE  /\ at'[r] \in {"purge", "make"}
         /\ \A q \in Requests \ {r} : at'[q] = at[q]
         /\ at' \in [Requests -> {"away", "find", "prolong", "purge", "make",
                                  "save", "respond"}]
BY DEF OnWithout, Go, TypeOK

(* An entry of one's own, in a memory that differs from the present one in *)
(* neither references nor keys.                                            *)
LEMMA AllocateKeeps ==
  ASSUME IInv, NEW r \in Requests, at[r] \in {"find", "prolong"},
         NEW memory \in [Entries -> EntryType],
         \A e \in Entries : memory[e].refs = mem[e].refs /\ memory[e].key = mem[e].key,
         Allocate(r, memory), OnWithout(r),
         entry' = [entry EXCEPT ![r] = NoEntry],
         UNCHANGED <<now, cache_map_, unused_entry_next_check_, key, time, gaveUp>>
  PROVE  IInv'
<1>1. PICK e \in Entries :
        /\ memory[e].refs = 0
        /\ own' = [own EXCEPT ![r] = e]
        /\ mem' = [memory EXCEPT ![e] = [Free EXCEPT !.refs = 1, !.key = key[r]]]
  BY DEF Allocate
<1>2. /\ \A q \in Requests : own[q] # e /\ entry[q] # e
      /\ \A k \in Keys : cache_map_[k] # e
  BY <1>1, FreeIsNobodys
<1>3. /\ at'[r] \in {"purge", "make"}
      /\ \A q \in Requests \ {r} : at'[q] = at[q]
      /\ at' \in [Requests -> {"away", "find", "prolong", "purge", "make",
                               "save", "respond"}]
  BY PurgeOrMake DEF IInv
<1>4. key[r] \in Keys /\ own[r] = NoEntry /\ e # NoEntry
  BY RequestCacheAssumption DEF IInv, Places
<1>5. /\ mem'[e] = [refs |-> 1, key |-> key[r], expire |-> 0, expire_unused |-> 0,
                    saved |-> Never]
      /\ \A f \in Entries \ {e} : mem'[f] = memory[f]
      /\ mem' \in [Entries -> EntryType]
  BY <1>1, <1>4 DEF Free, EntryType
<1>6. /\ own'[r] = e /\ \A q \in Requests \ {r} : own'[q] = own[q]
      /\ entry'[r] = NoEntry /\ \A q \in Requests \ {r} : entry'[q] = entry[q]
  BY <1>1 DEF IInv, TypeOK
<1>7. TypeOK'
  BY <1>1, <1>3, <1>5 DEF IInv, TypeOK
<1>8. Places'
  BY <1>3, <1>4, <1>6 DEF IInv, Places
<1>9. KeysAgree'
  <2>1. \A k \in Keys : cache_map_[k] # NoEntry => mem[cache_map_[k]].key = k
    BY DEF IInv, KeysAgree
  <2>2. \A k \in Keys : cache_map_[k] # NoEntry => mem'[cache_map_[k]].key = k
    BY <1>2, <1>5, <2>1 DEF IInv, TypeOK
  <2>3. ASSUME NEW q \in Requests, at'[q] = "respond"
        PROVE  mem'[entry'[q]].key = key[q]
    <3>1. q # r /\ at[q] = "respond" /\ entry[q] # NoEntry
      BY <1>3, <2>3 DEF IInv, Places
    <3>2. mem[entry[q]].key = key[q] /\ entry[q] \in Entries \ {e}
      BY <1>2, <3>1 DEF IInv, KeysAgree, TypeOK
    <3> QED
      BY <1>5, <1>6, <3>1, <3>2
  <2>4. ASSUME NEW q \in Requests, own'[q] # NoEntry
        PROVE  mem'[own'[q]].key = key[q]
    <3>1. CASE q = r
      BY <1>5, <1>6, <3>1
    <3>2. CASE q # r
      <4>1. mem[own[q]].key = key[q] /\ own[q] \in Entries \ {e} /\ own'[q] = own[q]
        BY <1>2, <1>6, <2>4, <3>2 DEF IInv, KeysAgree, TypeOK
      <4> QED
        BY <1>5, <4>1
    <3> QED
      BY <3>1, <3>2
  <2> QED
    BY <2>2, <2>3, <2>4 DEF KeysAgree
<1>10. OwnAlone'
  BY <1>2, <1>4, <1>6 DEF IInv, OwnAlone
<1>11. ASSUME NEW f \in Entries
       PROVE  (mem[f].refs = One(Owned(f)) + One(Mapped(f)) + Cardinality(Responders(f)))'
  <2>1. Responders(f)' = Responders(f)
    BY <1>3, <1>6, SameResponders
  <2>2. mem[f].refs = One(Owned(f)) + One(Mapped(f)) + Cardinality(Responders(f))
    BY DEF IInv, RefsExact
  <2>3. Mapped(f)' <=> Mapped(f)
    BY DEF Mapped
  <2>4. CASE f = e
    <3>1. Owned(e)' /\ ~Owned(e)
      BY <1>2, <1>6 DEF Owned
    <3>2. mem[e].refs = 0 /\ mem'[e].refs = 1
      BY <1>1, <1>5
    <3> QED
      BY <2>1, <2>2, <2>3, <2>4, <3>1, <3>2, RespondersCounted DEF One
  <2>5. CASE f # e
    <3>1. Owned(f)' <=> Owned(f)
      BY <1>4, <1>6, <2>5, RequestCacheAssumption DEF Owned
    <3>2. mem'[f].refs = mem[f].refs
      BY <1>5, <2>5
    <3> QED
      BY <2>1, <2>2, <2>3, <3>1, <3>2 DEF One
  <2> QED
    BY <2>4, <2>5
<1> QED
  BY <1>7, <1>8, <1>9, <1>10, <1>11 DEF IInv, RefsExact

LEMMA FindNothingKeeps ==
  ASSUME IInv, NEW r \in Requests, FindNothing(r)
  PROVE  IInv'
<1>1. entry' = [entry EXCEPT ![r] = NoEntry]
  BY DEF FindNothing, IInv, Places, TypeOK
<1>2. mem \in [Entries -> EntryType] /\ at[r] = "find"
  BY DEF FindNothing, IInv, TypeOK
<1> QED
  BY <1>1, <1>2, AllocateKeeps DEF FindNothing

LEMMA ProlongKeeps ==
  ASSUME IInv, NEW r \in Requests, Prolong(r)
  PROVE  IInv'
<1> DEFINE e == entry[r]
           memory == [mem EXCEPT ![e].expire = time[r] + entry_timeout_delay_]
<1>1. e \in Entries /\ time[r] \in Times /\ time[r] + entry_timeout_delay_ \in Nat
  BY RequestCacheAssumption DEF Prolong, IInv, Places, TypeOK, Times
<1>2. mem[e] \in EntryType
  BY <1>1 DEF IInv, TypeOK
<1>3. memory = [mem EXCEPT ![e] =
                 [mem[e] EXCEPT !.expire = time[r] + entry_timeout_delay_]]
  BY <1>1, <1>2 DEF IInv, TypeOK, EntryType
<1>4. /\ memory \in [Entries -> EntryType]
      /\ \A f \in Entries : memory[f].refs = mem[f].refs /\ memory[f].key = mem[f].key
  BY <1>1, <1>2, <1>3 DEF IInv, TypeOK, EntryType
<1>5. Allocate(r, memory)
  BY DEF Prolong
<1> HIDE DEF memory
<1> QED
  BY <1>4, <1>5, AllocateKeeps DEF Prolong

(* Only members that the invariant does not speak of change. *)
LEMMA SameCounts ==
  ASSUME IInv, NEW r \in Requests,
         mem' \in [Entries -> EntryType],
         \A f \in Entries : mem'[f].refs = mem[f].refs /\ mem'[f].key = mem[f].key,
         at[r] # "respond", at'[r] \in {"prolong", "purge", "make", "save"},
         at'[r] = "prolong" => entry'[r] = cache_map_[key[r]] /\ entry'[r] # NoEntry
                                /\ own[r] = NoEntry,
         at'[r] # "prolong" => entry'[r] = NoEntry,
         at'[r] = "save" => own[r] # NoEntry,
         at[r] # "away",
         at' = [at EXCEPT ![r] = at'[r]], entry' = [entry EXCEPT ![r] = entry'[r]],
         UNCHANGED <<now, cache_map_, unused_entry_next_check_, key, time, own, gaveUp>>
  PROVE  IInv'
<1>1. /\ \A q \in Requests \ {r} : at'[q] = at[q] /\ entry'[q] = entry[q]
      /\ entry'[r] \in Entries \union {NoEntry}
  BY DEF IInv, TypeOK, Places
<1>2. TypeOK'
  BY <1>1 DEF IInv, TypeOK
<1>3. Places'
  BY <1>1, RequestCacheAssumption DEF IInv, Places
<1>4. KeysAgree'
  BY <1>1, RequestCacheAssumption DEF IInv, KeysAgree, TypeOK, Places
<1>5. OwnAlone'
  BY <1>1, RequestCacheAssumption DEF IInv, OwnAlone, Places
<1>6. RefsExact'
  <2>1. \A f : Responders(f)' = Responders(f)
    BY <1>1, SameResponders
  <2> QED
    BY <2>1 DEF IInv, RefsExact, Owned, Mapped, One
<1> QED
  BY <1>2, <1>3, <1>4, <1>5, <1>6 DEF IInv

LEMMA FindKeeps ==
  ASSUME IInv, NEW r \in Requests, Find(r)
  PROVE  IInv'
<1> DEFINE e == cache_map_[key[r]]
           used == [mem EXCEPT ![e].expire_unused = time[r] + unused_timeout]
<1>1. /\ at[r] = "find" /\ key[r] \in Keys /\ e \in Entries /\ e # NoEntry
      /\ own[r] = NoEntry /\ entry[r] = NoEntry
  BY DEF Find, IInv, Places, TypeOK
<1>2. mem[e] \in EntryType /\ time[r] + unused_timeout \in Nat
  BY <1>1, RequestCacheAssumption DEF IInv, TypeOK, Times
<1>3. /\ used = [mem EXCEPT ![e] = [mem[e] EXCEPT !.expire_unused = time[r] + unused_timeout]]
      /\ used \in [Entries -> EntryType]
      /\ \A f \in Entries : used[f].refs = mem[f].refs /\ used[f].key = mem[f].key
  BY <1>1, <1>2 DEF IInv, TypeOK, EntryType
<1>4. UNCHANGED <<now, cache_map_, unused_entry_next_check_, key, time, own, gaveUp>>
  BY DEF Find
<1>5. CASE entry' = [entry EXCEPT ![r] = e] /\ mem' = used /\ Go(r, "prolong")
  <2>1. /\ at'[r] = "prolong" /\ entry'[r] = e
        /\ at' = [at EXCEPT ![r] = at'[r]] /\ entry' = [entry EXCEPT ![r] = entry'[r]]
    BY <1>5 DEF Go, IInv, TypeOK
  <2>2. /\ mem' \in [Entries -> EntryType]
        /\ \A f \in Entries : mem'[f].refs = mem[f].refs /\ mem'[f].key = mem[f].key
    <3>1. mem' = used
      BY <1>5
    <3>2. /\ used \in [Entries -> EntryType]
          /\ \A f \in Entries : used[f].refs = mem[f].refs /\ used[f].key = mem[f].key
      BY <1>3
    <3> HIDE DEF used
    <3> QED
      BY <3>1, <3>2
  <2> QED
    BY <1>1, <1>4, <2>1, <2>2, SameCounts
<1>6. CASE mem' = used /\ OnWithout(r) /\ UNCHANGED entry
  <2>1. /\ at'[r] \in {"purge", "make"} /\ entry'[r] = NoEntry
        /\ at' = [at EXCEPT ![r] = at'[r]] /\ entry' = [entry EXCEPT ![r] = entry'[r]]
    BY <1>1, <1>6 DEF OnWithout, Go, IInv, TypeOK
  <2>2. /\ mem' \in [Entries -> EntryType]
        /\ \A f \in Entries : mem'[f].refs = mem[f].refs /\ mem'[f].key = mem[f].key
    <3>1. mem' = used
      BY <1>6
    <3>2. /\ used \in [Entries -> EntryType]
          /\ \A f \in Entries : used[f].refs = mem[f].refs /\ used[f].key = mem[f].key
      BY <1>3
    <3> HIDE DEF used
    <3> QED
      BY <3>1, <3>2
  <2> QED
    BY <1>1, <1>4, <2>1, <2>2, SameCounts
<1>7. CASE /\ entry' = [entry EXCEPT ![r] = e]
           /\ mem' = [used EXCEPT ![e].refs = @ + 1] /\ Go(r, "respond")
  <2> HIDE DEF used
  <2>1. /\ mem'[e] = [used[e] EXCEPT !.refs = @ + 1]
        /\ \A f \in Entries \ {e} : mem'[f] = used[f]
        /\ mem' \in [Entries -> EntryType]
    <3>1. used \in [Entries -> EntryType] /\ e \in Entries
      BY <1>1, <1>3
    <3>2. PICK x : x = [used[e] EXCEPT !.refs = used[e].refs + 1]
      OBVIOUS
    <3>3. used[e] \in EntryType
      BY <3>1
    <3>4. x \in EntryType
      BY <3>2, <3>3 DEF EntryType
    <3>5. mem' = [used EXCEPT ![e] = x]
      BY <1>7, <3>2, Zenon
    <3> HIDE DEF e
    <3> QED
      BY <3>1, <3>2, <3>4, <3>5
  <2>2. /\ mem'[e].refs = mem[e].refs + 1
        /\ \A f \in Entries : f # e => mem'[f].refs = mem[f].refs
        /\ \A f \in Entries : mem'[f].key = mem[f].key
    BY <1>1, <1>3, <2>1 DEF EntryType
  <2>3. /\ at'[r] = "respond" /\ entry'[r] = e
        /\ \A q \in Requests \ {r} : at'[q] = at[q] /\ entry'[q] = entry[q]
    BY <1>7 DEF Go, IInv, TypeOK
  <2>4. TypeOK'
    BY <1>1, <1>4, <1>7, <2>1 DEF IInv, TypeOK, Go
  <2>5. Places'
    BY <1>1, <1>4, <2>3, RequestCacheAssumption DEF IInv, Places
  <2>6. KeysAgree'
    <3>1. mem[e].key = key[r]
      BY <1>1 DEF IInv, KeysAgree
    <3> QED
      BY <1>1, <1>4, <2>2, <2>3, <3>1, RequestCacheAssumption
         DEF IInv, KeysAgree, TypeOK, Places
  <2>7. OwnAlone'
    BY <1>1, <1>4, <2>3 DEF IInv, OwnAlone
  <2>8. ASSUME NEW f \in Entries
        PROVE  (mem[f].refs = One(Owned(f)) + One(Mapped(f)) + Cardinality(Responders(f)))'
    <3>1. mem[f].refs = One(Owned(f)) + One(Mapped(f)) + Cardinality(Responders(f))
      BY DEF IInv, RefsExact
    <3>2. One(Owned(f))' = One(Owned(f)) /\ One(Mapped(f))' = One(Mapped(f))
      BY <1>4 DEF Owned, Mapped, One
    <3>3. CASE f = e
      <4>1. Responders(f)' = Responders(f) \union {r} /\ r \notin Responders(f)
        BY <1>1, <2>3, <3>3 DEF Responders
      <4>2. Cardinality(Responders(f))' = Cardinality(Responders(f)) + 1
        BY <4>1, RespondersCounted, FS_AddElement
      <4>3. One(Owned(f)) \in {0, 1} /\ One(Mapped(f)) \in {0, 1}
        BY DEF One
      <4> QED
        BY <2>2, <3>1, <3>2, <3>3, <4>2, <4>3, RespondersCounted
    <3>4. CASE f # e
      <4>1. Responders(f)' = Responders(f)
        BY <1>1, <2>3, <3>4 DEF Responders
      <4> QED
        BY <2>2, <3>1, <3>2, <3>4, <4>1
    <3> QED
      BY <3>3, <3>4
  <2> QED
    BY <2>4, <2>5, <2>6, <2>7, <2>8 DEF IInv, RefsExact
<1> QED
  BY <1>5, <1>6, <1>7 DEF Find

-----------------------------------------------------------------------------
(* What somebody still has after references are dropped keeps its key.     *)
LEMMA LessKeepsKeys ==
  ASSUME IInv, TypeOK', RefsExact',
         NEW S, \A e \in S : mem[e].refs \in Nat /\ mem[e].refs > 0,
         mem' = Without(S),
         \A k \in Keys : cache_map_'[k] # NoEntry => mem[cache_map_'[k]].key = k,
         \A q \in Requests :
           /\ at'[q] = "respond" => /\ at[q] = "respond" /\ entry'[q] = entry[q]
                                   /\ key'[q] = key[q]
           /\ own'[q] # NoEntry => own'[q] = own[q] /\ key'[q] = key[q]
  PROVE  KeysAgree'
<1>1. \A e \in Entries :
        /\ e \notin S => mem'[e] = mem[e]
        /\ e \in S => /\ mem'[e].refs = mem[e].refs - 1
                      /\ mem[e].refs > 1 => mem'[e].key = mem[e].key
  BY WithoutIsLess DEF IInv
<1>2. ASSUME NEW e \in Entries, Owned(e)' \/ Mapped(e)' \/ Responders(e)' # {}
      PROVE  mem'[e].key = mem[e].key
  <2>1. IsFiniteSet(Responders(e)') /\ Cardinality(Responders(e)') \in Nat
    BY RequestCacheAssumption, FS_Subset, FS_CardinalityType,
       Responders(e)' \subseteq Requests DEF Responders
  <2>2. Responders(e)' # {} => Cardinality(Responders(e)') # 0
    BY <2>1, FS_EmptySet
  <2>3. /\ One(Owned(e))' \in {0, 1} /\ One(Mapped(e))' \in {0, 1}
        /\ Owned(e)' => One(Owned(e))' = 1
        /\ Mapped(e)' => One(Mapped(e))' = 1
    BY DEF One
  <2>4. mem'[e].refs = One(Owned(e))' + One(Mapped(e))' + Cardinality(Responders(e)')
    BY DEF RefsExact
  <2>5. mem'[e].refs > 0
    BY <1>2, <2>1, <2>2, <2>3, <2>4
  <2>6. mem[e].refs \in Nat
    BY DEF IInv, TypeOK, EntryType
  <2> QED
    BY <1>1, <2>5, <2>6
<1>3. ASSUME NEW k \in Keys, cache_map_'[k] # NoEntry
      PROVE  mem'[cache_map_'[k]].key = k
  <2>1. cache_map_'[k] \in Entries
    BY <1>3 DEF TypeOK
  <2>2. \A e : e = cache_map_'[k] => Mapped(e)'
    BY DEF Mapped
  <2> QED
    BY <1>2, <1>3, <2>1, <2>2
<1>4. ASSUME NEW q \in Requests, at'[q] = "respond"
      PROVE  mem'[entry'[q]].key = key'[q]
  <2>1. at[q] = "respond" /\ entry[q] \in Entries /\ entry'[q] = entry[q]
    BY <1>4 DEF IInv, Places, TypeOK
  <2>2. \A e : e = entry[q] => Responders(e)' # {}
    BY <1>4, <2>1 DEF Responders
  <2> QED
    BY <1>2, <1>4, <2>1, <2>2 DEF IInv, KeysAgree
<1>5. ASSUME NEW q \in Requests, own'[q] # NoEntry
      PROVE  mem'[own'[q]].key = key'[q]
  <2>1. own[q] \in Entries /\ own'[q] = own[q]
    BY <1>5 DEF IInv, TypeOK
  <2>2. \A e : e = own[q] => Owned(e)'
    BY <2>1 DEF Owned
  <2> QED
    BY <1>2, <1>5, <2>1, <2>2 DEF IInv, KeysAgree
<1> QED
  BY <1>3, <1>4, <1>5 DEF KeysAgree

(* Purging takes the map's references to what nobody has asked for lately. *)
LEMMA PurgeKeeps ==
  ASSUME IInv, NEW r \in Requests, Purge(r)
  PROVE  IInv'
<1> DEFINE unused == {k \in Keys : /\ cache_map_[k] # NoEntry
                                  /\ mem[cache_map_[k]].expire_unused <= time[r]}
           dropped == {cache_map_[k] : k \in unused}
<1>1. /\ at[r] = "purge" /\ entry[r] = NoEntry /\ key[r] \in Keys
      /\ \A q \in Requests : at[q] # "prolong"
  BY DEF Purge, Unread, IInv, Places
<1>2. /\ at'[r] = "make" /\ entry' = entry /\ own' = own /\ key' = key /\ time' = time
      /\ \A q \in Requests \ {r} : at'[q] = at[q]
      /\ now' = now
  BY DEF Purge, Go, IInv, TypeOK
<1>3. /\ cache_map_' = [k \in Keys |-> IF k \in unused THEN NoEntry ELSE cache_map_[k]]
      /\ mem' = Without(dropped)
  BY DEF Purge
<1>4. \A k \in unused : k \in Keys /\ cache_map_[k] \in Entries /\ cache_map_[k] # NoEntry
  BY DEF IInv, TypeOK
<1>5. \A e \in dropped : e \in Entries /\ \E k \in unused : cache_map_[k] = e
  BY <1>4
(* An entry is in one key's place only. *)
<1>6. \A k, l \in Keys : cache_map_[k] # NoEntry /\ cache_map_[k] = cache_map_[l] => k = l
  BY DEF IInv, KeysAgree
<1>7. \A k \in Keys : k \notin unused => cache_map_[k] \notin dropped
  BY <1>4, <1>6
<1>8. \A k \in Keys : /\ k \in unused => cache_map_'[k] = NoEntry
                      /\ k \notin unused => cache_map_'[k] = cache_map_[k]
  BY <1>3
<1> HIDE DEF unused, dropped
<1>9. \A e \in dropped : mem[e].refs \in Nat /\ mem[e].refs > 0
  <2>1. ASSUME NEW e \in dropped PROVE mem[e].refs \in Nat /\ mem[e].refs > 0
    <3>1. e \in Entries /\ \E k \in Keys : cache_map_[k] = e
      BY <1>4, <1>5
    <3> QED
      BY <3>1, HeldIsCounted
  <2> QED
    BY <2>1
<1>10. /\ mem' \in [Entries -> EntryType]
       /\ \A e \in Entries :
            /\ e \notin dropped => mem'[e] = mem[e]
            /\ e \in dropped => /\ mem'[e].refs = mem[e].refs - 1
                                /\ mem[e].refs > 1 => mem'[e].key = mem[e].key
  BY <1>3, <1>9, WithoutIsLess DEF IInv
<1>11. TypeOK'
  <2>1. at' \in [Requests -> {"away", "find", "prolong", "purge", "make", "save", "respond"}]
    BY DEF Purge, Go, IInv, TypeOK
  <2>2. unused_entry_next_check_' \in Nat
    BY RequestCacheAssumption DEF Purge, IInv, TypeOK, Times
  <2>3. cache_map_' \in [Keys -> Entries \union {NoEntry}]
    BY <1>3 DEF IInv, TypeOK
  <2>4. gaveUp' = gaveUp
    BY DEF Purge
  <2> QED
    BY <1>2, <1>10, <2>1, <2>2, <2>3, <2>4 DEF IInv, TypeOK
<1>12. Places'
  BY <1>1, <1>2 DEF IInv, Places
<1>13. ASSUME NEW e \in Entries
       PROVE  (mem[e].refs = One(Owned(e)) + One(Mapped(e)) + Cardinality(Responders(e)))'
  <2>1. mem[e].refs = One(Owned(e)) + One(Mapped(e)) + Cardinality(Responders(e))
    BY DEF IInv, RefsExact
  <2>2. One(Owned(e))' = One(Owned(e))
    BY <1>2 DEF Owned, One
  <2>3. Responders(e)' = Responders(e)
    BY <1>1, <1>2, SameResponders
  <2>4. CASE e \in dropped
    <3>1. Mapped(e) /\ ~Mapped(e)'
      BY <1>4, <1>5, <1>6, <1>8, <2>4, RequestCacheAssumption DEF Mapped
    <3>2. One(Mapped(e)) = 1 /\ One(Mapped(e))' = 0 /\ One(Owned(e)) \in {0, 1}
      BY <3>1 DEF One
    <3> QED
      BY <1>10, <2>1, <2>2, <2>3, <2>4, <3>2, RespondersCounted
  <2>5. CASE e \notin dropped
    <3>1. Mapped(e)' <=> Mapped(e)
      BY <1>4, <1>5, <1>8, <2>5, RequestCacheAssumption DEF Mapped, dropped
    <3> QED
      BY <1>10, <2>1, <2>2, <2>3, <2>5, <3>1 DEF One
  <2> QED
    BY <2>4, <2>5
<1>14. KeysAgree'
  <2>1. \A k \in Keys : cache_map_'[k] # NoEntry => mem[cache_map_'[k]].key = k
    BY <1>8 DEF IInv, KeysAgree
  <2>2. \A q \in Requests : at'[q] = "respond" => at[q] = "respond"
    BY <1>2
  <2> QED
    BY <1>2, <1>3, <1>9, <1>11, <1>13, <2>1, <2>2, LessKeepsKeys DEF RefsExact
<1>15. OwnAlone'
  BY <1>2, <1>8 DEF IInv, OwnAlone
<1> QED
  BY <1>11, <1>12, <1>13, <1>14, <1>15 DEF IInv, RefsExact

(* The end of a request clears what it had. *)
LEMMA LeaveClears ==
  ASSUME IInv, NEW r \in Requests, Leave(r)
  PROVE  /\ at'[r] = "away" /\ entry'[r] = NoEntry /\ own'[r] = NoEntry
         /\ \A q \in Requests \ {r} : /\ at'[q] = at[q] /\ entry'[q] = entry[q]
                                       /\ own'[q] = own[q] /\ key'[q] = key[q]
         /\ at' \in [Requests -> {"away", "find", "prolong", "purge", "make", "save",
                                  "respond"}]
         /\ key' \in [Requests -> Keys \union {NoEntry}]
         /\ time' \in [Requests -> Times]
         /\ entry' \in [Requests -> Entries \union {NoEntry}]
         /\ own' \in [Requests -> Entries \union {NoEntry}]
<1>1. 0 \in Times
  BY RequestCacheAssumption DEF Times
<1> QED
  BY <1>1 DEF Leave, Go, IInv, TypeOK

(* The request's own reference to its entry goes with it. *)
LEMMA DropKeeps ==
  ASSUME IInv, NEW r \in Requests, Drop(r)
  PROVE  IInv'
<1>1. /\ at[r] = "make" /\ entry[r] = NoEntry /\ mem' = Without({own[r]})
      /\ cache_map_' = cache_map_ /\ now' = now
      /\ unused_entry_next_check_' = unused_entry_next_check_
  BY DEF Drop, IInv, Places
<1>2. /\ at'[r] = "away" /\ entry'[r] = NoEntry /\ own'[r] = NoEntry
      /\ \A q \in Requests \ {r} : /\ at'[q] = at[q] /\ entry'[q] = entry[q]
                                    /\ own'[q] = own[q] /\ key'[q] = key[q]
  BY LeaveClears DEF Drop
<1> DEFINE S == {own[r]} \intersect Entries
<1>3. Without({own[r]}) = Without(S)
  BY DEF Without
<1>4. \A e \in S : mem[e].refs \in Nat /\ mem[e].refs > 0
  BY HeldIsCounted
<1>5. /\ mem' \in [Entries -> EntryType]
      /\ \A e \in Entries :
           /\ e # own[r] => mem'[e] = mem[e]
           /\ e = own[r] => mem'[e].refs = mem[e].refs - 1
  BY <1>1, <1>3, <1>4, WithoutIsLess DEF IInv
<1>6. TypeOK'
  BY <1>1, <1>5, LeaveClears DEF Drop, IInv, TypeOK
<1>7. Places'
  BY <1>1, <1>2, RequestCacheAssumption DEF IInv, Places
<1>8. OwnAlone'
  BY <1>1, <1>2 DEF IInv, OwnAlone
<1>9. RefsExact'
  <2> SUFFICES ASSUME NEW e \in Entries
               PROVE  (mem[e].refs = One(Owned(e)) + One(Mapped(e))
                                       + Cardinality(Responders(e)))'
    BY DEF RefsExact
  <2>1. mem[e].refs = One(Owned(e)) + One(Mapped(e)) + Cardinality(Responders(e))
    BY DEF IInv, RefsExact
  <2>2. One(Mapped(e))' = One(Mapped(e)) /\ One(Mapped(e)) \in {0, 1}
    BY <1>1 DEF Mapped, One
  <2>3. Responders(e)' = Responders(e)
    BY <1>1, <1>2, SameResponders
  <2>4. CASE e = own[r]
    <3>1. Owned(e) /\ ~Owned(e)'
      BY <1>2, <2>4, RequestCacheAssumption DEF Owned, IInv, OwnAlone
    <3> QED
      BY <1>5, <2>1, <2>2, <2>3, <2>4, <3>1, RespondersCounted DEF One
  <2>5. CASE e # own[r]
    <3>1. Owned(e)' <=> Owned(e)
      BY <1>2, <2>5, RequestCacheAssumption DEF Owned
    <3> QED
      BY <1>5, <2>1, <2>2, <2>3, <2>5, <3>1 DEF One
  <2> QED
    BY <2>4, <2>5
<1>10. KeysAgree'
  <2>1. \A k \in Keys : cache_map_'[k] # NoEntry => mem[cache_map_'[k]].key = k
    BY <1>1 DEF IInv, KeysAgree
  <2> HIDE DEF S
  <2> QED
    BY <1>1, <1>2, <1>3, <1>4, <1>6, <1>9, <2>1, LessKeepsKeys
<1> QED
  BY <1>6, <1>7, <1>8, <1>9, <1>10 DEF IInv

LEMMA RespondKeeps ==
  ASSUME IInv, NEW r \in Requests, Respond(r)
  PROVE  IInv'
<1> DEFINE S == {entry[r]}
<1>1. /\ at[r] = "respond" /\ own[r] = NoEntry /\ mem' = Without(S)
      /\ entry[r] \in Entries
      /\ cache_map_' = cache_map_ /\ now' = now
      /\ unused_entry_next_check_' = unused_entry_next_check_
  BY DEF Respond, IInv, Places, TypeOK
<1>2. /\ at'[r] = "away" /\ entry'[r] = NoEntry /\ own'[r] = NoEntry
      /\ \A q \in Requests \ {r} : /\ at'[q] = at[q] /\ entry'[q] = entry[q]
                                    /\ own'[q] = own[q] /\ key'[q] = key[q]
  BY LeaveClears DEF Respond
<1>3. \A e \in S : mem[e].refs \in Nat /\ mem[e].refs > 0
  BY <1>1, HeldIsCounted
<1>4. /\ mem' \in [Entries -> EntryType]
      /\ \A e \in Entries :
           /\ e # entry[r] => mem'[e] = mem[e]
           /\ e = entry[r] => mem'[e].refs = mem[e].refs - 1
  BY <1>1, <1>3, WithoutIsLess DEF IInv
<1>5. TypeOK'
  BY <1>1, <1>4, LeaveClears DEF Respond, IInv, TypeOK
<1>6. Places'
  BY <1>1, <1>2, RequestCacheAssumption DEF IInv, Places
<1>7. OwnAlone'
  BY <1>1, <1>2 DEF IInv, OwnAlone
<1>8. RefsExact'
  <2> SUFFICES ASSUME NEW e \in Entries
               PROVE  (mem[e].refs = One(Owned(e)) + One(Mapped(e))
                                       + Cardinality(Responders(e)))'
    BY DEF RefsExact
  <2>1. mem[e].refs = One(Owned(e)) + One(Mapped(e)) + Cardinality(Responders(e))
    BY DEF IInv, RefsExact
  <2>2. One(Mapped(e))' = One(Mapped(e)) /\ One(Mapped(e)) \in {0, 1}
    BY <1>1 DEF Mapped, One
  <2>3. One(Owned(e))' = One(Owned(e)) /\ One(Owned(e)) \in {0, 1}
    <3>1. Owned(e)' <=> Owned(e)
      BY <1>1, <1>2, RequestCacheAssumption DEF Owned
    <3> QED
      BY <3>1 DEF One
  <2>4. CASE e = entry[r]
    <3>1. Responders(e)' = Responders(e) \ {r} /\ r \in Responders(e)
      BY <1>1, <1>2, <2>4 DEF Responders
    <3>2. Cardinality(Responders(e))' = Cardinality(Responders(e)) - 1
      BY <3>1, RespondersCounted, FS_RemoveElement
    <3> QED
      BY <1>4, <2>1, <2>2, <2>3, <2>4, <3>2, RespondersCounted
  <2>5. CASE e # entry[r]
    <3>1. Responders(e)' = Responders(e)
      BY <1>1, <1>2, <2>5 DEF Responders
    <3> QED
      BY <1>4, <2>1, <2>2, <2>3, <2>5, <3>1
  <2> QED
    BY <2>4, <2>5
<1>9. KeysAgree'
  <2>1. \A k \in Keys : cache_map_'[k] # NoEntry => mem[cache_map_'[k]].key = k
    BY <1>1 DEF IInv, KeysAgree
  <2> HIDE DEF S
  <2> QED
    BY <1>1, <1>2, <1>3, <1>5, <1>8, <2>1, LessKeepsKeys
<1> QED
  BY <1>5, <1>6, <1>7, <1>8, <1>9 DEF IInv

(* The request's reference becomes the map's; what the key had loses one.  *)
LEMMA SaveKeeps ==
  ASSUME IInv, NEW r \in Requests, Save(r)
  PROVE  IInv'
<1> DEFINE o == cache_map_[key[r]]
           S == {o} \intersect Entries
<1>1. /\ at[r] = "save" /\ own[r] \in Entries /\ own[r] # NoEntry
      /\ entry[r] = NoEntry /\ key[r] \in Keys
      /\ mem' = Without({o}) /\ now' = now
      /\ cache_map_' = [cache_map_ EXCEPT ![key[r]] = own[r]]
      /\ unused_entry_next_check_' = unused_entry_next_check_
      /\ \A q \in Requests : at[q] # "prolong"
  BY DEF Save, Unread, IInv, Places, TypeOK
<1>2. /\ at'[r] = "away" /\ entry'[r] = NoEntry /\ own'[r] = NoEntry
      /\ \A q \in Requests \ {r} : /\ at'[q] = at[q] /\ entry'[q] = entry[q]
                                    /\ own'[q] = own[q] /\ key'[q] = key[q]
  BY LeaveClears DEF Save
<1>3. /\ cache_map_'[key[r]] = own[r]
      /\ \A k \in Keys \ {key[r]} : cache_map_'[k] = cache_map_[k]
      /\ cache_map_' \in [Keys -> Entries \union {NoEntry}]
  BY <1>1 DEF IInv, TypeOK
<1>4. /\ \A k \in Keys : cache_map_[k] # own[r]
      /\ \A q \in Requests : own[r] # entry[q] /\ (q # r => own[r] # own[q])
  BY <1>1 DEF IInv, OwnAlone
<1>5. Without({o}) = Without(S)
  BY DEF Without
<1>6. \A e \in S : mem[e].refs \in Nat /\ mem[e].refs > 0
  BY <1>1, HeldIsCounted
<1>7. /\ mem' \in [Entries -> EntryType]
      /\ \A e \in Entries : /\ e # o => mem'[e] = mem[e]
                            /\ e = o => mem'[e].refs = mem[e].refs - 1
  BY <1>1, <1>5, <1>6, WithoutIsLess DEF IInv
<1>8. \A k \in Keys \ {key[r]} : o # NoEntry => cache_map_[k] # o
  BY <1>1 DEF IInv, KeysAgree
<1>9. TypeOK'
  BY <1>1, <1>3, <1>7, LeaveClears DEF Save, IInv, TypeOK
<1> HIDE DEF S
<1>10. Places'
  BY <1>1, <1>2, RequestCacheAssumption DEF IInv, Places
<1>11. OwnAlone'
  <2> SUFFICES ASSUME NEW q \in Requests, own'[q] # NoEntry
               PROVE  /\ \A k \in Keys : cache_map_'[k] # own'[q]
                      /\ \A p \in Requests : /\ own'[q] # entry'[p]
                                             /\ p # q => own'[q] # own'[p]
    BY DEF OwnAlone
  <2>1. q # r /\ own'[q] = own[q] /\ own[q] # own[r]
    BY <1>2, <1>4
  <2>2. \A k \in Keys : cache_map_'[k] # own'[q]
    BY <1>3, <2>1 DEF IInv, OwnAlone
  <2>3. \A p \in Requests : own'[q] # entry'[p] /\ (p # q => own'[q] # own'[p])
    BY <1>2, <2>1 DEF IInv, OwnAlone
  <2> QED
    BY <2>2, <2>3
<1>12. ASSUME NEW e \in Entries
       PROVE  (mem[e].refs = One(Owned(e)) + One(Mapped(e)) + Cardinality(Responders(e)))'
  <2>1. mem[e].refs = One(Owned(e)) + One(Mapped(e)) + Cardinality(Responders(e))
    BY DEF IInv, RefsExact
  <2>2. Responders(e)' = Responders(e)
    BY <1>1, <1>2, SameResponders
  <2>3. CASE e = own[r]
    <3>1. Owned(e) /\ ~Owned(e)'
      BY <1>1, <1>2, <1>4, <2>3 DEF Owned
    <3>2. ~Mapped(e) /\ Mapped(e)'
      BY <1>1, <1>3, <1>4, <2>3 DEF Mapped
    <3>3. mem'[e].refs = mem[e].refs
      BY <1>1, <1>4, <1>7, <2>3
    <3> QED
      BY <2>1, <2>2, <3>1, <3>2, <3>3, RespondersCounted DEF One
  <2>4. CASE e # own[r]
    <3>1. Owned(e)' <=> Owned(e)
      BY <1>2, <2>4, RequestCacheAssumption DEF Owned
    <3>2. CASE e = o
      <4>1. Mapped(e) /\ ~Mapped(e)'
        BY <1>1, <1>3, <1>8, <2>4, <3>2, RequestCacheAssumption DEF Mapped
      <4>2. One(Mapped(e)) = 1 /\ One(Mapped(e))' = 0 /\ One(Owned(e)) \in {0, 1}
            /\ One(Owned(e))' = One(Owned(e))
        BY <3>1, <4>1 DEF One
      <4> QED
        BY <1>7, <2>1, <2>2, <3>2, <4>2, RespondersCounted
    <3>3. CASE e # o
      <4>1. Mapped(e)' <=> Mapped(e)
        BY <1>1, <1>3, <2>4, <3>3 DEF Mapped
      <4> QED
        BY <1>7, <2>1, <2>2, <3>1, <3>3, <4>1 DEF One
    <3> QED
      BY <3>2, <3>3
  <2> QED
    BY <2>3, <2>4
<1>13. KeysAgree'
  <2>1. \A k \in Keys : cache_map_'[k] # NoEntry => mem[cache_map_'[k]].key = k
    BY <1>1, <1>3 DEF IInv, KeysAgree
  <2> QED
    BY <1>1, <1>2, <1>5, <1>6, <1>9, <1>12, <2>1, LessKeepsKeys DEF RefsExact
<1> QED
  BY <1>9, <1>10, <1>11, <1>12, <1>13 DEF IInv, RefsExact

LEMMA FinalizeKeeps ==
  ASSUME IInv, NEW r \in Requests, Finalize(r)
  PROVE  IInv'
<1> DEFINE e == own[r]
<1>1. /\ at[r] = "make" /\ e # NoEntry /\ e \in Entries /\ entry[r] = NoEntry
      /\ UNCHANGED <<now, cache_map_, unused_entry_next_check_, key, time, own, gaveUp>>
      /\ entry' = entry
  BY DEF Finalize, IInv, Places, TypeOK
<1>2. mem[e] \in EntryType /\ now + timeout \in Nat /\ now + unused_timeout \in Nat
      /\ now \in Times
  BY <1>1, RequestCacheAssumption DEF IInv, TypeOK, Times
<1>3. mem' = [mem EXCEPT ![e] = [mem[e] EXCEPT !.expire = now + timeout, !.saved = now,
                                              !.expire_unused = now + unused_timeout]]
  BY <1>1 DEF Finalize, IInv, TypeOK
<1>4. /\ mem' \in [Entries -> EntryType]
      /\ \A f \in Entries : mem'[f].refs = mem[f].refs /\ mem'[f].key = mem[f].key
  BY <1>1, <1>2, <1>3 DEF IInv, TypeOK, EntryType
<1>5. /\ at'[r] = "save" /\ entry'[r] = NoEntry
      /\ at' = [at EXCEPT ![r] = at'[r]] /\ entry' = [entry EXCEPT ![r] = entry'[r]]
  BY <1>1 DEF Finalize, Go, IInv, TypeOK
<1> QED
  BY <1>1, <1>4, <1>5, SameCounts

LEMMA TickKeeps ==
  ASSUME IInv, Tick \/ UNCHANGED vars
  PROVE  IInv'
<1>1. UNCHANGED <<cache_map_, mem, unused_entry_next_check_, at, key, time, entry, own,
                  gaveUp>>
  BY DEF Tick, vars, requestVars
<1>2. TypeOK'
  BY <1>1, RequestCacheAssumption DEF IInv, TypeOK, Tick, vars, Times
<1>3. Places' /\ KeysAgree' /\ OwnAlone'
  BY <1>1 DEF IInv, Places, KeysAgree, OwnAlone
<1>4. RefsExact'
  BY <1>1 DEF IInv, RefsExact, Owned, Mapped, Responders, One
<1> QED
  BY <1>2, <1>3, <1>4 DEF IInv

-----------------------------------------------------------------------------
(* Every count of an entry is exact at all times: its maker's reference,   *)
(* the map's and its readers', through purging, replacing and dropping.    *)
THEOREM CountsAreExact == Spec => []IInv
<1>1. Init => IInv
  BY InitIInv
<1>2. IInv /\ [Next]_vars => IInv'
  <2> SUFFICES ASSUME IInv, [Next]_vars PROVE IInv'
    OBVIOUS
  <2>1. ASSUME NEW r \in Requests,
               \/ Come(r) \/ FindNothing(r) \/ Find(r) \/ Prolong(r) \/ Purge(r)
               \/ Drop(r) \/ Finalize(r) \/ Save(r) \/ Respond(r)
        PROVE  IInv'
    BY <2>1, ComeKeeps, FindNothingKeeps, FindKeeps, ProlongKeeps, PurgeKeeps,
       DropKeeps, FinalizeKeeps, SaveKeeps, RespondKeeps
  <2> QED
    BY <2>1, TickKeeps DEF Next
<1> QED
  BY <1>1, <1>2, PTL DEF Spec

(* An entry a request answers with, prolongs or fills exists and is of the *)
(* page asked for, whatever other requests purge or replace meanwhile; one *)
(* that is filled is nobody else's.                                        *)
THEOREM EntriesAreLive == Spec => []EntriesLive
<1>1. IInv => EntriesLive
  <2> SUFFICES ASSUME IInv PROVE EntriesLive
    OBVIOUS
  <2>1. ASSUME NEW r \in Requests, NEW e \in Entries, e \in {entry[r], own[r]}
        PROVE  mem[e].refs > 0 /\ mem[e].key = key[r]
    <3>1. mem[e].refs > 0
      BY <2>1, HeldIsCounted
    <3>2. mem[e].key = key[r]
      BY <2>1, RequestCacheAssumption DEF IInv, Places, KeysAgree
    <3> QED
      BY <3>1, <3>2
  <2> QED
    BY <2>1 DEF EntriesLive, IInv, OwnAlone
<1> QED
  BY <1>1, CountsAreExact, PTL

-----------------------------------------------------------------------------
(* What a request does not do itself nobody does to it.                    *)
Own(r) == \/ Come(r) \/ FindNothing(r) \/ Find(r) \/ Prolong(r) \/ Purge(r)
          \/ Drop(r) \/ Finalize(r) \/ Save(r) \/ Respond(r)

LEMMA OthersLeaveAlone ==
  ASSUME TypeOK, [Next]_vars, NEW r \in Requests, ~Own(r)
  PROVE  /\ at'[r] = at[r] /\ key'[r] = key[r] /\ time'[r] = time[r]
         /\ entry'[r] = entry[r] /\ own'[r] = own[r]
<1>1. CASE Tick \/ UNCHANGED vars
  BY <1>1 DEF Tick, vars, requestVars
<1>2. ASSUME NEW q \in Requests, q # r, Own(q)
      PROVE  /\ at'[r] = at[r] /\ key'[r] = key[r] /\ time'[r] = time[r]
             /\ entry'[r] = entry[r] /\ own'[r] = own[r]
  <2> USE DEF Go, TypeOK
  <2>1. CASE Come(q) \/ Purge(q) \/ Finalize(q)
    BY <1>2, <2>1 DEF Come, Purge, Finalize
  <2>2. CASE FindNothing(q) \/ Prolong(q)
    BY <1>2, <2>2 DEF FindNothing, Prolong, Allocate, OnWithout
  <2>3. CASE Find(q)
    BY <1>2, <2>3 DEF Find, OnWithout
  <2>4. CASE Drop(q) \/ Save(q) \/ Respond(q)
    BY <1>2, <2>4 DEF Drop, Save, Respond, Leave
  <2> QED
    BY <1>2, <2>1, <2>2, <2>3, <2>4 DEF Own
<1> QED
  BY <1>1, <1>2 DEF Next, Own

(* Who makes a page goes on until it drops or saves it. *)
LEMMA MakersStay ==
  ASSUME TypeOK, [Next]_vars, NEW q \in Requests,
         at[q] \in {"purge", "make", "save"}, ~Drop(q), ~Save(q)
  PROVE  own'[q] = own[q] /\ key'[q] = key[q] /\ time'[q] = time[q]
<1>1. CASE Own(q)
  <2>1. Purge(q) \/ Finalize(q)
    BY <1>1 DEF Own, Come, FindNothing, Find, Prolong, Respond
  <2> QED
    BY <2>1 DEF Purge, Finalize
<1> QED
  BY <1>1, OthersLeaveAlone

(* Who saves has filled its entry, who answers has found one. *)
LEMMA SaversStay ==
  ASSUME TypeOK, [Next]_vars, NEW r \in Requests, at'[r] = "save", ~Finalize(r)
  PROVE  at[r] = "save" /\ own'[r] = own[r]
<1>1. ~Own(r)
  BY DEF Own, Come, FindNothing, Find, Prolong, Purge, Drop, Save, Respond, Leave, Go,
         OnWithout, TypeOK
<1> QED
  BY <1>1, OthersLeaveAlone

LEMMA RespondersStay ==
  ASSUME TypeOK, [Next]_vars, NEW r \in Requests, at'[r] = "respond", ~Find(r)
  PROVE  /\ at[r] = "respond" /\ entry'[r] = entry[r] /\ key'[r] = key[r]
         /\ time'[r] = time[r]
<1>1. ~Own(r)
  BY DEF Own, Come, FindNothing, Prolong, Purge, Drop, Finalize, Save, Respond, Leave,
         Go, OnWithout, TypeOK
<1> QED
  BY <1>1, OthersLeaveAlone

LEMMA RespondersFind ==
  ASSUME TypeOK, NEW r \in Requests, at'[r] = "respond", Find(r)
  PROVE  /\ cache_map_' = cache_map_ /\ key' = key /\ time' = time
         /\ entry'[r] = cache_map_[key[r]]
         /\ mem[cache_map_[key[r]]].expire > time[r]
BY DEF Find, OnWithout, Go, TypeOK

(* Only saving puts an entry in the map. *)
LEMMA MapStays ==
  ASSUME TypeOK, [Next]_vars, NEW k \in Keys, cache_map_'[k] # NoEntry,
         ~ \E r \in Requests : Save(r) /\ key[r] = k
  PROVE  cache_map_[k] = cache_map_'[k]
<1>1. CASE Tick \/ UNCHANGED vars
  BY <1>1 DEF Tick, vars
<1>2. ASSUME NEW r \in Requests, Save(r) PROVE cache_map_[k] = cache_map_'[k]
  BY <1>2 DEF Save, TypeOK
<1>3. ASSUME NEW r \in Requests, Purge(r) PROVE cache_map_[k] = cache_map_'[k]
  BY <1>3 DEF Purge
<1>4. ASSUME NEW r \in Requests,
             \/ Come(r) \/ FindNothing(r) \/ Find(r) \/ Prolong(r)
             \/ Drop(r) \/ Finalize(r) \/ Respond(r)
      PROVE  cache_map_[k] = cache_map_'[k]
  BY <1>4 DEF Come, FindNothing, Find, Prolong, Drop, Finalize, Respond
<1> QED
  BY <1>1, <1>2, <1>3, <1>4 DEF Next

(* An entry's times.  *)
SameTimes(e) ==
  mem'[e].expire = mem[e].expire /\ mem'[e].saved = mem[e].saved

(* Who has just been given this entry to fill. *)
New(e) == \E r \in Requests : own'[r] = e /\ own[r] # e

LEMMA WithoutKeepsTimes ==
  ASSUME TypeOK, NEW S, mem' = Without(S), NEW e \in Entries, mem'[e].refs # 0
  PROVE  SameTimes(e)
<1>1. mem[e] \in EntryType
  BY DEF TypeOK
<1>2. mem'[e] \in {mem[e], Free, [mem[e] EXCEPT !.refs = mem[e].refs - 1]}
  BY DEF Without
<1>3. mem'[e] # Free
  BY DEF Free
<1> QED
  BY <1>1, <1>2, <1>3 DEF SameTimes, EntryType

(* Allocation touches but the new entry. *)
LEMMA AllocateTimes ==
  ASSUME TypeOK, NEW r \in Requests, NEW memory, Allocate(r, memory),
         own[r] = NoEntry, memory \in [Entries -> EntryType]
  PROVE  \E g \in Entries : own'[r] = g /\ New(g)
                            /\ \A e \in Entries \ {g} : mem'[e] = memory[e]
<1>1. PICK g \in Entries :
        /\ own' = [own EXCEPT ![r] = g]
        /\ mem' = [memory EXCEPT ![g] = [Free EXCEPT !.refs = 1, !.key = key[r]]]
  BY DEF Allocate
<1>2. own'[r] = g /\ own[r] # g
  BY <1>1, RequestCacheAssumption DEF TypeOK
<1> QED
  BY <1>1, <1>2 DEF New

(* Whose times change: an entry is filled by its maker, prolonged by a     *)
(* request that is to make another, or new.                                *)
LEMMA TimesStay ==
  ASSUME IInv, [Next]_vars, NEW e \in Entries, mem'[e].refs # 0
  PROVE  \/ SameTimes(e)
         \/ \E r \in Requests : Finalize(r) /\ own[r] = e
         \/ \E r \in Requests : /\ Prolong(r) /\ entry[r] = e
                                /\ mem'[e].expire = time[r] + entry_timeout_delay_
                                /\ mem'[e].saved = mem[e].saved
         \/ New(e)
<1> USE DEF IInv
<1>0. mem[e] \in EntryType
  BY DEF TypeOK
<1>1. CASE Tick \/ UNCHANGED vars
  BY <1>1 DEF Tick, vars, SameTimes
<1>2. ASSUME NEW r \in Requests, Come(r) PROVE SameTimes(e)
  BY <1>2 DEF Come, SameTimes
<1>3. ASSUME NEW r \in Requests, FindNothing(r) PROVE SameTimes(e) \/ New(e)
  <2>1. own[r] = NoEntry
    BY <1>3 DEF FindNothing, Places
  <2>2. \E g \in Entries : New(g) /\ \A f \in Entries \ {g} : mem'[f] = mem[f]
    BY <1>3, <2>1, AllocateTimes DEF FindNothing, TypeOK
  <2> QED
    BY <2>2 DEF SameTimes
<1>4. ASSUME NEW r \in Requests, Find(r) PROVE SameTimes(e)
  BY <1>0, <1>4 DEF Find, SameTimes, TypeOK, EntryType
<1>5. ASSUME NEW r \in Requests, Prolong(r)
      PROVE  \/ SameTimes(e)
             \/ /\ entry[r] = e
                /\ mem'[e].expire = time[r] + entry_timeout_delay_
                /\ mem'[e].saved = mem[e].saved
             \/ New(e)
  <2> DEFINE memory == [mem EXCEPT ![entry[r]].expire = time[r] + entry_timeout_delay_]
  <2>1. own[r] = NoEntry /\ time[r] + entry_timeout_delay_ \in Nat
    BY <1>5, RequestCacheAssumption DEF Prolong, Places, TypeOK, Times
  <2>2. memory \in [Entries -> EntryType]
    <3>1. entry[r] \in Entries /\ mem[entry[r]] \in EntryType
      BY <1>5, RequestCacheAssumption DEF Prolong, Places, TypeOK
    <3>2. memory = [mem EXCEPT ![entry[r]] =
                     [mem[entry[r]] EXCEPT !.expire = time[r] + entry_timeout_delay_]]
      BY <3>1 DEF TypeOK
    <3> QED
      BY <2>1, <3>1, <3>2 DEF TypeOK, EntryType
  <2>3. Allocate(r, memory)
    BY <1>5 DEF Prolong
  <2>4. \/ memory[e] = mem[e]
        \/ /\ entry[r] = e /\ memory[e].expire = time[r] + entry_timeout_delay_
           /\ memory[e].saved = mem[e].saved
    BY <1>0 DEF TypeOK, EntryType
  <2> HIDE DEF memory
  <2>5. PICK g \in Entries : New(g) /\ \A f \in Entries \ {g} : mem'[f] = memory[f]
    BY <2>1, <2>2, <2>3, AllocateTimes
  <2> QED
    BY <2>4, <2>5 DEF SameTimes
<1>6. ASSUME NEW r \in Requests, Purge(r) PROVE SameTimes(e)
  <2>1. PICK S : mem' = Without(S)
    BY <1>6 DEF Purge
  <2> QED
    BY <2>1, WithoutKeepsTimes
<1>7. ASSUME NEW r \in Requests, Drop(r) \/ Save(r) \/ Respond(r) PROVE SameTimes(e)
  BY <1>7, WithoutKeepsTimes DEF Drop, Save, Respond
<1>8. ASSUME NEW r \in Requests, Finalize(r) PROVE SameTimes(e) \/ own[r] = e
  BY <1>8 DEF Finalize, SameTimes, TypeOK
<1> QED
  BY <1>1, <1>2, <1>3, <1>4, <1>5, <1>6, <1>7, <1>8 DEF Next

(* Excuses last until the page is replaced: whoever ceases to make it has  *)
(* given it up.                                                            *)
LEMMA ExcusesLast ==
  ASSUME IInv, [Next]_vars, NEW k \in Keys, NEW t \in Nat, Excused(k, t),
         ~ \E r \in Requests : Save(r) /\ key[r] = k
  PROVE  Excused(k, t)'
<1> USE DEF IInv
<1>1. /\ gaveUp[k] \in Int /\ gaveUp'[k] \in Int
      /\ gaveUp'[k] = gaveUp[k] \/ \E r \in Requests : /\ Drop(r) /\ key[r] = k
                                                       /\ gaveUp[k] <= gaveUp'[k]
                                                       /\ gaveUp'[k] \in Nat
  <2>1. gaveUp[k] \in Int /\ \A r \in Requests : time[r] \in Nat
    BY DEF TypeOK, Times, Never
  <2>2. ASSUME NEW r \in Requests, Drop(r)
        PROVE  \/ gaveUp'[k] = gaveUp[k]
               \/ key[r] = k /\ gaveUp[k] < time[r] /\ gaveUp'[k] = time[r]
    BY <2>2 DEF Drop, TypeOK
  <2>3. CASE ~ \E r \in Requests : Drop(r)
    <3>1. gaveUp' = gaveUp
      BY <2>3 DEF Next, vars, Tick, Come, FindNothing, Find, Prolong, Purge, Finalize,
                  Save, Respond
    <3> QED
      BY <2>1, <3>1
  <2> QED
    BY <2>1, <2>2, <2>3
<1>2. CASE gaveUp[k] # Never /\ t < gaveUp[k] + entry_timeout_delay_
  BY <1>1, <1>2, RequestCacheAssumption DEF Excused, Never
<1>3. ASSUME NEW q \in Requests, own[q] # NoEntry, key[q] = k,
             t < time[q] + entry_timeout_delay_
      PROVE  Excused(k, t)'
  <2>1. at[q] \in {"purge", "make", "save"} /\ time[q] \in Nat
    BY <1>3 DEF Places, TypeOK, Times
  <2>2. CASE Drop(q)
    <3>1. gaveUp'[k] \in Nat /\ time[q] <= gaveUp'[k]
      BY <1>1, <1>3, <2>1, <2>2 DEF Drop, TypeOK
    <3> QED
      BY <1>3, <2>1, <3>1, RequestCacheAssumption DEF Excused, Never
  <2>3. CASE ~Drop(q)
    <3>1. own'[q] = own[q] /\ key'[q] = key[q] /\ time'[q] = time[q]
      BY <1>3, <2>1, <2>3, MakersStay
    <3> QED
      BY <1>3, <3>1 DEF Excused
  <2> QED
    BY <2>2, <2>3
<1> QED
  BY <1>2, <1>3 DEF Excused

-----------------------------------------------------------------------------
(* The entry of a key expires no later than its timeout after it was       *)
(* filled, unless there is an excuse for as long as it lasts.              *)
ExpiresInTime ==
  \A k \in Keys, t \in Nat :
    cache_map_[k] # NoEntry /\ t < mem[cache_map_[k]].expire
      => t < mem[cache_map_[k]].saved + timeout \/ Excused(k, t)

(* One that was just filled has its timeout before it. *)
JustFilled ==
  \A r \in Requests :
    at[r] = "save" => mem[own[r]].expire = mem[own[r]].saved + timeout

StaleInv == StaleOnlyInTheMeantime /\ ExpiresInTime /\ JustFilled

(* An entry in the map has a reference.                                    *)
MapLive ==
  \A k \in Keys : cache_map_[k] # NoEntry =>
    cache_map_[k] \in Entries /\ mem[cache_map_[k]].refs # 0

LEMMA InMapIsLive == IInv => MapLive
<1> SUFFICES ASSUME IInv, NEW k \in Keys, cache_map_[k] # NoEntry
             PROVE  cache_map_[k] \in Entries /\ mem[cache_map_[k]].refs # 0
  BY DEF MapLive
<1>1. cache_map_[k] \in Entries
  BY DEF IInv, TypeOK
<1> QED
  BY <1>1, HeldIsCounted

LEMMA KeepsJustFilled ==
  ASSUME JustFilled, IInv, IInv', EntriesLive', [Next]_vars
  PROVE  JustFilled'
<1> USE DEF IInv
<1> SUFFICES ASSUME NEW r \in Requests, at'[r] = "save"
             PROVE  mem'[own'[r]].expire = mem'[own'[r]].saved + timeout
  BY DEF JustFilled
<1> DEFINE e == own'[r]
<1>1. e \in Entries /\ e # NoEntry /\ mem'[e].refs > 0
  BY RequestCacheAssumption DEF Places, TypeOK, EntriesLive
<1>2. CASE Finalize(r)
  <2>1. e = own[r] /\ mem[e] \in EntryType
    BY <1>1, <1>2 DEF Finalize, TypeOK
  <2> QED
    BY <1>1, <1>2, <2>1 DEF Finalize, TypeOK, EntryType
<1>3. CASE ~Finalize(r)
  <2>1. at[r] = "save" /\ own[r] = e
    BY <1>3, SaversStay
  <2>2. \A q \in Requests \ {r} : own[q] # e /\ own'[q] # e
    BY <1>1, <2>1 DEF OwnAlone
  <2>3. \A q \in Requests : entry[q] # e
    BY <1>1, <2>1 DEF OwnAlone
  <2>4. ~New(e)
    BY <2>1, <2>2 DEF New
  <2>5. SameTimes(e)
    BY <1>1, <1>3, <2>2, <2>3, <2>4, TimesStay
  <2> QED
    BY <2>1, <2>5 DEF JustFilled, SameTimes
<1> QED
  BY <1>2, <1>3

LEMMA KeepsExpiresInTime ==
  ASSUME StaleInv, IInv, IInv', MapLive', [Next]_vars
  PROVE  ExpiresInTime'
<1> USE DEF IInv
<1> SUFFICES ASSUME NEW k \in Keys, NEW t \in Nat,
                    cache_map_'[k] # NoEntry, t < mem'[cache_map_'[k]].expire
             PROVE  \/ t < mem'[cache_map_'[k]].saved + timeout
                    \/ Excused(k, t)'
  BY DEF ExpiresInTime
<1> DEFINE e == cache_map_'[k]
<1>1. e \in Entries /\ mem'[e].refs # 0
  BY DEF MapLive
<1>2. \A q \in Requests : own'[q] # e
  BY <1>1, RequestCacheAssumption DEF OwnAlone
<1>3. ~New(e)
  BY <1>2 DEF New
<1>4. CASE \E r \in Requests : Save(r) /\ key[r] = k
  <2>1. PICK r \in Requests : Save(r) /\ key[r] = k
    BY <1>4
  <2>2. at[r] = "save" /\ own[r] = e
    BY <2>1 DEF Save, TypeOK
  <2>3. mem'[e].expire = mem'[e].saved + timeout
    <3>1. SameTimes(e)
      BY <1>1, <2>1, WithoutKeepsTimes DEF Save
    <3> QED
      BY <2>2, <3>1 DEF StaleInv, JustFilled, SameTimes
  <2> QED
    BY <2>3
<1>5. CASE ~ \E r \in Requests : Save(r) /\ key[r] = k
  <2>1. cache_map_[k] = e
    BY <1>1, <1>5, MapStays
  <2>2. \A q \in Requests : own[q] # e
    BY <1>1, <2>1, RequestCacheAssumption DEF OwnAlone
  <2>3. CASE SameTimes(e)
    <3>1. t < mem[e].saved + timeout \/ Excused(k, t)
      BY <1>1, <2>1, <2>3, RequestCacheAssumption
         DEF StaleInv, ExpiresInTime, SameTimes
    <3>2. Excused(k, t) => Excused(k, t)'
      BY <1>5, ExcusesLast
    <3> QED
      BY <2>3, <3>1, <3>2 DEF SameTimes
  <2>4. ASSUME NEW r \in Requests, Prolong(r), entry[r] = e,
               mem'[e].expire = time[r] + entry_timeout_delay_
        PROVE  Excused(k, t)'
    <3>1. key[r] = k
      BY <1>1, <2>1, <2>4, RequestCacheAssumption DEF Places, KeysAgree, Prolong
    <3>2. own'[r] # NoEntry /\ key'[r] = key[r] /\ time'[r] = time[r]
      BY <2>4, RequestCacheAssumption DEF Prolong, Allocate, TypeOK
    <3> QED
      BY <2>4, <3>1, <3>2 DEF Excused
  <2> QED
    BY <1>1, <1>3, <2>2, <2>3, <2>4, TimesStay
<1> QED
  BY <1>4, <1>5

LEMMA KeepsStale ==
  ASSUME StaleInv, IInv, IInv', EntriesLive', [Next]_vars
  PROVE  StaleOnlyInTheMeantime'
<1> USE DEF IInv
<1>0. ASSUME NEW r \in Requests, at'[r] = "respond"
      PROVE  /\ entry'[r] \in Entries /\ mem'[entry'[r]].refs # 0
             /\ key'[r] \in Keys /\ time'[r] \in Nat
  BY <1>0, RequestCacheAssumption DEF Places, TypeOK, Times, EntriesLive
<1> SUFFICES ASSUME NEW r \in Requests, at'[r] = "respond",
                    NEW e \in Entries, NEW k \in Keys, NEW t \in Nat,
                    e = entry'[r], k = key'[r], t = time'[r]
             PROVE  \/ t < mem'[e].saved + timeout
                    \/ cache_map_'[k] # e
                    \/ Excused(k, t)'
  BY <1>0 DEF StaleOnlyInTheMeantime, Excused
<1>1. mem'[e].refs # 0
  BY <1>0
<1>2. \A q \in Requests : own'[q] # e
  BY <1>1, RequestCacheAssumption DEF OwnAlone
<1>3. CASE Find(r)
  <2>1. /\ cache_map_' = cache_map_ /\ k = key[r] /\ t = time[r]
        /\ e = cache_map_[k] /\ t < mem[e].expire /\ e # NoEntry
    BY <1>1, <1>3, RespondersFind, RequestCacheAssumption
  <2>2. SameTimes(e)
    BY <1>1, <1>3, <2>1 DEF Find, SameTimes, TypeOK, EntryType
  <2>3. t < mem[e].saved + timeout \/ Excused(k, t)
    BY <1>1, <2>1 DEF StaleInv, ExpiresInTime
  <2>4. Excused(k, t) => Excused(k, t)'
    <3>1. ASSUME NEW q \in Requests PROVE ~Save(q)
      <4>1. at[r] = "find"
        BY <1>3 DEF Find
      <4>2. q # r /\ at[q] = "save" => at'[q] = "save"
        BY <1>3 DEF Find, Go, OnWithout, TypeOK
      <4>3. Save(q) => at[q] = "save" /\ at'[q] = "away"
        BY DEF Save, Leave, Go, TypeOK
      <4> QED
        BY <4>1, <4>2, <4>3
    <3> QED
      BY <1>1, <3>1, ExcusesLast
  <2> QED
    BY <2>2, <2>3, <2>4 DEF SameTimes
<1>4. CASE ~Find(r)
  <2>1. at[r] = "respond" /\ entry[r] = e /\ key[r] = k /\ time[r] = t
    BY <1>4, RespondersStay
  <2>2. \A q \in Requests : own[q] # e
    BY <1>1, <2>1, RequestCacheAssumption DEF OwnAlone
  <2>3. mem'[e].saved = mem[e].saved
    <3>1. ~New(e)
      BY <1>2 DEF New
    <3> QED
      BY <1>1, <2>2, <3>1, TimesStay DEF SameTimes
  <2>4. CASE \E q \in Requests : Save(q) /\ key[q] = k
    <3>1. PICK q \in Requests : Save(q) /\ key[q] = k
      BY <2>4
    <3>2. cache_map_'[k] = own[q]
      BY <1>1, <3>1 DEF Save, TypeOK
    <3> QED
      BY <2>2, <3>2
  <2>5. CASE ~ \E q \in Requests : Save(q) /\ key[q] = k
    <3>1. cache_map_'[k] = e => cache_map_[k] = e
      BY <2>5, MapStays, RequestCacheAssumption
    <3>2. Excused(k, t) => Excused(k, t)'
      BY <1>1, <2>5, ExcusesLast
    <3>3. \/ t < mem[e].saved + timeout
          \/ cache_map_[k] # e
          \/ Excused(k, t)
      BY <2>1 DEF StaleInv, StaleOnlyInTheMeantime
    <3> QED
      BY <2>3, <3>1, <3>2, <3>3
  <2> QED
    BY <2>4, <2>5
<1> QED
  BY <1>3, <1>4

(* A request gets a page older than its timeout only while another request *)
(* that came less than the delay before it, or after it, is making it      *)
(* again, or if it was replaced or purged since, or if such a request gave *)
(* up making it.                                                           *)
THEOREM StaleWhileRemade == Spec => []StaleOnlyInTheMeantime
<1>1. Init => StaleInv
  BY DEF Init, StaleInv, StaleOnlyInTheMeantime, ExpiresInTime, JustFilled
<1>2. StaleInv /\ IInv /\ IInv' /\ EntriesLive' /\ MapLive' /\ [Next]_vars
        => StaleInv'
  BY KeepsJustFilled, KeepsExpiresInTime, KeepsStale DEF StaleInv
<1>3. StaleInv => StaleOnlyInTheMeantime
  BY DEF StaleInv
<1> QED
  BY <1>1, <1>2, <1>3, InMapIsLive, CountsAreExact, EntriesAreLive, PTL DEF Spec

(* Nothing leaks: an entry is in memory only while it is the map's, is     *)
(* being filled, or is answered with; when no request is under way, the    *)
(* map's reference is its only one, and the map has it for one key         *)
(* (RefCount of RequestCache::Entry, through purge, replace and drop).     *)
NothingLeaks ==
  /\ \A e \in Entries :
       mem[e].refs > 0 => \/ \E k \in Keys : cache_map_[k] = e
                          \/ \E r \in Requests : \/ own[r] = e
                                                 \/ at[r] = "respond" /\ entry[r] = e
  /\ (\A r \in Requests : at[r] = "away") =>
       \A e \in Entries : mem[e].refs \in {0, 1}
  /\ \A j, k \in Keys : cache_map_[j] # NoEntry /\ cache_map_[j] = cache_map_[k] => j = k

THEOREM EntriesDoNotLeak == Spec => []NothingLeaks
<1>1. IInv => NothingLeaks
  <2> SUFFICES ASSUME IInv PROVE NothingLeaks
    OBVIOUS
  <2>1. ASSUME NEW e \in Entries, Responders(e) = {}
        PROVE  mem[e].refs = One(Owned(e)) + One(Mapped(e))
    <3>1. Cardinality(Responders(e)) = Cardinality({})
      BY <2>1
    <3>2. Cardinality(Responders(e)) = 0
      BY <3>1, FS_EmptySet
    <3>3. mem[e].refs = One(Owned(e)) + One(Mapped(e)) + Cardinality(Responders(e))
      BY DEF IInv, RefsExact
    <3>4. One(Owned(e)) \in {0, 1} /\ One(Mapped(e)) \in {0, 1}
      BY DEF One
    <3> QED  BY <3>2, <3>3, <3>4
  <2>2. ASSUME NEW e \in Entries, mem[e].refs > 0, ~Mapped(e), ~Owned(e)
        PROVE  Responders(e) # {}
    BY <2>1, <2>2 DEF One
  <2>3. ASSUME NEW e \in Entries, \A r \in Requests : at[r] = "away"
        PROVE  mem[e].refs \in {0, 1}
    <3>1. Responders(e) = {} /\ ~Owned(e)
      BY <2>3, RequestCacheAssumption DEF IInv, Places, Responders, Owned
    <3> QED  BY <2>1, <3>1 DEF One
  <2>4. ASSUME NEW j \in Keys, NEW k \in Keys, cache_map_[j] # NoEntry,
               cache_map_[j] = cache_map_[k]
        PROVE  j = k
    BY <2>4 DEF IInv, KeysAgree
  <2> QED  BY <2>2, <2>3, <2>4 DEF NothingLeaks, Mapped, Owned, Responders
<1> QED  BY <1>1, CountsAreExact, PTL
=============================================================================
