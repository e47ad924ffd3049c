-------------------------- MODULE ObjectCache_proofs --------------------------
(***************************************************************************)
(* Theorems about ObjectCache: for any threads and files, any number of    *)
(* calls and of changes, whatever stat64 tells of the versions, with or    *)
(* without included files and a review period.                             *)
(***************************************************************************)
EXTENDS ObjectCache, SequenceTheorems, TLAPS

Places ==
  {"idle", "first", "reviewed", "object", "second", "object2", "new", "new_write",
   "new_publish", "lock", "open", "stat", "read", "returned", "answered", "thrown",
   "unexpected"}

(* Where a thread has a holder of its file in hand, loads it, has its lock. *)
InHand ==
  {"reviewed", "object", "object2", "lock", "open", "stat", "read", "returned"}
Loads == {"lock", "open", "stat", "read"}
Locks == {"open", "stat", "read"}

Versions == 0 .. 1 + MaxChanges
Holder ==
  [file : Files, number : Nat, state_ : {"loading", "loaded", "not_found", "loading_error"},
   lockedBy : Threads \union {NobodyHolds}, modified_ : Versions, content : Versions,
   included : Versions]
Content == [version : Nat, included : Nat]

Typed ==
  /\ changes \in 0 .. MaxChanges /\ sequence_number_ \in Nat
  /\ disk \in [Files -> [present : BOOLEAN, version : 1 .. 1 + changes,
                         included : 1 .. 1 + changes]]
  /\ ~Includes => \A f \in Files : disk[f].included = 1
  /\ holders \in Seq(Holder)
  /\ objects_ \in [Files -> 0 .. Len(holders)]
  /\ disturbed \subseteq Files
  /\ at \in [Threads -> Places]
  /\ file \in [Threads -> Files \union {NoFile}]
  /\ holder \in [Threads -> 0 .. Len(holders)]
  /\ number \in [Threads -> Nat]
  /\ since \in [Threads -> Content] /\ got \in [Threads -> Content]

(* A holder is of the file it is kept for, and only its loader loads it and *)
(* has its lock.                                                           *)
Loaders ==
  /\ \A f \in Files : objects_[f] # 0 => holders[objects_[f]].file = f
  /\ \A t \in Threads : at[t] # "idle" => file[t] \in Files
  /\ \A t \in Threads : at[t] \in InHand =>
       /\ holder[t] # 0 /\ holders[holder[t]].file = file[t]
       /\ holders[holder[t]].state_ = "loading" <=> at[t] \in Loads
       /\ at[t] \in {"object", "object2", "returned"} => holders[holder[t]].state_ = "loaded"
       /\ at[t] \in Locks => holders[holder[t]].lockedBy = t
  /\ \A t, u \in Threads : at[t] \in Loads /\ at[u] \in Loads /\ holder[t] = holder[u] => t = u
  /\ \A h \in DOMAIN holders : holders[h].lockedBy # NobodyHolds =>
       /\ holder[holders[h].lockedBy] = h
       /\ at[holders[h].lockedBy] \in Locks

(* To stat64 the object t has in hand looks like one made of a version the *)
(* disk has had since t called get(), and so do the files it includes.     *)
OwnNew(t) == LooksNew(Stat[file[t]], holders[holder[t]].modified_,
                      since[t].version, disk[file[t]].version)
GotNew(t) == LooksNew(IncludedStat[file[t]], got[t].included,
                      since[t].included, disk[file[t]].included)

(* No version is newer than the disk's.  What a thread loads is not older  *)
(* than what was on the disk when it called get(); what it found, or got,  *)
(* was loaded since, or looks as if.                                       *)
Current ==
  /\ \A h \in DOMAIN holders :
       /\ holders[h].modified_ <= disk[holders[h].file].version
       /\ holders[h].state_ = "loaded" =>
            /\ holders[h].modified_ # 0 /\ holders[h].modified_ <= holders[h].content
            /\ holders[h].included # 0
       /\ ~disk[holders[h].file].present =>
            holders[h].modified_ < disk[holders[h].file].version
  /\ \A t \in Threads :
       /\ at[t] # "idle" => /\ since[t].version <= disk[file[t]].version
                            /\ since[t].included <= disk[file[t]].included
       /\ at[t] = "read" => /\ holders[holder[t]].modified_ # 0
                            /\ since[t].version <= holders[holder[t]].modified_
       /\ at[t] \in {"object", "object2", "returned"} => OwnNew(t)
       /\ at[t] = "returned" => /\ got[t].version = holders[holder[t]].content
                                /\ got[t].included = holders[holder[t]].included
                                /\ since[t].included <= got[t].included \/ GotNew(t)

(* The holders of a file that was not disturbed are in the order of the    *)
(* versions they have, and the map has the last one.                       *)
InOrder ==
  \A h \in DOMAIN holders : holders[h].file \notin disturbed =>
    /\ h <= objects_[holders[h].file]
    /\ h # objects_[holders[h].file] =>
         /\ holders[h].state_ # "loading"
         /\ holders[h].state_ = "loaded" =>
              holders[h].modified_ < disk[holders[h].file].version
    /\ holders[h].state_ = "loaded" =>
         \A j \in DOMAIN holders :
           h < j /\ holders[j].file = holders[h].file /\ holders[j].modified_ # 0
             => holders[h].modified_ < holders[j].modified_

IInv == Typed /\ Loaders /\ Current /\ InOrder
-----------------------------------------------------------------------------

LEMMA InitIInv == Init => IInv
<1> SUFFICES ASSUME Init PROVE IInv
  OBVIOUS
<1>1. Typed
  BY CacheAssumption DEF Init, Typed, Places, Content, Nothing
<1>2. DOMAIN holders = {}
  BY DEF Init
<1>3. Loaders /\ Current /\ InOrder
  BY <1>2 DEF Init, Loaders, Current, InOrder, InHand, Loads, Locks
<1> QED  BY <1>1, <1>3 DEF IInv

(* A thread's holder, where it has one in hand. *)
LEMMA HolderOf ==
  ASSUME Typed, Loaders, NEW t \in Threads, at[t] \in InHand
  PROVE  /\ holder[t] \in DOMAIN holders /\ holders[holder[t]] \in Holder
         /\ holders[holder[t]].file = file[t] /\ file[t] \in Files
         /\ Mine(t) = holders[holder[t]]
BY DEF Typed, Loaders, InHand, Mine

LEMMA HolderIn ==
  ASSUME Typed, NEW h \in DOMAIN holders
  PROVE  /\ holders[h] \in Holder /\ h \in 1 .. Len(holders)
         /\ holders[h].file \in Files /\ holders[h].modified_ \in Nat
         /\ holders[h].lockedBy \in Threads \union {NobodyHolds}
<1>1. holders \in Seq(Holder)
  BY DEF Typed
<1>2. holders[h] \in Holder /\ h \in 1 .. Len(holders)
  BY <1>1
<1> QED  BY <1>2, CacheAssumption DEF Holder, Versions

-----------------------------------------------------------------------------
(* Every step leaves the variables in their types. *)
LEMMA LookTyped ==
  ASSUME Typed, Loaders, NEW t \in Threads,
         \/ Get(t) \/ FirstLook(t) \/ ObjectReviewed(t) \/ Object(t)
         \/ NewRead(t) \/ NewWrite(t) \/ LoadOpen(t) \/ Return(t)
  PROVE  Typed'
<1> USE DEF cacheVars, threadVars, bounds, Places
<1>1. CASE Get(t)
  <2>1. PICK f \in Files :
          /\ file' = [file EXCEPT ![t] = f]
          /\ since' = [since EXCEPT ![t] = [version |-> disk[f].version,
                                           included |-> disk[f].included]]
    BY <1>1 DEF Get
  <2>2. [version |-> disk[f].version, included |-> disk[f].included] \in Content
    BY DEF Typed, Content
  <2>3. since' \in [Threads -> Content] /\ file' \in [Threads -> Files \union {NoFile}]
    BY <2>1, <2>2 DEF Typed
  <2>4. /\ UNCHANGED <<disk, cacheVars, holder, number, got, disturbed, changes>>
        /\ at' = [at EXCEPT ![t] = "first"]
    BY <1>1 DEF Get
  <2> QED  BY <2>3, <2>4 DEF Typed
<1>2. CASE FirstLook(t)
  <2>1. file[t] \in Files /\ objects_[file[t]] \in 0 .. Len(holders)
    BY <1>2 DEF FirstLook, Typed, Loaders
  <2>2. holder' \in [Threads -> 0 .. Len(holders)] /\ \E place \in Places : at' = [at EXCEPT ![t] = place]
    BY <1>2, <2>1 DEF FirstLook, Typed
  <2>3. UNCHANGED <<disk, cacheVars, file, number, got, since, disturbed, bounds>>
    BY <1>2 DEF FirstLook
  <2> QED  BY <2>2, <2>3 DEF Typed
<1>3. CASE ObjectReviewed(t)
  BY <1>3 DEF ObjectReviewed, Typed
<1>4. CASE Object(t)
  <2>1. at[t] \in InHand
    BY <1>4 DEF Object, InHand
  <2>2. [version |-> Mine(t).content, included |-> Mine(t).included] \in Content
    BY <2>1, HolderOf, CacheAssumption DEF Content, Holder, Versions
  <2>3. /\ UNCHANGED <<disk, cacheVars, file, holder, number, since, disturbed, bounds>>
        /\ at' \in [Threads -> Places] /\ got' \in [Threads -> Content]
    BY ZenonT(40), <1>4, <2>2 DEF Object, Typed
  <2> QED  BY <2>3 DEF Typed
<1>5. CASE NewRead(t)
  BY <1>5 DEF NewRead, Typed
<1>6. CASE NewWrite(t)
  BY SMTT(30), <1>6 DEF NewWrite, Typed
<1>7. CASE LoadOpen(t)
  BY <1>7 DEF LoadOpen, Typed
<1>8. CASE Return(t)
  BY SMTT(30), <1>8 DEF Return, Typed, Nothing, Content
<1> QED  BY <1>1, <1>2, <1>3, <1>4, <1>5, <1>6, <1>7, <1>8

LEMMA DropTyped ==
  ASSUME Typed, (\E t \in Threads : Expire(t)) \/ Erase
  PROVE  Typed'
BY DEF Expire, Erase, Typed, cacheVars, threadVars, bounds

LEMMA ChangeTyped ==
  ASSUME Typed, NEW f \in Files, Change(f)
  PROVE  /\ Typed'
         /\ \A g \in Files : /\ disk[g].version <= disk'[g].version
                             /\ disk[g].included <= disk'[g].included
                             /\ disk[g].present # disk'[g].present =>
                                  disk[g].version < disk'[g].version
<1>1. PICK p \in BOOLEAN, v \in Nat, n \in Nat :
        /\ disk' = [disk EXCEPT ![f] = [present |-> p, version |-> v, included |-> n]]
        /\ v \in {disk[f].version, disk[f].version + 1}
        /\ n \in {disk[f].included, disk[f].included + 1}
        /\ p # disk[f].present => v = disk[f].version + 1
        /\ ~Includes => n = disk[f].included
  <2> DEFINE d == disk[f]
  <2>1. /\ d = [present |-> d.present, version |-> d.version, included |-> d.included]
        /\ d.present \in BOOLEAN /\ d.version \in Nat /\ d.included \in Nat
    BY DEF Typed
  <2>2. ASSUME NEW q \in BOOLEAN,
               disk' = [disk EXCEPT ![f] = [d EXCEPT !.version = d.version + 1, !.present = q]]
        PROVE  disk' = [disk EXCEPT ![f] = [present |-> q, version |-> d.version + 1,
                                            included |-> d.included]]
    <3>1. [d EXCEPT !.version = d.version + 1, !.present = q]
            = [present |-> q, version |-> d.version + 1, included |-> d.included]
      <4> DEFINE e == [d EXCEPT !.version = d.version + 1]
      <4>1. e = [present |-> d.present, version |-> d.version + 1, included |-> d.included]
        BY <2>1
      <4> HIDE DEF e
      <4>2. [e EXCEPT !.present = q]
              = [present |-> q, version |-> d.version + 1, included |-> d.included]
        BY <4>1
      <4> QED  BY <4>2 DEF e
    <3> QED  BY <2>2, <3>1
  <2>3. ASSUME disk' = [disk EXCEPT ![f] = [d EXCEPT !.included = d.included + 1]]
        PROVE  disk' = [disk EXCEPT ![f] = [present |-> d.present, version |-> d.version,
                                            included |-> d.included + 1]]
    <3>1. [d EXCEPT !.included = d.included + 1]
            = [present |-> d.present, version |-> d.version, included |-> d.included + 1]
      BY <2>1
    <3> QED  BY <2>3, <3>1
  <2>4. \/ \E q \in BOOLEAN :
             disk' = [disk EXCEPT ![f] = [d EXCEPT !.version = d.version + 1, !.present = q]]
        \/ Includes /\ disk' = [disk EXCEPT ![f] = [d EXCEPT !.included = d.included + 1]]
    BY DEF Change
  <2> HIDE DEF d
  <2>5. CASE \E q \in BOOLEAN :
               disk' = [disk EXCEPT ![f] = [d EXCEPT !.version = d.version + 1, !.present = q]]
    <3>1. PICK q \in BOOLEAN :
               disk' = [disk EXCEPT ![f] = [d EXCEPT !.version = d.version + 1, !.present = q]]
      BY <2>5
    <3>2. d.version + 1 \in Nat /\ d.included \in Nat
      BY <2>1
    <3> QED  BY <2>2, <3>1, <3>2 DEF d
  <2>6. CASE Includes /\ disk' = [disk EXCEPT ![f] = [d EXCEPT !.included = d.included + 1]]
    <3>2. d.version \in Nat /\ d.included + 1 \in Nat /\ d.present \in BOOLEAN
      BY <2>1
    <3> QED  BY <2>3, <2>6, <3>2 DEF d
  <2> QED  BY <2>4, <2>5, <2>6
<1>2. changes < MaxChanges /\ changes' = changes + 1
  BY DEF Change
<1>3. disk' \in [Files -> [present : BOOLEAN, version : 1 .. 1 + changes',
                           included : 1 .. 1 + changes']]
  BY <1>1, <1>2 DEF Typed
<1>4. UNCHANGED <<cacheVars, threadVars, disturbed, gets>>
  BY DEF Change
<1>5. changes' \in 0 .. MaxChanges /\ (~Includes => \A g \in Files : disk'[g].included = 1)
  BY <1>1, <1>2, CacheAssumption DEF Typed
<1>6. Typed'
  BY <1>3, <1>4, <1>5 DEF Typed, cacheVars, threadVars
<1>7. ASSUME NEW g \in Files
      PROVE  /\ disk[g].version <= disk'[g].version
             /\ disk[g].included <= disk'[g].included
             /\ disk[g].present # disk'[g].present => disk[g].version < disk'[g].version
  <2>2. disk[g].version \in Nat /\ disk[g].included \in Nat
    BY DEF Typed
  <2>3. CASE g = f
    <3>1. disk'[f] = [present |-> p, version |-> v, included |-> n]
      BY <1>1 DEF Typed
    <3> QED  BY <1>1, <2>2, <2>3, <3>1
  <2>4. CASE g # f
    <3>1. disk'[g] = disk[g]
      BY <1>1, <2>4 DEF Typed
    <3> QED  BY <2>2, <3>1
  <2> QED  BY <2>3, <2>4
<1> QED  BY <1>6, <1>7

(* A new holder goes to the end. *)
LEMMA NewHolderAppended ==
  ASSUME Typed, NEW f \in Files, NEW n \in Nat, NEW l \in Threads \union {NobodyHolds},
         holders' = Append(holders, NewHolder(f, n, l))
  PROVE  /\ holders' \in Seq(Holder) /\ Len(holders') = Len(holders) + 1
         /\ DOMAIN holders' = (DOMAIN holders) \union {Len(holders')}
         /\ Len(holders') \notin DOMAIN holders /\ Len(holders') \in Nat \ {0}
         /\ \A h \in DOMAIN holders : holders'[h] = holders[h]
         /\ holders'[Len(holders')] = NewHolder(f, n, l)
<1>1. NewHolder(f, n, l) \in Holder
  BY CacheAssumption DEF NewHolder, Holder, Versions
<1>2. holders \in Seq(Holder)
  BY DEF Typed
<1> QED  BY <1>1, <1>2

LEMMA NewTyped ==
  ASSUME Typed, Loaders, NEW t \in Threads, SecondLook(t) \/ NewPublish(t)
  PROVE  Typed'
<1> USE DEF cacheVars, threadVars, bounds, Places
<1>1. file[t] \in Files
  BY DEF SecondLook, NewPublish, Loaders
<1>2. ASSUME NEW n \in Nat, NEW l \in Threads \union {NobodyHolds}, NEW place \in Places,
             holders' = Append(holders, NewHolder(file[t], n, l)),
             objects_' = [objects_ EXCEPT ![file[t]] = Len(holders')],
             holder' = [holder EXCEPT ![t] = Len(holders')],
             at' = [at EXCEPT ![t] = place],
             sequence_number_' \in Nat, disturbed' \subseteq Files,
             UNCHANGED <<disk, file, number, got, since, bounds>>
      PROVE  Typed'
  <2>1. holders' \in Seq(Holder) /\ Len(holders') = Len(holders) + 1
    BY <1>1, <1>2, NewHolderAppended
  <2>2. objects_' \in [Files -> 0 .. Len(holders')] /\ holder' \in [Threads -> 0 .. Len(holders')]
    BY SMTT(30), <1>1, <1>2, <2>1 DEF Typed
  <2> QED  BY <1>2, <2>1, <2>2 DEF Typed
<1>3. CASE SecondLook(t) /\ UNCHANGED cacheVars
  <2>1. \E place \in Places : at' = [at EXCEPT ![t] = place]
    BY <1>3 DEF SecondLook, Typed
  <2>2. holder' \in [Threads -> 0 .. Len(holders)]
    <3>1. objects_[file[t]] \in 0 .. Len(holders)
      BY <1>1 DEF Typed
    <3>2. sequence_number_ # sequence_number_ + 1
      BY DEF Typed
    <3>3. holder' = [holder EXCEPT ![t] = objects_[file[t]]]
      BY <1>3, <3>2 DEF SecondLook
    <3> QED  BY <3>1, <3>3 DEF Typed
  <2>3. UNCHANGED <<disk, file, number, got, since, disturbed, bounds, cacheVars>>
    BY <1>3 DEF SecondLook
  <2> QED  BY ZenonT(40), <2>1, <2>2, <2>3 DEF Typed
<1>4. CASE SecondLook(t) /\ holders' = Append(holders, NewHolder(file[t], sequence_number_, t))
  <2>1. /\ sequence_number_ \in Nat /\ disturbed \subseteq Files
        /\ UNCHANGED <<disk, file, number, got, since, disturbed, bounds>>
    BY <1>4 DEF SecondLook, Typed
  <2>2. CASE /\ objects_' = [objects_ EXCEPT ![file[t]] = Len(holders')]
             /\ sequence_number_' = sequence_number_ + 1
             /\ holder' = [holder EXCEPT ![t] = Len(holders')]
             /\ at' = [at EXCEPT ![t] = "open"]
    BY <1>2, <1>4, <2>1, <2>2
  <2> QED  BY <1>3, <1>4, <2>2 DEF SecondLook
<1>5. CASE NewPublish(t)
  <2>1. number[t] \in Nat /\ sequence_number_ \in Nat /\ disturbed' \subseteq Files
    BY <1>1, <1>5 DEF NewPublish, Typed
  <2> QED  BY <1>2, <1>5, <2>1 DEF NewPublish
<1> QED  BY <1>3, <1>4, <1>5 DEF SecondLook


(* A holder is changed by its loader.  What an assignment of a member does *)
(* to a holder's type ...                                                  *)
LEMMA Assigned ==
  ASSUME NEW r \in Holder
  PROVE  /\ \A v \in {"loading", "loaded", "not_found", "loading_error"} :
              [r EXCEPT !.state_ = v] \in Holder
         /\ \A v \in Threads \union {NobodyHolds} : [r EXCEPT !.lockedBy = v] \in Holder
         /\ \A v \in Versions : /\ [r EXCEPT !.modified_ = v] \in Holder
                                /\ [r EXCEPT !.content = v] \in Holder
                                /\ [r EXCEPT !.included = v] \in Holder
BY DEF Holder

(* ... and what the steps of the load do. *)
Became(t, r, place) ==
  /\ holders' = [holders EXCEPT ![holder[t]] = r]
  /\ r.file = holders[holder[t]].file
  /\ at' = [at EXCEPT ![t] = place]
  /\ UNCHANGED <<disk, objects_, sequence_number_, file, holder, number, since, disturbed,
                 bounds>>

Locked(t, r, place) ==
  /\ at[t] = "lock" /\ place = "open" /\ got' = got
  /\ holders[holder[t]].lockedBy = NobodyHolds /\ r.lockedBy = t
  /\ r.state_ = "loading" /\ r.modified_ = holders[holder[t]].modified_

Failed(t, r, place) ==
  /\ at[t] \in Locks /\ place = "thrown" /\ got' = got
  /\ r.lockedBy = NobodyHolds
  /\ r.state_ \in {"not_found", "loading_error"} /\ r.modified_ = holders[holder[t]].modified_

Stated(t, r, place) ==
  /\ at[t] = "stat" /\ place = "read" /\ got' = got
  /\ disk[file[t]].present
  /\ r.lockedBy = t /\ r.state_ = "loading" /\ r.modified_ = disk[file[t]].version

Loaded(t, r, place) ==
  /\ at[t] = "read" /\ place = "returned"
  /\ got' = [got EXCEPT ![t] = [version |-> r.content, included |-> r.included]]
  /\ r.lockedBy = NobodyHolds /\ r.state_ = "loaded"
  /\ r.modified_ = holders[holder[t]].modified_
  /\ r.modified_ <= r.content /\ r.included = disk[file[t]].included

LEMMA LoadDoes ==
  ASSUME Typed, Loaders, NEW t \in Threads,
         LoadLock(t) \/ LoadFails(t) \/ LoadStat(t) \/ LoadRead(t)
  PROVE  \E r \in Holder, place \in Places :
           /\ Became(t, r, place)
           /\ \/ Locked(t, r, place) \/ Failed(t, r, place)
              \/ Stated(t, r, place) \/ Loaded(t, r, place)
<1> USE DEF bounds, Places, Became
<1> DEFINE h == holder[t]
<1>1. /\ h \in DOMAIN holders /\ holders[h] \in Holder /\ file[t] \in Files
      /\ at[t] \in Locks => holders[h].lockedBy = t
      /\ holders[h].state_ = "loading"
  BY HolderOf DEF LoadLock, LoadFails, LoadStat, LoadRead, InHand, Loaders, Loads, Locks
<1>2. disk[file[t]].version \in Versions /\ disk[file[t]].included \in Versions
  BY <1>1, CacheAssumption DEF Typed, Versions
<1>3. CASE LoadLock(t)
  <2> DEFINE r == [holders[h] EXCEPT !.lockedBy = t]
  <2>1. r \in Holder
    BY <1>1, Assigned
  <2>2. holders' = [holders EXCEPT ![h] = r]
    BY <1>1, <1>3, Zenon DEF LoadLock
  <2>3. /\ r.file = holders[h].file /\ r.lockedBy = t /\ r.state_ = "loading"
        /\ r.modified_ = holders[h].modified_
    BY <1>1 DEF Holder
  <2> QED  BY <1>3, <2>1, <2>2, <2>3 DEF LoadLock, Locked, Unlocked
<1>4. CASE LoadFails(t)
  <2> DEFINE q == [holders[h] EXCEPT !.state_ = "not_found"]
             r == [q EXCEPT !.lockedBy = NobodyHolds]
  <2>1. /\ q \in Holder /\ q.file = holders[h].file /\ q.state_ = "not_found"
        /\ q.modified_ = holders[h].modified_
    BY <1>1, Assigned DEF Holder
  <2>2. holders' = [holders EXCEPT ![h] = r]
    BY <1>1, <1>4, Zenon DEF LoadFails
  <2> HIDE DEF q
  <2>3. /\ r \in Holder /\ r.file = holders[h].file /\ r.state_ = "not_found"
        /\ r.modified_ = holders[h].modified_ /\ r.lockedBy = NobodyHolds
    BY <2>1, Assigned DEF Holder
  <2> HIDE DEF r
  <2> QED  BY <1>4, <2>2, <2>3 DEF LoadFails, Failed, Locks
<1>5. CASE LoadStat(t)
  <2> DEFINE r == [holders[h] EXCEPT !.modified_ = disk[file[t]].version]
  <2>1. r \in Holder
    BY <1>1, <1>2, Assigned
  <2>2. holders' = [holders EXCEPT ![h] = r]
    BY <1>1, <1>5, Zenon DEF LoadStat
  <2>3. /\ r.file = holders[h].file /\ r.lockedBy = t /\ r.state_ = "loading"
        /\ r.modified_ = disk[file[t]].version
    BY <1>1, <1>5 DEF Holder, LoadStat, Locks
  <2> QED  BY <1>5, <2>1, <2>2, <2>3 DEF LoadStat, Stated
<1> DEFINE c(v) == [version |-> v, included |-> disk[file[t]].included]
<1>6. ASSUME NEW v \in Mine(t).modified_ .. disk[file[t]].version, at[t] = "read",
             holders' = [holders EXCEPT ![h].content = c(v).version,
                                        ![h].included = c(v).included,
                                        ![h].state_ = "loaded",
                                        ![h].lockedBy = NobodyHolds],
             got' = [got EXCEPT ![t] = c(v)],
             at' = [at EXCEPT ![t] = "returned"],
             UNCHANGED <<disk, objects_, sequence_number_, file, holder, number, since,
                         disturbed, bounds>>
      PROVE  \E r \in Holder, place \in Places : Became(t, r, place) /\ Loaded(t, r, place)
  <2> DEFINE n == disk[file[t]].included
             r1 == [holders[h] EXCEPT !.content = v]
             r2 == [r1 EXCEPT !.included = n]
             r3 == [r2 EXCEPT !.state_ = "loaded"]
             r == [r3 EXCEPT !.lockedBy = NobodyHolds]
  <2>1. v \in Versions /\ n \in Versions /\ holders[h].modified_ <= v
    <3>1. holders[h].modified_ \in Versions /\ v \in holders[h].modified_ .. disk[file[t]].version
      BY <1>1, <1>6 DEF Mine, Holder
    <3> QED  BY <1>2, <3>1, CacheAssumption DEF Versions
  <2>2. holders' = [holders EXCEPT ![h] = r]
    <3>1. c(v).version = v /\ c(v).included = n
      OBVIOUS
    <3> HIDE DEF c, n
    <3> QED  BY <1>1, <1>6, <3>1, Zenon
  <2> HIDE DEF n
  <2>3. /\ r1 \in Holder /\ r1.file = holders[h].file /\ r1.modified_ = holders[h].modified_
        /\ r1.content = v
    BY <1>1, <2>1, Assigned DEF Holder
  <2> HIDE DEF r1
  <2>4. /\ r2 \in Holder /\ r2.file = holders[h].file /\ r2.modified_ = holders[h].modified_
        /\ r2.content = v /\ r2.included = n
    BY <2>1, <2>3, Assigned DEF Holder
  <2> HIDE DEF r2
  <2>5. /\ r3 \in Holder /\ r3.file = holders[h].file /\ r3.modified_ = holders[h].modified_
        /\ r3.content = v /\ r3.included = n /\ r3.state_ = "loaded"
    BY <2>4, Assigned DEF Holder
  <2> HIDE DEF r3
  <2>6. /\ r \in Holder /\ r.file = holders[h].file /\ r.modified_ = holders[h].modified_
        /\ r.content = v /\ r.included = n /\ r.state_ = "loaded" /\ r.lockedBy = NobodyHolds
    BY <2>5, Assigned DEF Holder
  <2> HIDE DEF r
  <2>7. got' = [got EXCEPT ![t] = [version |-> r.content, included |-> r.included]]
    BY <1>6, <2>6 DEF n
  <2>8. Loaded(t, r, "returned")
    BY <1>6, <2>1, <2>6, <2>7 DEF Loaded, n
  <2> QED  BY <1>6, <2>2, <2>6, <2>8
<1>7. CASE LoadRead(t) /\ got' = got /\ at' = [at EXCEPT ![t] = "thrown"]
           /\ holders' = [holders EXCEPT ![h].state_ = "loading_error",
                                         ![h].lockedBy = NobodyHolds]
  <2> DEFINE q == [holders[h] EXCEPT !.state_ = "loading_error"]
             r == [q EXCEPT !.lockedBy = NobodyHolds]
  <2>1. /\ q \in Holder /\ q.file = holders[h].file /\ q.state_ = "loading_error"
        /\ q.modified_ = holders[h].modified_
    BY <1>1, Assigned DEF Holder
  <2>2. holders' = [holders EXCEPT ![h] = r]
    BY <1>1, <1>7, Zenon
  <2> HIDE DEF q
  <2>3. /\ r \in Holder /\ r.file = holders[h].file /\ r.state_ = "loading_error"
        /\ r.modified_ = holders[h].modified_ /\ r.lockedBy = NobodyHolds
    BY <2>1, Assigned DEF Holder
  <2> HIDE DEF r
  <2> QED  BY <1>7, <2>2, <2>3 DEF LoadRead, Failed, Locks
<1>8. CASE LoadRead(t)
  <2>1. /\ at[t] = "read"
        /\ UNCHANGED <<disk, objects_, sequence_number_, file, holder, number, since,
                       disturbed, bounds>>
        /\ \/ \E v \in Mine(t).modified_ .. disk[file[t]].version :
                /\ holders' = [holders EXCEPT ![h].content = c(v).version,
                                              ![h].included = c(v).included,
                                              ![h].state_ = "loaded",
                                              ![h].lockedBy = NobodyHolds]
                /\ got' = [got EXCEPT ![t] = c(v)]
                /\ at' = [at EXCEPT ![t] = "returned"]
           \/ /\ holders' = [holders EXCEPT ![h].state_ = "loading_error",
                                            ![h].lockedBy = NobodyHolds]
              /\ at' = [at EXCEPT ![t] = "thrown"]
              /\ got' = got
    BY <1>8, Zenon DEF LoadRead
  <2> HIDE DEF c
  <2> QED  BY ZenonT(40), <1>6, <1>7, <1>8, <2>1
<1> QED  BY <1>3, <1>4, <1>5, <1>8


LEMMA LoadTyped ==
  ASSUME Typed, Loaders, NEW t \in Threads,
         LoadLock(t) \/ LoadFails(t) \/ LoadStat(t) \/ LoadRead(t)
  PROVE  Typed'
<1>1. PICK r \in Holder, place \in Places :
        /\ Became(t, r, place)
        /\ \/ Locked(t, r, place) \/ Failed(t, r, place)
           \/ Stated(t, r, place) \/ Loaded(t, r, place)
  BY LoadDoes
<1>2. holders' \in Seq(Holder) /\ Len(holders') = Len(holders)
  <2>1. \E n \in 1 .. Len(holders) : holders' = [holders EXCEPT ![n] = r]
    BY <1>1, HolderIn, HolderOf
       DEF Became, Locked, Failed, Stated, Loaded, InHand, Locks
  <2> QED  BY <2>1, ExceptSeq DEF Typed
<1>3. at' \in [Threads -> Places]
  BY <1>1 DEF Typed, Became
<1>4. got' \in [Threads -> Content]
  <2>1. [version |-> r.content, included |-> r.included] \in Content
    BY CacheAssumption DEF Holder, Versions, Content
  <2> QED  BY <1>1, <2>1 DEF Typed, Locked, Failed, Stated, Loaded
<1> QED  BY <1>1, <1>2, <1>3, <1>4 DEF Typed, Became, bounds

-----------------------------------------------------------------------------
(* What the invariant says of one thread. *)
Minds(t) ==
  /\ at[t] # "idle" => /\ file[t] \in Files
                       /\ since[t].version <= disk[file[t]].version
                       /\ since[t].included <= disk[file[t]].included
  /\ at[t] \in InHand =>
       /\ holder[t] # 0 /\ holders[holder[t]].file = file[t]
       /\ holders[holder[t]].state_ = "loading" <=> at[t] \in Loads
       /\ at[t] \in {"object", "object2", "returned"} => holders[holder[t]].state_ = "loaded"
       /\ at[t] \in Locks => holders[holder[t]].lockedBy = t
  /\ at[t] = "read" => /\ holders[holder[t]].modified_ # 0
                       /\ since[t].version <= holders[holder[t]].modified_
  /\ at[t] \in {"object", "object2", "returned"} => OwnNew(t)
  /\ at[t] = "returned" => /\ got[t].version = holders[holder[t]].content
                           /\ got[t].included = holders[holder[t]].included
                           /\ since[t].included <= got[t].included \/ GotNew(t)

(* What looks like the version on the disk looks like one of late, and     *)
(* goes on doing so as the disk changes.                                   *)
LEMMA LooksLikeNow ==
  ASSUME NEW stat, NEW v, NEW from \in Nat, NEW now \in Nat, from <= now,
         stat[v] = stat[now]
  PROVE  LooksNew(stat, v, from, now)
BY DEF LooksNew

LEMMA StillLooksNew ==
  ASSUME NEW stat, NEW v, NEW from \in Nat, NEW now \in Nat, NEW later \in Nat,
         now <= later, LooksNew(stat, v, from, now)
  PROVE  LooksNew(stat, v, from, later)
<1>1. PICK u \in from .. now : stat[v] = stat[u]
  BY DEF LooksNew
<1> QED  BY <1>1 DEF LooksNew

LEMMA AllMind ==
  ASSUME Loaders, Current
  PROVE  \A t \in Threads : Minds(t)
BY DEF Loaders, Current, Minds

(* A step that only moves one thread. *)
LEMMA MovedKept ==
  ASSUME Typed, Loaders, Current, InOrder, NEW t \in Threads,
         UNCHANGED <<disk, holders, objects_, disturbed>>,
         \A u \in Threads : u # t =>
           /\ at'[u] = at[u] /\ file'[u] = file[u] /\ holder'[u] = holder[u]
           /\ since'[u] = since[u] /\ got'[u] = got[u],
         at[t] \in Loads \/ at'[t] \in Loads =>
           /\ at[t] \in Loads /\ holder'[t] = holder[t]
           /\ at[t] \in Locks => at'[t] \in Locks,
         Minds(t)'
  PROVE  Loaders' /\ Current' /\ InOrder'
<1>1. \A u \in Threads : Minds(u)'
  <2>1. \A u \in Threads : u # t => Minds(u)'
    BY AllMind DEF Minds, OwnNew, GotNew
  <2> QED  BY <2>1
<1>2. \A u \in Threads : at'[u] \in Loads => at[u] \in Loads /\ holder'[u] = holder[u]
  OBVIOUS
<1>3. \A u, v \in Threads :
        at'[u] \in Loads /\ at'[v] \in Loads /\ holder'[u] = holder'[v] => u = v
  BY <1>2 DEF Loaders
<1>4. ASSUME NEW h \in DOMAIN holders, holders[h].lockedBy # NobodyHolds
      PROVE  /\ holder'[holders[h].lockedBy] = h
             /\ at'[holders[h].lockedBy] \in Locks
  <2>1. PICK u \in Threads : u = holders[h].lockedBy
    BY <1>4, HolderIn
  <2>2. holder[u] = h /\ at[u] \in Locks /\ at[u] \in Loads
    BY <1>4, <2>1 DEF Loaders, Locks, Loads
  <2> QED  BY <2>1, <2>2
<1>5. Loaders'
  BY <1>1, <1>3, <1>4 DEF Loaders, Minds
<1>6. Current'
  BY <1>1 DEF Current, Minds
<1>7. InOrder'
  BY DEF InOrder
<1> QED  BY <1>5, <1>6, <1>7


LEMMA LookKept ==
  ASSUME Typed, Loaders, Current, InOrder, NEW t \in Threads,
         \/ Get(t) \/ FirstLook(t) \/ ObjectReviewed(t) \/ Object(t)
         \/ NewRead(t) \/ NewWrite(t) \/ LoadOpen(t) \/ Return(t)
  PROVE  Loaders' /\ Current' /\ InOrder'
<1> USE DEF cacheVars, threadVars, bounds
<1>1. /\ UNCHANGED <<disk, holders, objects_, disturbed>>
      /\ \A u \in Threads : u # t =>
           /\ at'[u] = at[u] /\ file'[u] = file[u] /\ holder'[u] = holder[u]
           /\ since'[u] = since[u] /\ got'[u] = got[u]
  BY DEF Get, FirstLook, ObjectReviewed, Object, NewRead, NewWrite, LoadOpen, Return, Typed
<1>2. ASSUME at[t] \notin Loads, at'[t] \notin Loads, Minds(t)'
      PROVE  Loaders' /\ Current' /\ InOrder'
  BY <1>1, <1>2, MovedKept
<1>3. Minds(t)
  BY AllMind
<1>4. CASE Get(t)
  <2>1. PICK f \in Files :
          /\ at'[t] = "first" /\ file'[t] = f /\ at[t] = "idle"
          /\ since'[t] = [version |-> disk[f].version, included |-> disk[f].included]
    BY <1>4 DEF Get, Typed
  <2>2. disk[f].version <= disk[f].version /\ disk[f].included <= disk[f].included
    BY DEF Typed
  <2> QED  BY <1>1, <1>2, <2>1, <2>2 DEF Minds, InHand, Loads, Locks
<1>5. CASE FirstLook(t)
  <2> DEFINE h == objects_[file[t]]
  <2>1. /\ at[t] = "first" /\ file[t] \in Files /\ h \in 0 .. Len(holders)
        /\ holder'[t] = h /\ UNCHANGED <<file, since, got>>
    BY <1>3, <1>5 DEF FirstLook, Typed, Minds
  <2>2. \/ at'[t] \in {"second", "unexpected"}
        \/ at'[t] = "reviewed" /\ h # 0 /\ ~Loading(h)
        \/ at'[t] = "object" /\ h # 0 /\ ~IsModified(h, file[t])
    BY <1>5 DEF FirstLook, Typed
  <2>3. h # 0 => h \in DOMAIN holders /\ holders[h].file = file[t]
    BY <2>1 DEF Loaders, Typed
  <2>4. CASE at'[t] \in {"second", "unexpected"}
    BY <1>1, <1>2, <1>3, <2>1, <2>4 DEF Minds, InHand, Loads, Locks
  <2>5. CASE at'[t] = "reviewed" /\ h # 0 /\ ~Loading(h)
    BY <1>1, <1>2, <1>3, <2>1, <2>3, <2>5 DEF Minds, InHand, Loads, Locks, Loading
  <2>6. CASE at'[t] = "object" /\ h # 0 /\ ~IsModified(h, file[t])
    <3>1. /\ holders[h].state_ = "loaded"
          /\ Stat[file[t]][holders[h].modified_] = Stat[file[t]][disk[file[t]].version]
      BY <2>6 DEF IsModified
    <3>2. LooksNew(Stat[file[t]], holders[h].modified_, since[t].version,
                   disk[file[t]].version)
      <4>1. /\ since[t].version \in Nat /\ disk[file[t]].version \in Nat
            /\ since[t].version <= disk[file[t]].version
        BY <1>3, <2>1 DEF Typed, Content, Minds
      <4> QED  BY <3>1, <4>1, LooksLikeNow
    <3>4. OwnNew(t)'
      BY <1>1, <2>1, <3>2 DEF OwnNew
    <3>3. Minds(t)'
      BY <1>1, <1>3, <2>1, <2>3, <2>6, <3>1, <3>4 DEF Minds, InHand, Loads, Locks
    <3> QED  BY <1>2, <2>1, <2>6, <3>3 DEF Loads
  <2> QED  BY <2>2, <2>4, <2>5, <2>6
<1>6. CASE ObjectReviewed(t)
  <2>1. /\ at[t] = "reviewed" /\ at'[t] \in {"answered", "thrown"}
        /\ UNCHANGED <<file, holder, since, got>>
    BY <1>6 DEF ObjectReviewed, Typed
  <2> QED  BY <1>1, <1>2, <1>3, <2>1 DEF Minds, InHand, Loads, Locks
<1>7. CASE Object(t)
  <2>1. /\ at[t] \in {"object", "object2"} /\ UNCHANGED <<file, holder, since>>
        /\ IF ObjectIsModified(holder[t], file[t])
           THEN at'[t] \in {"second", "new"} /\ got' = got
           ELSE /\ at'[t] = "returned"
                /\ got'[t] = [version |-> Mine(t).content, included |-> Mine(t).included]
    BY <1>7 DEF Object, Typed
  <2>2. CASE ObjectIsModified(holder[t], file[t])
    BY <1>1, <1>2, <1>3, <2>1, <2>2 DEF Minds, InHand, Loads, Locks
  <2>3. CASE ~ObjectIsModified(holder[t], file[t])
    <3> DEFINE m == holders[holder[t]]
    <3>1. /\ m.state_ = "loaded" /\ OwnNew(t) /\ m = Mine(t)
          /\ since[t].included <= disk[file[t]].included /\ file[t] \in Files
          /\ m \in Holder /\ since[t].version \in Nat /\ since[t].included \in Nat
          /\ holder[t] \in DOMAIN holders
      BY <1>3, <2>1, HolderOf DEF Minds, InHand, Typed, Content
    <3>2. m.modified_ <= m.content /\ m.included # 0
      BY <3>1 DEF Current
    <3>3. m.modified_ \in Nat /\ m.content \in Nat /\ m.included \in Nat
      BY <3>1, CacheAssumption DEF Holder, Versions
    <3>4. /\ OwnNew(t)' /\ holders'[holder'[t]] = m
          /\ got'[t].version = m.content /\ got'[t].included = m.included
      BY <1>1, <2>1, <2>3, <3>1 DEF OwnNew
    <3>5. since[t].included <= m.included \/ GotNew(t)'
      <4>1. CASE Includes
        <5>1. IncludedStat[file[t]][m.included]
                = IncludedStat[file[t]][disk[file[t]].included]
          BY <2>3, <3>1, <4>1 DEF ObjectIsModified
        <5>2. /\ got'[t].included = m.included
              /\ file'[t] = file[t] /\ since'[t] = since[t] /\ disk' = disk
          BY <1>1, <2>1, <2>3, <3>1
        <5>3. disk[file[t]].included \in Nat
          BY <3>1 DEF Typed
        <5> QED  BY <3>1, <5>1, <5>2, <5>3, LooksLikeNow DEF GotNew
      <4>2. CASE ~Includes
        <5>1. disk[file[t]].included = 1
          BY <3>1, <4>2 DEF Typed
        <5> QED  BY <3>1, <3>2, <3>3, <5>1
      <4> QED  BY <4>1, <4>2
    <3>6. Minds(t)'
      BY <1>1, <1>3, <2>1, <2>3, <3>1, <3>4, <3>5 DEF Minds, InHand, Loads, Locks
    <3> QED  BY <1>2, <2>1, <2>3, <3>6 DEF Loads
  <2> QED  BY <2>2, <2>3
<1>8. CASE NewRead(t) \/ NewWrite(t)
  <2>1. /\ at[t] \in {"new", "new_write"} /\ at'[t] \in {"new_write", "new_publish"}
        /\ UNCHANGED <<file, holder, since, got>>
    BY <1>8 DEF NewRead, NewWrite, Typed
  <2> QED  BY <1>1, <1>2, <1>3, <2>1 DEF Minds, InHand, Loads, Locks
<1>9. CASE LoadOpen(t)
  <2>1. /\ at[t] = "open" /\ at'[t] = "stat"
        /\ UNCHANGED <<file, holder, since, got>>
    BY <1>9 DEF LoadOpen, Typed
  <2>2. Minds(t)'
    BY <1>1, <1>3, <2>1 DEF Minds, InHand, Loads, Locks
  <2> QED  BY <1>1, <2>1, <2>2, MovedKept DEF Loads, Locks
<1>10. CASE Return(t)
  <2>1. at[t] \in {"returned", "answered", "thrown", "unexpected"} /\ at'[t] = "idle"
    BY <1>10 DEF Return, Typed
  <2> QED  BY <1>1, <1>2, <2>1 DEF Minds, InHand, Loads, Locks
<1> QED  BY <1>4, <1>5, <1>6, <1>7, <1>8, <1>9, <1>10

(* Holders that leave the map. *)
LEMMA DropKept ==
  ASSUME Typed, Loaders, Current, InOrder, (\E t \in Threads : Expire(t)) \/ Erase
  PROVE  Loaders' /\ Current' /\ InOrder'
<1>1. PICK S \in SUBSET Files :
        /\ objects_' = [f \in Files |-> IF f \in S THEN 0 ELSE objects_[f]]
        /\ disturbed' = disturbed \union {f \in S : objects_[f] # 0}
  BY DEF Expire, Erase
<1>2. UNCHANGED <<disk, holders, threadVars>>
  BY DEF Expire, Erase
<1>3. Loaders' /\ Current'
  BY <1>1, <1>2 DEF Loaders, Current, OwnNew, GotNew, threadVars
<1>4. \A f \in Files : f \notin disturbed' => f \notin disturbed /\ objects_'[f] = objects_[f]
  BY <1>1 DEF Typed
<1>5. \A h \in DOMAIN holders : holders[h].file \in Files
  BY HolderIn
<1>6. InOrder'
  BY <1>2, <1>4, <1>5 DEF InOrder
<1> QED  BY <1>3, <1>6

(* Files that change. *)
LEMMA ChangeKept ==
  ASSUME Typed, Loaders, Current, InOrder, NEW f \in Files, Change(f)
  PROVE  Loaders' /\ Current' /\ InOrder'
<1>1. UNCHANGED <<objects_, holders, threadVars, disturbed>>
  BY DEF Change, cacheVars
<1>2. \A g \in Files : /\ disk[g].version <= disk'[g].version
                       /\ disk[g].included <= disk'[g].included
                       /\ disk[g].present # disk'[g].present =>
                            disk[g].version < disk'[g].version
  BY ChangeTyped
<1>3. \A g \in Files : /\ disk[g].version \in Nat /\ disk'[g].version \in Nat
                       /\ disk[g].included \in Nat /\ disk'[g].included \in Nat
                       /\ disk[g].present \in BOOLEAN /\ disk'[g].present \in BOOLEAN
  <2>1. \A g \in Files : /\ disk[g].version \in Nat /\ disk[g].included \in Nat
                         /\ disk[g].present \in BOOLEAN
    BY DEF Typed
  <2>2. Typed'
    BY ChangeTyped
  <2>3. \A g \in Files : /\ disk'[g].version \in Nat /\ disk'[g].included \in Nat
                         /\ disk'[g].present \in BOOLEAN
    <3>1. /\ changes' \in Nat
          /\ disk' \in [Files -> [present : BOOLEAN, version : 1 .. 1 + changes',
                                 included : 1 .. 1 + changes']]
      BY <2>2, CacheAssumption DEF Typed
    <3> QED  BY <3>1
  <2> QED  BY <2>1, <2>3
<1>4. Loaders'
  BY <1>1 DEF Loaders, threadVars
<1>5. ASSUME NEW h \in DOMAIN holders
      PROVE  /\ holders[h].modified_ <= disk'[holders[h].file].version
             /\ ~disk'[holders[h].file].present =>
                  holders[h].modified_ < disk'[holders[h].file].version
             /\ holders[h].modified_ < disk[holders[h].file].version =>
                  holders[h].modified_ < disk'[holders[h].file].version
  <2>1. PICK g \in Files : g = holders[h].file
    BY HolderIn
  <2>2. /\ holders[h].modified_ \in Nat
        /\ holders[h].modified_ <= disk[g].version
        /\ ~disk[g].present => holders[h].modified_ < disk[g].version
    BY <2>1, HolderIn DEF Current
  <2> QED  BY <1>2, <1>3, <2>1, <2>2
<1>6. ASSUME NEW t \in Threads, at[t] # "idle"
      PROVE  /\ since[t].version <= disk'[file[t]].version
             /\ since[t].included <= disk'[file[t]].included
  <2>1. PICK g \in Files : g = file[t]
    BY <1>6 DEF Loaders
  <2>2. /\ since[t].version <= disk[g].version /\ since[t].included <= disk[g].included
        /\ since[t].version \in Nat /\ since[t].included \in Nat
    BY <1>6, <2>1 DEF Current, Typed, Content
  <2> QED  BY <1>2, <1>3, <2>1, <2>2
<1>7. ASSUME NEW t \in Threads, at[t] # "idle"
      PROVE  (OwnNew(t) => OwnNew(t)') /\ (GotNew(t) => GotNew(t)')
  <2>1. PICK g \in Files : g = file[t]
    BY <1>7 DEF Loaders
  <2>2. /\ UNCHANGED <<holders, holder, file, since, got>>
        /\ since[t].version \in Nat /\ since[t].included \in Nat
    BY <1>1 DEF threadVars, Typed, Content
  <2> QED  BY <1>2, <1>3, <2>1, <2>2, StillLooksNew DEF OwnNew, GotNew
<1>9. ASSUME NEW t \in Threads PROVE Minds(t)'
  BY <1>1, <1>6, <1>7, AllMind DEF Minds, threadVars
<1>10. Current'
  BY <1>1, <1>5, <1>9 DEF Current, threadVars, Minds
<1>8. InOrder'
  BY <1>1, <1>5 DEF InOrder
<1> QED  BY <1>4, <1>8, <1>10


(* A new holder in the map. *)
LEMMA NewKept ==
  ASSUME Typed, Loaders, Current, InOrder, NEW t \in Threads, SecondLook(t) \/ NewPublish(t)
  PROVE  Loaders' /\ Current' /\ InOrder'
<1> USE DEF cacheVars, threadVars, bounds
<1>1. file[t] \in Files /\ Minds(t)
  BY AllMind DEF SecondLook, NewPublish, Loaders
<1>2. CASE SecondLook(t) /\ UNCHANGED cacheVars
  <2> DEFINE h == objects_[file[t]]
  <2>1. /\ h # 0 /\ at[t] = "second" /\ h \in DOMAIN holders /\ holders[h].file = file[t]
        /\ \/ at'[t] = "unexpected"
           \/ at'[t] = "object2" /\ ~IsModified(h, file[t])
        /\ holder'[t] = h
    <3>1. sequence_number_ # sequence_number_ + 1
      BY DEF Typed
    <3>2. /\ h # 0 /\ at[t] = "second" /\ holder'[t] = h
          /\ \/ at'[t] = "unexpected"
             \/ at'[t] = "object2" /\ ~IsModified(h, file[t])
      BY <1>2, <3>1 DEF SecondLook, Typed
    <3>3. h \in DOMAIN holders /\ holders[h].file = file[t]
      BY <1>1, <3>2 DEF Typed, Loaders
    <3> QED  BY <3>2, <3>3
  <2>2. /\ UNCHANGED <<disk, holders, objects_, disturbed, file, since, got>>
        /\ \A u \in Threads : u # t => at'[u] = at[u] /\ holder'[u] = holder[u]
    BY <1>2 DEF SecondLook, Typed
  <2>3. CASE at'[t] = "unexpected"
    <3>1. Minds(t)'
      BY <1>1, <2>1, <2>2, <2>3 DEF Minds, InHand, Loads, Locks
    <3> QED  BY <2>1, <2>2, <2>3, <3>1, MovedKept DEF Loads
  <2>4. CASE at'[t] = "object2" /\ ~IsModified(h, file[t])
    <3>1. /\ holders[h].state_ = "loaded"
          /\ Stat[file[t]][holders[h].modified_] = Stat[file[t]][disk[file[t]].version]
      BY <2>4 DEF IsModified
    <3>2. LooksNew(Stat[file[t]], holders[h].modified_, since[t].version,
                   disk[file[t]].version)
      <4>1. /\ since[t].version \in Nat /\ disk[file[t]].version \in Nat
            /\ since[t].version <= disk[file[t]].version
        BY <1>1, <2>1 DEF Typed, Content, Minds
      <4> QED  BY <3>1, <4>1, LooksLikeNow
    <3>4. OwnNew(t)'
      BY <2>1, <2>2, <3>2 DEF OwnNew
    <3>3. Minds(t)'
      BY <1>1, <2>1, <2>2, <2>4, <3>1, <3>4 DEF Minds, InHand, Loads, Locks
    <3> QED  BY <2>1, <2>2, <2>4, <3>3, MovedKept DEF Loads
  <2> QED  BY <2>1, <2>3, <2>4
<1>3. ASSUME NEW n \in Nat, NEW l \in Threads \union {NobodyHolds}, NEW place \in {"open", "lock"},
             l = IF place = "open" THEN t ELSE NobodyHolds,
             at[t] \notin InHand,
             holders' = Append(holders, NewHolder(file[t], n, l)),
             objects_' = [objects_ EXCEPT ![file[t]] = Len(holders')],
             holder' = [holder EXCEPT ![t] = Len(holders')],
             at' = [at EXCEPT ![t] = place],
             disturbed \subseteq disturbed',
             file[t] \notin disturbed' /\ objects_[file[t]] # 0 =>
               IsModified(objects_[file[t]], file[t]) /\ ~Loading(objects_[file[t]]),
             UNCHANGED <<disk, file, since, got>>
      PROVE  Loaders' /\ Current' /\ InOrder'
  <2> DEFINE x == Len(holders')
  <2>1. /\ DOMAIN holders' = (DOMAIN holders) \union {x} /\ x \notin DOMAIN holders
        /\ x \in Nat \ {0} /\ x = Len(holders) + 1
        /\ \A h \in DOMAIN holders : holders'[h] = holders[h]
        /\ holders'[x].file = file[t] /\ holders'[x].state_ = "loading"
        /\ holders'[x].lockedBy = l /\ holders'[x].modified_ = 0
    BY <1>1, <1>3, NewHolderAppended DEF NewHolder
  <2>2. /\ at'[t] = place /\ holder'[t] = x
        /\ \A u \in Threads : u # t => at'[u] = at[u] /\ holder'[u] = holder[u]
        /\ objects_'[file[t]] = x
        /\ \A f \in Files : f # file[t] => objects_'[f] = objects_[f]
    BY <1>1, <1>3 DEF Typed
  <2> HIDE DEF x
  <2>3. \A f \in Files : objects_[f] # 0 => objects_[f] \in DOMAIN holders
    BY DEF Typed
  <2>4. \A u \in Threads : u # t /\ at[u] \in InHand => holder[u] \in DOMAIN holders
    BY HolderOf
  <2>5. \A u \in Threads : Minds(u)'
    <3>1. Minds(t)'
      <4>1. /\ at'[t] # "idle" /\ file[t] \in Files
            /\ since[t].version <= disk[file[t]].version
            /\ since[t].included <= disk[file[t]].included
        BY <1>1, <1>3, <2>2 DEF Minds, SecondLook, NewPublish
      <4>2. /\ holder'[t] # 0 /\ holders'[holder'[t]].file = file[t]
            /\ holders'[holder'[t]].state_ = "loading" /\ at'[t] \in Loads
            /\ at'[t] \in Locks => holders'[holder'[t]].lockedBy = t
        BY <1>3, <2>1, <2>2 DEF Loads, Locks
      <4>3. at'[t] \notin {"object", "object2", "read", "returned"}
        BY <1>3, <2>2
      <4> QED  BY <1>3, <4>1, <4>2, <4>3 DEF Minds
    <3>2. ASSUME NEW u \in Threads, u # t PROVE Minds(u)'
      <4>1. Minds(u) /\ (at[u] \in InHand => holders'[holder[u]] = holders[holder[u]])
        BY <2>1, <2>4, <3>2, AllMind
      <4>2. at[u] = "read" => at[u] \in InHand
        BY DEF InHand
      <4>3. at[u] \in {"object", "object2", "returned"} => at[u] \in InHand
        BY DEF InHand
      <4> QED  BY <1>3, <2>2, <3>2, <4>1, <4>2, <4>3 DEF Minds, OwnNew, GotNew
    <3> QED  BY <3>1, <3>2
  <2>6. Loaders'
    <3>1. \A f \in Files : objects_'[f] # 0 => holders'[objects_'[f]].file = f
      BY <1>1, <2>1, <2>2, <2>3 DEF Loaders
    <3>2. \A u \in Threads : at'[u] \in Loads /\ u # t => holder'[u] # x
      BY <2>1, <2>2, <2>4 DEF Loads, InHand
    <3>3. \A u, v \in Threads :
            at'[u] \in Loads /\ at'[v] \in Loads /\ holder'[u] = holder'[v] => u = v
      BY <2>2, <3>2 DEF Loaders
    <3>4. ASSUME NEW h \in DOMAIN holders', holders'[h].lockedBy # NobodyHolds
          PROVE  holder'[holders'[h].lockedBy] = h /\ at'[holders'[h].lockedBy] \in Locks
      <4>1. CASE h = x
        BY <1>3, <2>1, <2>2, <3>4, <4>1 DEF Locks
      <4>2. CASE h \in DOMAIN holders
        <5>1. PICK u \in Threads : u = holders[h].lockedBy
          BY <2>1, <3>4, <4>2, HolderIn
        <5>2. holder[u] = h /\ at[u] \in Locks
          BY <2>1, <3>4, <4>2, <5>1 DEF Loaders
        <5>3. u # t
          BY <1>3, <5>2 DEF Locks, InHand
        <5> QED  BY <2>1, <2>2, <4>2, <5>1, <5>2, <5>3
      <4> QED  BY <2>1, <4>1, <4>2
    <3> QED  BY <2>5, <3>1, <3>3, <3>4 DEF Loaders, Minds
  <2>7. disk[file[t]].version \in Nat \ {0}
    BY <1>1 DEF Typed
  <2>8. Current'
    <3>1. ASSUME NEW h \in DOMAIN holders'
          PROVE  /\ holders'[h].modified_ <= disk[holders'[h].file].version
                 /\ holders'[h].state_ = "loaded" =>
                      /\ holders'[h].modified_ # 0
                      /\ holders'[h].modified_ <= holders'[h].content
                      /\ holders'[h].included # 0
                 /\ ~disk[holders'[h].file].present =>
                      holders'[h].modified_ < disk[holders'[h].file].version
      <4>1. CASE h = x
        BY <2>1, <2>7, <4>1
      <4>2. CASE h \in DOMAIN holders
        BY <2>1, <4>2 DEF Current
      <4> QED  BY <2>1, <4>1, <4>2
    <3> QED  BY ZenonT(40), <1>3, <2>5, <3>1 DEF Current, Minds
  <2>9. InOrder'
    <3>1. ASSUME NEW h \in DOMAIN holders', holders'[h].file \notin disturbed'
          PROVE  /\ h <= objects_'[holders'[h].file]
                 /\ h # objects_'[holders'[h].file] =>
                      /\ holders'[h].state_ # "loading"
                      /\ holders'[h].state_ = "loaded" =>
                           holders'[h].modified_ < disk'[holders'[h].file].version
                 /\ holders'[h].state_ = "loaded" =>
                      \A j \in DOMAIN holders' :
                        h < j /\ holders'[j].file = holders'[h].file /\ holders'[j].modified_ # 0
                          => holders'[h].modified_ < holders'[j].modified_
      <4>1. CASE h = x
        <5>1. h = objects_'[holders'[h].file] /\ holders'[h].state_ = "loading"
          BY <2>1, <2>2, <4>1
        <5>2. h \in Nat
          BY <2>1, <4>1
        <5> QED  BY <5>1, <5>2
      <4>2. CASE h \in DOMAIN holders
        <5> DEFINE f == holders[h].file
        <5>1. /\ holders'[h] = holders[h] /\ f \notin disturbed /\ f \in Files
              /\ h \in 1 .. Len(holders) /\ Len(holders) \in Nat
          BY SMTT(30), <1>3, <2>1, <3>1, <4>2, HolderIn DEF Typed
        <5>2. /\ h <= objects_[f]
              /\ h # objects_[f] => /\ holders[h].state_ # "loading"
                                    /\ holders[h].state_ = "loaded" =>
                                         holders[h].modified_ < disk[f].version
              /\ holders[h].state_ = "loaded" =>
                   \A j \in DOMAIN holders :
                     h < j /\ holders[j].file = f /\ holders[j].modified_ # 0
                       => holders[h].modified_ < holders[j].modified_
          BY <4>2, <5>1 DEF InOrder
        <5>3. CASE f # file[t]
          BY <1>3, <2>1, <2>2, <5>1, <5>2, <5>3
        <5>4. CASE f = file[t]
          <6>1. /\ holders[h].state_ # "loading"
                /\ holders[h].state_ = "loaded" => holders[h].modified_ < disk[f].version
            <7>1. CASE h # objects_[f]
              BY <5>2, <7>1
            <7>2. CASE h = objects_[f]
              <8>1. IsModified(h, f) /\ ~Loading(h)
                BY <1>3, <2>1, <3>1, <4>2, <5>1, <5>4, <7>2
              <8>2. /\ holders[h].modified_ \in Nat /\ disk[f].version \in Nat
                    /\ holders[h].modified_ <= disk[f].version
                    /\ ~disk[f].present => holders[h].modified_ < disk[f].version
                BY <2>7, <4>2, <5>4, HolderIn DEF Current
              <8>3. Stat[f][holders[h].modified_] # Stat[f][disk[f].version] =>
                      holders[h].modified_ # disk[f].version
                OBVIOUS
              <8> QED  BY <8>1, <8>2, <8>3 DEF IsModified, Loading
            <7> QED  BY <7>1, <7>2
          <6>2. h <= objects_'[f] /\ h # objects_'[f]
            BY <2>1, <2>2, <5>1, <5>4
          <6> QED  BY <1>3, <2>1, <5>1, <5>2, <6>1, <6>2
        <5> QED  BY <5>3, <5>4
      <4> QED  BY <2>1, <4>1, <4>2
    <3> QED  BY <3>1 DEF InOrder
  <2> QED  BY <2>6, <2>8, <2>9
<1>4. CASE SecondLook(t) /\ ~UNCHANGED cacheVars
  <2>1. /\ at[t] = "second" /\ sequence_number_ \in Nat
        /\ ~(objects_[file[t]] # 0
             /\ (Loading(objects_[file[t]]) \/ ~IsModified(objects_[file[t]], file[t])))
        /\ holders' = Append(holders, NewHolder(file[t], sequence_number_, t))
        /\ objects_' = [objects_ EXCEPT ![file[t]] = Len(holders')]
        /\ holder' = [holder EXCEPT ![t] = Len(holders')]
        /\ at' = [at EXCEPT ![t] = "open"]
        /\ UNCHANGED <<disk, file, since, got, disturbed>>
    BY <1>4 DEF SecondLook, Typed
  <2> QED  BY <1>3, <2>1 DEF InHand
<1>5. CASE NewPublish(t)
  <2>1. /\ at[t] = "new_publish" /\ number[t] \in Nat
        /\ holders' = Append(holders, NewHolder(file[t], number[t], NobodyHolds))
        /\ objects_' = [objects_ EXCEPT ![file[t]] = Len(holders')]
        /\ holder' = [holder EXCEPT ![t] = Len(holders')]
        /\ at' = [at EXCEPT ![t] = "lock"]
        /\ disturbed' = disturbed \union {file[t]}
        /\ UNCHANGED <<disk, file, since, got>>
    BY <1>5 DEF NewPublish, Typed
  <2> QED  BY <1>3, <2>1 DEF InHand
<1> QED  BY <1>2, <1>4, <1>5


(* A holder that is loaded. *)
LEMMA LoadKept ==
  ASSUME Typed, Loaders, Current, InOrder, NEW t \in Threads,
         LoadLock(t) \/ LoadFails(t) \/ LoadStat(t) \/ LoadRead(t)
  PROVE  Loaders' /\ Current' /\ InOrder'
<1>1. PICK r \in Holder, place \in Places :
        /\ Became(t, r, place)
        /\ \/ Locked(t, r, place) \/ Failed(t, r, place)
           \/ Stated(t, r, place) \/ Loaded(t, r, place)
  BY LoadDoes
<1> DEFINE x == holder[t]
           f == file[t]
<1>2. /\ at[t] \in Loads /\ at[t] \in InHand /\ x \in DOMAIN holders /\ holders[x].file = f
      /\ f \in Files /\ r.file = f /\ holders[x].state_ = "loading" /\ Minds(t)
  <2>1. at[t] \in Loads /\ at[t] \in InHand
    BY <1>1 DEF Locked, Failed, Stated, Loaded, Loads, InHand, Locks
  <2> QED  BY <1>1, <2>1, HolderOf, AllMind DEF Became, Loaders
<1>3. /\ DOMAIN holders' = DOMAIN holders /\ holders'[x] = r
      /\ \A h \in DOMAIN holders : h # x => holders'[h] = holders[h]
      /\ at'[t] = place /\ \A u \in Threads : u # t => at'[u] = at[u] /\ got'[u] = got[u]
      /\ UNCHANGED <<disk, objects_, file, holder, since, disturbed>>
  BY <1>1, <1>2 DEF Became, Typed, Locked, Failed, Stated, Loaded
<1>4. /\ holders[x].modified_ \in Nat /\ r.modified_ \in Nat /\ r.content \in Nat
      /\ disk[f].version \in Nat \ {0} /\ disk[f].included \in Nat \ {0}
      /\ since[t].version \in Nat /\ since[t].included \in Nat
      /\ holders[x].modified_ <= disk[f].version
      /\ ~disk[f].present => holders[x].modified_ < disk[f].version
      /\ since[t].version <= disk[f].version /\ since[t].included <= disk[f].included
  <2>1. r.modified_ \in Nat /\ r.content \in Nat
    BY CacheAssumption DEF Holder, Versions
  <2>2. /\ disk[f].version \in Nat \ {0} /\ disk[f].included \in Nat \ {0}
        /\ since[t].version \in Nat /\ since[t].included \in Nat
    BY <1>2 DEF Typed, Content
  <2>3. since[t].version <= disk[f].version /\ since[t].included <= disk[f].included
    BY <1>2 DEF Minds, Loads
  <2> QED  BY <1>2, <2>1, <2>2, <2>3, HolderIn DEF Current
<1>5. at[t] = "read" => holders[x].modified_ # 0 /\ since[t].version <= holders[x].modified_
  BY <1>2 DEF Minds
<1>6. got'[t] = IF place = "returned" THEN [version |-> r.content, included |-> r.included]
                ELSE got[t]
  BY <1>1 DEF Locked, Failed, Stated, Loaded, Typed
<1>7. \A u \in Threads : u # t /\ at[u] \in InHand => holder[u] \in DOMAIN holders \ {x}
  BY <1>2, HolderOf DEF Loaders
<1> HIDE DEF x, f
<1>8. \A u \in Threads : Minds(u)'
  <2>1. Minds(t)'
    <3>1. /\ at'[t] # "idle" /\ holder[t] # 0 /\ holders'[holder[t]].file = file[t]
          /\ holders'[holder[t]].state_ = "loading" <=> at'[t] \in Loads
          /\ at'[t] \notin {"object", "object2"}
          /\ at'[t] = "returned" => holders'[holder[t]].state_ = "loaded"
          /\ at'[t] \in Locks => holders'[holder[t]].lockedBy = t
      BY <1>1, <1>2, <1>3 DEF Locked, Failed, Stated, Loaded, Loads, Locks, Minds, x, f
    <3>2. at'[t] = "read" => /\ holders'[holder[t]].modified_ # 0
                             /\ since[t].version <= holders'[holder[t]].modified_
      BY <1>1, <1>3, <1>4 DEF Locked, Failed, Stated, Loaded, x, f
    <3>3. at'[t] = "returned" => /\ got'[t].version = holders'[holder[t]].content
                                 /\ got'[t].included = holders'[holder[t]].included
                                 /\ OwnNew(t)'
                                 /\ since[t].included <= got'[t].included
      <4>1. CASE place = "returned"
        <5>1. /\ r.modified_ = holders[x].modified_ /\ r.modified_ <= r.content
              /\ r.included = disk[f].included /\ at[t] = "read"
          BY <1>1, <4>1 DEF Locked, Failed, Stated, Loaded, x, f
        <5>2. r.modified_ \in since[t].version .. disk[f].version
          BY <1>4, <1>5, <5>1
        <5>3. LooksNew(Stat[f], r.modified_, since[t].version, disk[f].version)
          BY <5>2 DEF LooksNew
        <5>4. OwnNew(t)' /\ holders'[holder[t]] = r
          BY <1>3, <5>3 DEF OwnNew, x, f
        <5>5. since[t].included <= r.included
          BY <1>4, <5>1
        <5> QED  BY <1>6, <4>1, <5>1, <5>4, <5>5
      <4> QED  BY <1>3, <4>1
    <3> QED  BY <1>2, <1>3, <1>4, <3>1, <3>2, <3>3 DEF Minds, f
  <2>2. ASSUME NEW u \in Threads, u # t PROVE Minds(u)'
    <3>1. Minds(u) /\ (at[u] \in InHand => holders'[holder[u]] = holders[holder[u]])
      BY <1>3, <1>7, <2>2, AllMind
    <3>2. at[u] \in {"object", "object2", "read", "returned"} => at[u] \in InHand
      BY DEF InHand
    <3> QED  BY <1>3, <2>2, <3>1, <3>2 DEF Minds, OwnNew, GotNew
  <2> QED  BY <2>1, <2>2
<1>9. Loaders'
  <2>1. \A g \in Files : objects_[g] # 0 => holders'[objects_[g]].file = g
    <3>1. \A g \in Files : objects_[g] # 0 =>
            objects_[g] \in DOMAIN holders /\ holders[objects_[g]].file = g
      BY DEF Loaders, Typed
    <3> QED  BY <1>2, <1>3, <3>1
  <2>2. at'[t] \in Loads => at[t] \in Loads
    BY <1>2
  <2>3. \A u, v \in Threads :
          at'[u] \in Loads /\ at'[v] \in Loads /\ holder'[u] = holder'[v] => u = v
    BY <1>3, <2>2 DEF Loaders
  <2>4. ASSUME NEW h \in DOMAIN holders, holders'[h].lockedBy # NobodyHolds
        PROVE  holder[holders'[h].lockedBy] = h /\ at'[holders'[h].lockedBy] \in Locks
    <3>1. CASE h = x
      BY <1>1, <1>3, <2>4, <3>1 DEF Locked, Failed, Stated, Loaded, Locks, x
    <3>2. CASE h # x
      <4>1. PICK u \in Threads : u = holders[h].lockedBy
        BY <1>3, <2>4, <3>2, HolderIn
      <4>2. holder[u] = h /\ at[u] \in Locks
        BY <1>3, <2>4, <3>2, <4>1 DEF Loaders
      <4> QED  BY <1>3, <3>2, <4>1, <4>2 DEF x
    <3> QED  BY <3>1, <3>2
  <2> QED  BY <1>3, <1>8, <2>1, <2>3, <2>4 DEF Loaders, Minds
<1>10. /\ r.modified_ <= disk[f].version
       /\ r.state_ = "loaded" =>
            r.modified_ # 0 /\ r.modified_ <= r.content /\ r.included # 0
       /\ ~disk[f].present => r.modified_ < disk[f].version
  BY <1>1, <1>4, <1>5 DEF Locked, Failed, Stated, Loaded, x, f
<1>11. Current'
  <2>1. ASSUME NEW h \in DOMAIN holders
        PROVE  /\ holders'[h].modified_ <= disk[holders'[h].file].version
               /\ holders'[h].state_ = "loaded" =>
                    /\ holders'[h].modified_ # 0
                    /\ holders'[h].modified_ <= holders'[h].content
                    /\ holders'[h].included # 0
               /\ ~disk[holders'[h].file].present =>
                    holders'[h].modified_ < disk[holders'[h].file].version
    <3>1. CASE h = x
      BY <1>2, <1>3, <1>10, <3>1
    <3>2. CASE h # x
      BY <1>3, <3>2 DEF Current
    <3> QED  BY <3>1, <3>2
  <2> QED  BY <1>3, <1>8, <2>1 DEF Current, Minds
<1>12. InOrder'
  <2>1. f \notin disturbed => x = objects_[f]
    BY <1>2 DEF InOrder
  <2>2. x \in 1 .. Len(holders) /\ Len(holders) \in Nat
    BY <1>2 DEF Typed
  <2>3. ASSUME NEW h \in DOMAIN holders, holders'[h].file \notin disturbed
        PROVE  /\ h <= objects_[holders'[h].file]
               /\ h # objects_[holders'[h].file] =>
                    /\ holders'[h].state_ # "loading"
                    /\ holders'[h].state_ = "loaded" =>
                         holders'[h].modified_ < disk[holders'[h].file].version
               /\ holders'[h].state_ = "loaded" =>
                    \A j \in DOMAIN holders :
                      h < j /\ holders'[j].file = holders'[h].file /\ holders'[j].modified_ # 0
                        => holders'[h].modified_ < holders'[j].modified_
    <3>1. \A j \in DOMAIN holders : holders'[j].file = holders[j].file
      BY <1>2, <1>3
    <3>2. \A j \in DOMAIN holders : j \in Nat
      BY DEF Typed
    <3>3. CASE h = x
      <4>1. \A j \in DOMAIN holders : holders[j].file = f => j <= x
        BY <1>2, <1>3, <2>1, <2>3, <3>3 DEF InOrder
      <4>2. x <= objects_[f] /\ x = objects_[f]
        BY <1>2, <1>3, <2>1, <2>2, <2>3, <3>3
      <4> QED  BY <1>2, <1>3, <2>2, <3>1, <3>2, <3>3, <4>1, <4>2
    <3>4. CASE h # x
      <4>1. holders'[h] = holders[h] /\ holders[h].file \notin disturbed
        BY <1>3, <2>3, <3>4
      <4>2. /\ h <= objects_[holders[h].file]
            /\ h # objects_[holders[h].file] =>
                 /\ holders[h].state_ # "loading"
                 /\ holders[h].state_ = "loaded" =>
                      holders[h].modified_ < disk[holders[h].file].version
            /\ holders[h].state_ = "loaded" =>
                 \A j \in DOMAIN holders :
                   h < j /\ holders[j].file = holders[h].file /\ holders[j].modified_ # 0
                     => holders[h].modified_ < holders[j].modified_
        BY <4>1 DEF InOrder
      <4>3. ASSUME holders[h].state_ = "loaded", h < x, holders[h].file = f, r.modified_ # 0
            PROVE  holders[h].modified_ < r.modified_
        <5>1. holders[h].modified_ < disk[f].version
          BY <2>1, <3>4, <4>1, <4>2, <4>3
        <5>2. r.modified_ \in {disk[f].version, holders[x].modified_}
          BY <1>1 DEF Locked, Failed, Stated, Loaded, x, f
        <5>3. holders[x].modified_ # 0 => holders[h].modified_ < holders[x].modified_
          BY <1>2, <4>2, <4>3
        <5> QED  BY <4>3, <5>1, <5>2, <5>3
      <4>4. ASSUME NEW j \in DOMAIN holders, holders[h].state_ = "loaded",
                   h < j, holders'[j].file = holders[h].file, holders'[j].modified_ # 0
            PROVE  holders[h].modified_ < holders'[j].modified_
        <5>1. CASE j = x
          BY <1>2, <1>3, <4>3, <4>4, <5>1
        <5>2. CASE j # x
          BY <1>3, <4>2, <4>4, <5>2
        <5> QED  BY <5>1, <5>2
      <4> QED  BY <4>1, <4>2, <4>4
    <3> QED  BY <3>3, <3>4
  <2> QED  BY <1>3, <2>3 DEF InOrder
<1> QED  BY <1>9, <1>11, <1>12

-----------------------------------------------------------------------------
LEMMA StepIInv == IInv /\ [Next]_vars => IInv'
<1> SUFFICES ASSUME IInv, [Next]_vars PROVE IInv'
  OBVIOUS
<1>1. Typed /\ Loaders /\ Current /\ InOrder
  BY DEF IInv
<1>2. ASSUME NEW t \in Threads, Get(t) \/ Step(t) PROVE IInv'
  <2>1. CASE LoadLock(t) \/ LoadFails(t) \/ LoadStat(t) \/ LoadRead(t)
    BY <1>1, <2>1, LoadTyped, LoadKept DEF IInv
  <2>2. CASE SecondLook(t) \/ NewPublish(t)
    BY <1>1, <2>2, NewTyped, NewKept DEF IInv
  <2>3. CASE \/ Get(t) \/ FirstLook(t) \/ ObjectReviewed(t) \/ Object(t)
             \/ NewRead(t) \/ NewWrite(t) \/ LoadOpen(t) \/ Return(t)
    BY <1>1, <2>3, LookTyped, LookKept DEF IInv
  <2> QED  BY <1>2, <2>1, <2>2, <2>3 DEF Step
<1>3. CASE (\E t \in Threads : Expire(t)) \/ Erase
  BY <1>1, <1>3, DropTyped, DropKept DEF IInv
<1>4. ASSUME NEW f \in Files, Change(f) PROVE IInv'
  BY <1>1, <1>4, ChangeTyped, ChangeKept DEF IInv
<1>5. CASE UNCHANGED vars
  BY <1>1, <1>5 DEF vars, cacheVars, threadVars, bounds, IInv, Typed, Loaders, Current, OwnNew, GotNew, InOrder
<1> QED  BY <1>2, <1>3, <1>4, <1>5 DEF Next

(* Every thread loads a holder of its own file, with the holder's lock and *)
(* alone; what it has in hand is not older than the disk was when it       *)
(* called get(), or looks so to stat64; a file's holders are in the order  *)
(* of their versions as long as the file was not erased or put in the map  *)
(* without lock_.                                                          *)
THEOREM Invariance == Spec => []IInv
<1> QED  BY InitIInv, StepIInv, PTL DEF Spec

(* What get() returns was on the disk after it was called, or looks to      *)
(* stat64 like what was, by its own file and by the files it includes,     *)
(* whatever other threads load, erase or expire meanwhile.                 *)
THEOREM GetIsFresh == Spec => []Fresh
<1>1. IInv => TypeOK
  <2> SUFFICES ASSUME IInv PROVE TypeOK
    OBVIOUS
  <2>1. Typed /\ Loaders
    BY DEF IInv
  <2>2. disk \in [Files -> [present : BOOLEAN, version : 1 .. 1 + MaxChanges,
                            included : 1 .. 1 + MaxChanges]]
    <3>1. \A n \in 1 .. 1 + changes : n \in 1 .. 1 + MaxChanges
      BY <2>1, CacheAssumption DEF Typed
    <3>2. 1 .. 1 + changes \subseteq 1 .. 1 + MaxChanges
      BY <3>1
    <3>3. disk \in [Files -> [present : BOOLEAN, version : 1 .. 1 + changes,
                              included : 1 .. 1 + changes]]
      BY <2>1 DEF Typed
    <3> HIDE DEF Typed
    <3> QED  BY <3>2, <3>3
  <2>3. ASSUME NEW h \in DOMAIN holders
        PROVE  /\ holders[h].file \in Files
               /\ holders[h].state_ \in {"loading", "loaded", "not_found", "loading_error"}
               /\ holders[h].modified_ \in 0 .. 1 + MaxChanges
               /\ holders[h].content \in 0 .. 1 + MaxChanges
               /\ \/ holders[h].lockedBy = NobodyHolds
                  \/ /\ holder[holders[h].lockedBy] = h
                     /\ at[holders[h].lockedBy] \in {"open", "stat", "read"}
    BY <2>1, HolderIn DEF Holder, Versions, Loaders, Locks
  <2> QED  BY <2>1, <2>2, <2>3 DEF TypeOK, Typed
<1>2. IInv => Fresh
  <2> SUFFICES ASSUME IInv, NEW t \in Threads, at[t] = "returned"
               PROVE  /\ Mine(t).modified_ <= got[t].version /\ OwnNew(t)
                      /\ got[t].included >= since[t].included \/ GotNew(t)
    BY <1>1 DEF Fresh, OwnNew, GotNew, Mine
  <2>1. /\ OwnNew(t) /\ (since[t].included <= got[t].included \/ GotNew(t))
        /\ since[t] \in Content /\ got[t] \in Content
    BY DEF IInv, Current, Typed
  <2>2. holders[holder[t]].modified_ <= got[t].version
    <3>1. /\ holder[t] \in DOMAIN holders /\ holders[holder[t]].state_ = "loaded"
          /\ got[t].version = holders[holder[t]].content
      BY HolderOf DEF IInv, Loaders, Current, InHand
    <3> QED  BY <3>1 DEF IInv, Current
  <2>3. /\ since[t].included \in Nat /\ got[t].included \in Nat
    BY <2>1 DEF Content
  <2> QED  BY <2>1, <2>2, <2>3 DEF Mine
<1> QED  BY <1>2, Invariance, PTL

(* The versions of a file that stat64 tells apart, as it does when every   *)
(* change changes the size or falls into another second.                   *)
ToldApart(stat) ==
  \A f \in Files : \A u, v \in 1 .. 1 + MaxChanges :
    stat[f][u] = stat[f][v] => u = v

(* No object is older than what was on the disk at the call of get(). *)
NeverOlder ==
  \A t \in Threads : at[t] = "returned" =>
    /\ got[t].version >= since[t].version
    /\ got[t].included >= since[t].included

(* Where stat64 tells versions apart, get() never returns an object older  *)
(* than what was on the disk when it was called, neither by its own file   *)
(* nor by the files included.                                              *)
THEOREM GetIsNeverOlder ==
  ASSUME ToldApart(Stat), ToldApart(IncludedStat)
  PROVE  Spec => []NeverOlder
<1>1. IInv => NeverOlder
  <2> SUFFICES ASSUME IInv, NEW t \in Threads, at[t] = "returned"
               PROVE  /\ got[t].version >= since[t].version
                      /\ got[t].included >= since[t].included
    BY DEF NeverOlder
  <2> DEFINE m == holders[holder[t]].modified_
             f == file[t]
  <2>1. /\ Typed /\ Loaders /\ Current /\ at[t] \in InHand /\ f \in Files
        /\ holder[t] \in DOMAIN holders /\ holders[holder[t]] \in Holder
    BY HolderOf DEF IInv, InHand
  <2>2. /\ m \in 1 .. 1 + MaxChanges /\ m <= got[t].version
        /\ got[t].included \in 1 .. 1 + MaxChanges
        /\ OwnNew(t) /\ (since[t].included <= got[t].included \/ GotNew(t))
    <3>1. /\ holders[holder[t]].state_ = "loaded"
          /\ got[t].version = holders[holder[t]].content
          /\ got[t].included = holders[holder[t]].included
          /\ OwnNew(t) /\ (since[t].included <= got[t].included \/ GotNew(t))
      BY <2>1 DEF Loaders, Current
    <3>2. /\ m # 0 /\ m <= holders[holder[t]].content
          /\ holders[holder[t]].included # 0
      BY <2>1, <3>1 DEF Current
    <3>3. m \in 0 .. 1 + MaxChanges /\ holders[holder[t]].included \in 0 .. 1 + MaxChanges
      BY <2>1 DEF Holder, Versions
    <3> QED  BY <3>1, <3>2, <3>3, CacheAssumption
  <2>3. /\ since[t].version \in Nat /\ since[t].included \in Nat
        /\ got[t].version \in Nat /\ got[t].included \in Nat
        /\ disk[f].version \in 1 .. 1 + MaxChanges
        /\ disk[f].included \in 1 .. 1 + MaxChanges
    <3>1. since[t] \in Content /\ got[t] \in Content
      BY DEF IInv, Typed
    <3>2. /\ disk[f].version \in 1 .. 1 + changes
          /\ disk[f].included \in 1 .. 1 + changes
      BY <2>1 DEF IInv, Typed
    <3>3. changes \in Nat /\ changes <= MaxChanges
      BY CacheAssumption DEF IInv, Typed
    <3>4. /\ since[t].version \in Nat /\ since[t].included \in Nat
          /\ got[t].version \in Nat /\ got[t].included \in Nat
      BY <3>1 DEF Content
    <3> QED  BY <3>2, <3>3, <3>4, CacheAssumption
  <2>4. got[t].version >= since[t].version
    <3>1. PICK u \in since[t].version .. disk[f].version : Stat[f][m] = Stat[f][u]
      BY <2>2 DEF OwnNew, LooksNew
    <3>2. CASE u = 0
      BY <2>3, <3>1, <3>2
    <3>3. CASE u # 0
      <4>1. u \in 1 .. 1 + MaxChanges
        BY <2>3, <3>1, <3>3, CacheAssumption
      <4>2. m = u
        BY <2>1, <2>2, <3>1, <4>1 DEF ToldApart
      <4> QED  BY <2>2, <2>3, <3>1, <4>2
    <3> QED  BY <3>2, <3>3
  <2>5. got[t].included >= since[t].included
    <3>1. CASE since[t].included <= got[t].included
      BY <2>3, <3>1
    <3>2. CASE GotNew(t)
      <4>1. PICK u \in since[t].included .. disk[f].included :
              IncludedStat[f][got[t].included] = IncludedStat[f][u]
        BY <3>2 DEF GotNew, LooksNew
      <4>2. CASE u = 0
        BY <2>3, <4>1, <4>2
      <4>3. CASE u # 0
        <5>1. u \in 1 .. 1 + MaxChanges
          BY <2>3, <4>1, <4>3, CacheAssumption
        <5>2. got[t].included = u
          BY <2>1, <2>2, <4>1, <5>1 DEF ToldApart
        <5> QED  BY <2>3, <4>1, <5>2
      <4> QED  BY <4>2, <4>3
    <3> QED  BY <2>2, <3>1, <3>2
  <2> QED  BY <2>4, <2>5
<1> QED  BY <1>1, Invariance, PTL

(* A version of a file is loaded once, whichever threads find at the same  *)
(* time that the file has changed.                                         *)
THEOREM VersionsAreLoadedOnce == Spec => []LoadedOnce
<1>1. IInv => LoadedOnce
  <2> SUFFICES ASSUME IInv, NEW i \in DOMAIN holders, NEW j \in DOMAIN holders,
                      i # j, holders[i].file = holders[j].file,
                      holders[i].file \notin disturbed,
                      holders[i].state_ = "loaded", holders[j].state_ = "loaded"
               PROVE  holders[i].modified_ # holders[j].modified_
    BY DEF LoadedOnce
  <2>1. /\ i \in Nat /\ j \in Nat
        /\ holders[i].modified_ \in Nat /\ holders[j].modified_ \in Nat
        /\ holders[i].modified_ # 0 /\ holders[j].modified_ # 0
    BY HolderIn DEF IInv, Current
  <2>2. CASE i < j
    BY <2>1, <2>2 DEF IInv, InOrder
  <2>3. CASE j < i
    BY <2>1, <2>3 DEF IInv, InOrder
  <2> QED  BY <2>1, <2>2, <2>3
<1> QED  BY <1>1, Invariance, PTL


-----------------------------------------------------------------------------
(* A holder that is not loaded yet and that nobody has locked was put in   *)
(* the map without lock_, which only an object that looks at included      *)
(* files (is_modified() after the second look) leads to.                   *)
Unguarded(h) == /\ holders[h].state_ = "loading"
                /\ holders[h].lockedBy = NobodyHolds

Excused(t) ==
  /\ at[t] \in {"new", "new_write", "new_publish", "lock", "unexpected"} => Includes
  /\ at[t] = "unexpected" => file[t] \in disturbed

Guarded ==
  /\ \A h \in DOMAIN holders :
       Unguarded(h) => Includes /\ holders[h].file \in disturbed
  /\ \A t \in Threads : Excused(t)

LEMMA StepGuarded ==
  ASSUME IInv, Guarded, [Next]_vars
  PROVE  Guarded'
<1> USE DEF cacheVars, threadVars, bounds
<1>1. Typed /\ Loaders /\ at \in [Threads -> Places]
  BY DEF IInv, Typed
<1>2. disturbed \subseteq disturbed'
  <2>1. ASSUME NEW t \in Threads, Get(t) \/ Step(t)
        PROVE  disturbed' \in {disturbed, disturbed \union {file[t]}}
    <3>1. CASE NewPublish(t)
      BY <3>1 DEF NewPublish
    <3>2. CASE \/ Get(t) \/ FirstLook(t) \/ ObjectReviewed(t) \/ Object(t)
               \/ SecondLook(t) \/ NewRead(t) \/ NewWrite(t)
      BY <3>2 DEF Get, FirstLook, ObjectReviewed, Object, SecondLook, NewRead, NewWrite
    <3>3. CASE \/ LoadLock(t) \/ LoadFails(t) \/ LoadOpen(t) \/ LoadStat(t)
               \/ LoadRead(t) \/ Return(t)
      BY <3>3 DEF LoadLock, LoadFails, LoadOpen, LoadStat, LoadRead, Return
    <3> QED  BY <2>1, <3>1, <3>2, <3>3 DEF Step
  <2>2. CASE (\E t \in Threads : Expire(t)) \/ Erase
    BY <2>2 DEF Expire, Erase
  <2>3. CASE (\E f \in Files : Change(f)) \/ UNCHANGED vars
    BY <2>3 DEF Change, vars
  <2> QED  BY <2>1, <2>2, <2>3 DEF Next
<1>3. ASSUME NEW t \in Threads, Excused(t)',
             \A u \in Threads \ {t} : at'[u] = at[u] /\ file'[u] = file[u],
             \A h \in DOMAIN holders' :
               Unguarded(h)' => Includes /\ holders'[h].file \in disturbed'
      PROVE  Guarded'
  BY <1>2, <1>3 DEF Guarded, Excused
<1>4. ASSUME UNCHANGED holders
      PROVE  \A h \in DOMAIN holders' :
               Unguarded(h)' => Includes /\ holders'[h].file \in disturbed'
  BY <1>2, <1>4 DEF Guarded, Unguarded
<1>5. ASSUME NEW t \in Threads,
             \/ Get(t) \/ FirstLook(t) \/ ObjectReviewed(t) \/ Object(t)
             \/ NewRead(t) \/ NewWrite(t) \/ LoadOpen(t) \/ Return(t)
      PROVE  Guarded'
  <2>1. /\ UNCHANGED <<holders, disturbed>>
        /\ \A u \in Threads \ {t} : at'[u] = at[u] /\ file'[u] = file[u]
    BY <1>1, <1>5 DEF Get, FirstLook, ObjectReviewed, Object, NewRead, NewWrite,
         LoadOpen, Return, Typed
  <2>2. CASE FirstLook(t)
    <3> DEFINE h == objects_[file[t]]
    <3>1. /\ at[t] = "first" /\ file'[t] = file[t] /\ file[t] \in Files
          /\ h # 0 => Unlocked(h) /\ h \in DOMAIN holders /\ holders[h].file = file[t]
      BY <1>1, <2>2 DEF FirstLook, Loaders, Typed
    <3>2. /\ at'[t] \notin {"new", "new_write", "new_publish", "lock"}
          /\ at'[t] = "unexpected" => h # 0 /\ Loading(h)
      BY <1>1, <2>2 DEF FirstLook
    <3>3. Excused(t)'
      BY <2>1, <3>1, <3>2 DEF Guarded, Excused, Unguarded, Unlocked, Loading
    <3> QED  BY <1>3, <1>4, <2>1, <3>3
  <2>3. CASE Object(t)
    <3>1. /\ at'[t] \in {"second", "new", "returned"}
          /\ at'[t] = "new" => Includes
      BY <1>1, <2>3 DEF Object, ObjectIsModified
    <3> QED  BY <1>3, <1>4, <2>1, <3>1 DEF Excused
  <2>4. CASE NewRead(t) \/ NewWrite(t)
    <3>1. /\ at[t] \in {"new", "new_write"}
          /\ at'[t] \in {"new_write", "new_publish"}
      BY <1>1, <2>4 DEF NewRead, NewWrite
    <3> QED  BY <1>3, <1>4, <2>1, <3>1 DEF Guarded, Excused
  <2>5. CASE Get(t) \/ ObjectReviewed(t) \/ LoadOpen(t) \/ Return(t)
    <3>1. at'[t] \in {"first", "answered", "thrown", "stat", "idle"}
      BY <1>1, <2>5 DEF Get, ObjectReviewed, LoadOpen, Return
    <3> QED  BY <1>3, <1>4, <2>1, <3>1 DEF Excused
  <2> QED  BY <1>5, <2>2, <2>3, <2>4, <2>5
<1>6. ASSUME NEW t \in Threads, SecondLook(t) PROVE Guarded'
  <2> DEFINE f == file[t]
             h == objects_[f]
  <2>1. /\ at[t] = "second" /\ f \in Files /\ UNCHANGED <<file, disturbed>>
        /\ h # 0 => Unlocked(h) /\ h \in DOMAIN holders /\ holders[h].file = f
        /\ \A u \in Threads \ {t} : at'[u] = at[u]
    <3>1. /\ at[t] = "second" /\ UNCHANGED <<file, disturbed>>
          /\ h # 0 => Unlocked(h)
          /\ \E place : at' = [at EXCEPT ![t] = place]
      BY <1>6 DEF SecondLook
    <3>2. f \in Files
      BY <1>1, <3>1 DEF Loaders
    <3>3. h \in 0 .. Len(holders) /\ Len(holders) \in Nat /\ DOMAIN holders = 1 .. Len(holders)
      BY <1>1, <3>2 DEF Typed
    <3>4. h # 0 => h \in DOMAIN holders /\ holders[h].file = f
      BY <1>1, <3>2, <3>3 DEF Loaders
    <3> QED  BY <1>1, <3>1, <3>2, <3>4
  <2>2. CASE h # 0 /\ (Loading(h) \/ ~IsModified(h, f))
    <3>1. /\ at'[t] \in {"unexpected", "object2"} /\ holders' = holders
          /\ at'[t] = "unexpected" => Loading(h)
      BY <1>1, <1>6, <2>2 DEF SecondLook
    <3>2. Excused(t)'
      BY <2>1, <2>2, <3>1 DEF Guarded, Excused, Unguarded, Unlocked, Loading
    <3> QED  BY <1>3, <1>4, <2>1, <3>1, <3>2
  <2>3. CASE ~(h # 0 /\ (Loading(h) \/ ~IsModified(h, f)))
    <3>1. /\ at'[t] = "open"
          /\ holders' = Append(holders, NewHolder(f, sequence_number_, t))
          /\ sequence_number_ \in Nat
      BY <1>1, <1>6, <2>3 DEF SecondLook, Typed
    <3>2. ASSUME NEW i \in DOMAIN holders', Unguarded(i)'
          PROVE  Includes /\ holders'[i].file \in disturbed'
      <4>1. /\ i \in DOMAIN holders \/ i = Len(holders')
            /\ i \in DOMAIN holders => holders'[i] = holders[i]
            /\ holders'[Len(holders')] = NewHolder(f, sequence_number_, t)
        BY <1>1, <2>1, <3>1, NewHolderAppended
      <4>2. i # Len(holders')
        BY <3>2, <4>1, CacheAssumption DEF Unguarded, NewHolder
      <4> QED  BY <2>1, <3>2, <4>1, <4>2 DEF Guarded, Unguarded
    <3> QED  BY <1>3, <2>1, <3>1, <3>2 DEF Excused
  <2> QED  BY <2>2, <2>3
<1>7. ASSUME NEW t \in Threads, NewPublish(t) PROVE Guarded'
  <2>1. /\ at[t] = "new_publish" /\ at'[t] = "lock" /\ UNCHANGED file
        /\ file[t] \in Files /\ number[t] \in Nat
        /\ holders' = Append(holders, NewHolder(file[t], number[t], NobodyHolds))
        /\ disturbed' = disturbed \union {file[t]}
        /\ \A u \in Threads \ {t} : at'[u] = at[u]
    BY <1>1, <1>7 DEF NewPublish, Loaders, Typed
  <2>2. Includes
    BY <2>1 DEF Guarded, Excused
  <2>3. ASSUME NEW i \in DOMAIN holders', Unguarded(i)'
        PROVE  holders'[i].file \in disturbed'
    <3>1. /\ i \in DOMAIN holders \/ i = Len(holders')
          /\ i \in DOMAIN holders => holders'[i] = holders[i]
          /\ holders'[Len(holders')] = NewHolder(file[t], number[t], NobodyHolds)
      BY <1>1, <2>1, NewHolderAppended
    <3>2. CASE i = Len(holders')
      BY <2>1, <3>1, <3>2 DEF NewHolder
    <3>3. CASE i \in DOMAIN holders
      BY <1>2, <2>3, <3>1, <3>3 DEF Guarded, Unguarded
    <3> QED  BY <3>1, <3>2, <3>3
  <2> QED  BY <1>3, <2>1, <2>2, <2>3 DEF Excused
<1>8. ASSUME NEW t \in Threads,
             LoadLock(t) \/ LoadFails(t) \/ LoadStat(t) \/ LoadRead(t)
      PROVE  Guarded'
  <2>1. PICK r \in Holder, place \in Places :
          /\ Became(t, r, place)
          /\ \/ Locked(t, r, place) \/ Failed(t, r, place)
             \/ Stated(t, r, place) \/ Loaded(t, r, place)
    BY <1>1, <1>8, LoadDoes
  <2>2. /\ at'[t] \in {"open", "thrown", "read", "returned"}
        /\ UNCHANGED <<file, disturbed>>
        /\ \A u \in Threads \ {t} : at'[u] = at[u]
    BY <1>1, <2>1 DEF Became, Locked, Failed, Stated, Loaded
  <2>3. ~(r.state_ = "loading" /\ r.lockedBy = NobodyHolds)
    BY <2>1, CacheAssumption DEF Locked, Failed, Stated, Loaded
  <2>4. ASSUME NEW i \in DOMAIN holders', Unguarded(i)'
        PROVE  Includes /\ holders'[i].file \in disturbed'
    <3>1. i \in DOMAIN holders /\ holders'[i] = IF i = holder[t] THEN r ELSE holders[i]
      BY <1>1, <2>1 DEF Became, Typed
    <3> QED  BY <2>2, <2>3, <2>4, <3>1 DEF Guarded, Unguarded
  <2> QED  BY <1>3, <2>2, <2>4 DEF Excused
<1>9. ASSUME UNCHANGED <<holders, at, file>> PROVE Guarded'
  BY <1>2, <1>4, <1>9 DEF Guarded, Excused
<1>10. CASE (\E t \in Threads : Expire(t)) \/ Erase
  BY <1>9, <1>10 DEF Expire, Erase
<1>11. CASE (\E f \in Files : Change(f)) \/ UNCHANGED vars
  BY <1>9, <1>11 DEF Change, vars
<1> QED  BY <1>5, <1>6, <1>7, <1>8, <1>10, <1>11 DEF Next, Step

(* ObjectHolder::is_modified (ObjectCache.hpp) throws "unexpected state"    *)
(* at a holder that is loading only where objects look at included files,  *)
(* and then only for a file that was put in the map without lock_ or was   *)
(* erased: no other interleaving of get(), load(), erase() and expiry gets *)
(* there.  ObjectHolder::object (ObjectCache.cpp) never throws its own.    *)
NeverUnexpected ==
  \A t \in Threads :
    /\ at[t] = "unexpected" => Includes /\ file[t] \in disturbed
    /\ at[t] \in {"reviewed", "object", "object2"} => ~Loading(holder[t])

THEOREM UnexpectedOnlyUnlocked == Spec => []NeverUnexpected
<1>1. Init => Guarded
  <2> SUFFICES ASSUME Init PROVE Guarded
    OBVIOUS
  <2>1. DOMAIN holders = {}
    BY DEF Init
  <2> QED  BY <2>1 DEF Init, Guarded, Excused
<1>2. IInv /\ Guarded /\ [Next]_vars => Guarded'
  BY StepGuarded
<1>3. IInv /\ Guarded => NeverUnexpected
  BY DEF IInv, Loaders, InHand, Loads, Loading, Guarded, Excused, NeverUnexpected
<1> QED  BY <1>1, <1>2, <1>3, Invariance, PTL DEF Spec
=============================================================================
