---------------------------- MODULE ObjectCache ----------------------------
(***************************************************************************)
(* El::Cache::FileCache: objects made from files, loaded again when their  *)
(* files, or files they include, have changed.                             *)
(*                                                                         *)
(* objects_ maps a file to a holder.  lock_ protects the map; a holder has *)
(* its own lock, kept by load() while it reads the file, so that one       *)
(* thread loads and the others wait.  That lock is also the lock of the    *)
(* holder's reference count: a reference is copied or dropped under it.  A *)
(* stretch of code under lock_ is one step; where it also needs a holder's *)
(* lock, the step waits for it.                                            *)
(*                                                                         *)
(* Times are abstracted: a review period or an object timeout may or may   *)
(* not have passed.  Files change in place, and a change makes a new       *)
(* version.  The code knows a version by what stat64 tells of it, the time *)
(* of the change in whole seconds and the size, which versions may share.  *)
(***************************************************************************)
EXTENDS Integers, Sequences, FiniteSets

CONSTANTS
  Threads,
  Files,
  MaxGets,       \* bound: calls of get
  MaxChanges,    \* bound: changes of files and of the files they include
  Stat,          \* Stat[f][v]: st_mtime and st_size of version v of file f
  IncludedStat,  \* IncludedStat[f][v]: the same of the files that f includes
  Includes,      \* TRUE: OBJECT overrides is_modified (VariablesMap)
  ReviewPeriod   \* TRUE: review_filetime_period_ is not zero

NobodyHolds == "nobody"
NoFile == "none"

ASSUME CacheAssumption ==
  /\ MaxGets \in Nat /\ MaxChanges \in Nat
  /\ Includes \in BOOLEAN /\ ReviewPeriod \in BOOLEAN
  /\ NobodyHolds \notin Threads /\ NoFile \notin Files

VARIABLES
  disk,              \* disk[f]: [present, version, included]
  objects_,          \* objects_[f]: the position of its holder; 0: none
  holders,           \* every holder ever made
  sequence_number_,
  at, file, holder,  \* where a thread is in get(), its argument and holder
  number,            \* number[t]: the sequence number t's object gets
  got,               \* got[t]: what get() returned
  since,             \* history: disk[file[t]] when t called get
  disturbed,         \* history: the files once erased from the map, or put
                     \* there without lock_
  gets, changes

cacheVars == <<objects_, holders, sequence_number_>>
threadVars == <<at, file, holder, number, got, since>>
bounds == <<gets, changes>>
vars == <<disk, cacheVars, threadVars, disturbed, bounds>>

Nothing == [version |-> 0, included |-> 0]

Init ==
  /\ disk = [f \in Files |-> [present |-> TRUE, version |-> 1, included |-> 1]]
  /\ objects_ = [f \in Files |-> 0]
  /\ holders = <<>>
  /\ sequence_number_ = 1
  /\ at = [t \in Threads |-> "idle"]
  /\ file = [t \in Threads |-> NoFile]
  /\ holder = [t \in Threads |-> 0]
  /\ number = [t \in Threads |-> 0]
  /\ got = [t \in Threads |-> Nothing]
  /\ since = [t \in Threads |-> Nothing]
  /\ disturbed = {}
  /\ gets = 0
  /\ changes = 0

-----------------------------------------------------------------------------
(* The environment changes files, in place. *)
Change(f) ==
  /\ changes < MaxChanges
  /\ changes' = changes + 1
  /\ \/ \E p \in BOOLEAN :
          /\ p \/ disk[f].present
          /\ disk' = [disk EXCEPT ![f].version = @ + 1, ![f].present = p]
     \/ /\ Includes
        /\ disk' = [disk EXCEPT ![f].included = @ + 1]
  /\ UNCHANGED <<cacheVars, threadVars, disturbed, gets>>

(* The holder t has in hand. *)
Mine(t) == holders[holder[t]]

(* A holder whose lock is free. *)
Unlocked(h) == holders[h].lockedBy = NobodyHolds

(* ObjectHolder::is_modified, of a holder that is not loading: modified_   *)
(* stands for modified_ and size_, which have what stat64 told of that     *)
(* version, and are compared with what it tells now.                       *)
IsModified(h, f) ==
  \/ holders[h].state_ # "loaded"
  \/ ~disk[f].present
  \/ Stat[f][holders[h].modified_] # Stat[f][disk[f].version]

(* Object::is_modified: included files, as stat64 told of them at the load. *)
ObjectIsModified(h, f) ==
  /\ Includes
  /\ IncludedStat[f][holders[h].included] # IncludedStat[f][disk[f].included]

-----------------------------------------------------------------------------
Get(t) ==
  /\ at[t] = "idle"
  /\ gets < MaxGets
  /\ gets' = gets + 1
  /\ \E f \in Files :
       /\ file' = [file EXCEPT ![t] = f]
       /\ since' = [since EXCEPT ![t] = [version |-> disk[f].version,
                                         included |-> disk[f].included]]
  /\ at' = [at EXCEPT ![t] = "first"]
  /\ UNCHANGED <<disk, cacheVars, holder, number, got, disturbed,
                 changes>>

(* object_timeout_: objects that were not accessed for long leave the map, *)
(* but for the one that is asked for.                                      *)
Expire(t) ==
  /\ at[t] = "first"
  /\ \A f \in Files : objects_[f] # 0 => Unlocked(objects_[f])
  /\ \E S \in SUBSET (Files \ {file[t]}) :
       /\ objects_' = [f \in Files |-> IF f \in S THEN 0 ELSE objects_[f]]
       /\ disturbed' = disturbed \union {f \in S : objects_[f] # 0}
  /\ UNCHANGED <<disk, holders, sequence_number_, threadVars, bounds>>

(* erase() and clear(); the map drops its references to the holders. *)
Erase ==
  /\ \E S \in SUBSET Files \ {{}} :
       /\ \A f \in S : objects_[f] # 0 => Unlocked(objects_[f])
       /\ objects_' = [f \in Files |-> IF f \in S THEN 0 ELSE objects_[f]]
       /\ disturbed' = disturbed \union {f \in S : objects_[f] # 0}
  /\ UNCHANGED <<disk, holders, sequence_number_, threadVars, bounds>>

Loading(h) == holders[h].state_ = "loading"

(* The first look, under a read lock: a holder that was reviewed lately    *)
(* answers unseen; otherwise it does when its file has not changed.        *)
FirstLook(t) ==
  LET h == objects_[file[t]] IN
  /\ at[t] = "first"
  /\ h # 0 => Unlocked(h)
  /\ \/ /\ ReviewPeriod
        /\ h # 0
        /\ ~Loading(h)
        /\ at' = [at EXCEPT ![t] = "reviewed"]
     \/ at' = [at EXCEPT ![t] =
                 IF h = 0 THEN "second"
                 ELSE IF Loading(h) THEN "unexpected"
                 ELSE IF IsModified(h, file[t]) THEN "second" ELSE "object"]
  /\ holder' = [holder EXCEPT ![t] = h]
  /\ UNCHANGED <<disk, cacheVars, file, number, got, since, disturbed, bounds>>

(* ObjectHolder::object, for a holder that was reviewed lately: it has     *)
(* been loaded, or the load failed and the exception is thrown again.      *)
ObjectReviewed(t) ==
  /\ at[t] = "reviewed"
  /\ Unlocked(holder[t])
  /\ at' = [at EXCEPT ![t] = IF Mine(t).state_ = "loaded" THEN "answered"
                             ELSE "thrown"]
  /\ UNCHANGED <<disk, cacheVars, file, holder, number, got, since, disturbed,
                 bounds>>

(* Mutant: a changed object always leads to the second look. *)
ObjectRetries(t) ==
  /\ at[t] \in {"object", "object2"}
  /\ Unlocked(holder[t])
  /\ IF ObjectIsModified(holder[t], file[t])
     THEN /\ at' = [at EXCEPT ![t] = "second"]
          /\ UNCHANGED got
     ELSE /\ at' = [at EXCEPT ![t] = "returned"]
          /\ got' = [got EXCEPT ![t] = [version |-> Mine(t).content,
                                        included |-> Mine(t).included]]
  /\ UNCHANGED <<disk, cacheVars, file, holder, number, since, disturbed,
                 bounds>>

(* object() and the object's own is_modified().  After the first look a    *)
(* changed object leads to the second; after that, straight to a load,     *)
(* with lock_ released before.                                             *)
Object(t) ==
  /\ at[t] \in {"object", "object2"}
  /\ Unlocked(holder[t])
  /\ IF ObjectIsModified(holder[t], file[t])
     THEN /\ at' = [at EXCEPT ![t] = IF @ = "object" THEN "second" ELSE "new"]
          /\ UNCHANGED got
     ELSE /\ at' = [at EXCEPT ![t] = "returned"]
          /\ got' = [got EXCEPT ![t] = [version |-> Mine(t).content,
                                        included |-> Mine(t).included]]
  /\ UNCHANGED <<disk, cacheVars, file, holder, number, since, disturbed,
                 bounds>>

NewHolder(f, n, locker) ==
  [file |-> f, number |-> n, state_ |-> "loading", lockedBy |-> locker,
   modified_ |-> 0, content |-> 0, included |-> 0]

(* Mutant: every thread that comes to the second look loads. *)
SecondLookLoads(t) ==
  LET f == file[t] IN
  /\ at[t] = "second"
  /\ objects_[f] # 0 => Unlocked(objects_[f])
  /\ holders' = Append(holders, NewHolder(f, sequence_number_, t))
  /\ objects_' = [objects_ EXCEPT ![f] = Len(holders')]
  /\ sequence_number_' = sequence_number_ + 1
  /\ holder' = [holder EXCEPT ![t] = Len(holders')]
  /\ at' = [at EXCEPT ![t] = "open"]
  /\ UNCHANGED <<disk, file, number, got, since, disturbed, bounds>>

(* The second look, under the write lock: unless another thread has loaded *)
(* the file in between, a new holder enters the map, and its lock is taken *)
(* before lock_ is released.                                               *)
SecondLook(t) ==
  LET f == file[t]
      h == objects_[f] IN
  /\ at[t] = "second"
  /\ h # 0 => Unlocked(h)
  /\ IF h # 0 /\ (Loading(h) \/ ~IsModified(h, f))
     THEN /\ at' = [at EXCEPT ![t] = IF Loading(h) THEN "unexpected"
                                     ELSE "object2"]
          /\ holder' = [holder EXCEPT ![t] = h]
          /\ UNCHANGED cacheVars
     ELSE /\ holders' = Append(holders, NewHolder(f, sequence_number_, t))
          /\ objects_' = [objects_ EXCEPT ![f] = Len(holders')]
          /\ sequence_number_' = sequence_number_ + 1
          /\ holder' = [holder EXCEPT ![t] = Len(holders')]
          /\ at' = [at EXCEPT ![t] = "open"]
  /\ UNCHANGED <<disk, file, number, got, since, disturbed, bounds>>

-----------------------------------------------------------------------------
(* The same without lock_, when the object's is_modified() was true: the   *)
(* counter is read and written, the holder published in the place of the   *)
(* one the map drops, its lock taken.                                      *)
NewRead(t) ==
  /\ at[t] = "new"
  /\ number' = [number EXCEPT ![t] = sequence_number_]
  /\ at' = [at EXCEPT ![t] = "new_write"]
  /\ UNCHANGED <<disk, cacheVars, file, holder, got, since, disturbed, bounds>>

NewWrite(t) ==
  /\ at[t] = "new_write"
  /\ sequence_number_' = number[t] + 1
  /\ at' = [at EXCEPT ![t] = "new_publish"]
  /\ UNCHANGED <<disk, objects_, holders, file, holder, number, got, since,
                 disturbed, bounds>>

NewPublish(t) ==
  /\ at[t] = "new_publish"
  /\ objects_[file[t]] # 0 => Unlocked(objects_[file[t]])
  /\ holders' = Append(holders, NewHolder(file[t], number[t], NobodyHolds))
  /\ objects_' = [objects_ EXCEPT ![file[t]] = Len(holders')]
  /\ holder' = [holder EXCEPT ![t] = Len(holders')]
  /\ at' = [at EXCEPT ![t] = "lock"]
  /\ disturbed' = disturbed \union {file[t]}
  /\ UNCHANGED <<disk, sequence_number_, file, number, got, since, bounds>>

LoadLock(t) ==
  /\ at[t] = "lock"
  /\ Unlocked(holder[t])
  /\ holders' = [holders EXCEPT ![holder[t]].lockedBy = t]
  /\ at' = [at EXCEPT ![t] = "open"]
  /\ UNCHANGED <<disk, objects_, sequence_number_, file, holder, number, got,
                 since, disturbed, bounds>>

-----------------------------------------------------------------------------
(* ObjectHolder::load: the file is opened and asked for its version ...    *)
LoadFails(t) ==
  /\ at[t] \in {"open", "stat"}
  /\ ~disk[file[t]].present
  /\ holders' = [holders EXCEPT ![holder[t]].state_ = "not_found",
                                ![holder[t]].lockedBy = NobodyHolds]
  /\ at' = [at EXCEPT ![t] = "thrown"]
  /\ UNCHANGED <<disk, objects_, sequence_number_, file, holder, number, got,
                 since, disturbed, bounds>>

LoadOpen(t) ==
  /\ at[t] = "open"
  /\ disk[file[t]].present
  /\ at' = [at EXCEPT ![t] = "stat"]
  /\ UNCHANGED <<disk, cacheVars, file, holder, number, got, since, disturbed,
                 bounds>>

LoadStat(t) ==
  /\ at[t] = "stat"
  /\ disk[file[t]].present
  /\ holders' = [holders EXCEPT ![holder[t]].modified_ = disk[file[t]].version]
  /\ at' = [at EXCEPT ![t] = "read"]
  /\ UNCHANGED <<disk, objects_, sequence_number_, file, holder, number, got,
                 since, disturbed, bounds>>

(* Mutant: the file is asked for its version when it has been read. *)
LoadReadThenStat(t) ==
  /\ at[t] = "read"
  /\ holders' = [holders EXCEPT ![holder[t]].content = Mine(t).modified_,
                                ![holder[t]].modified_ = disk[file[t]].version,
                                ![holder[t]].included = disk[file[t]].included,
                                ![holder[t]].state_ = "loaded",
                                ![holder[t]].lockedBy = NobodyHolds]
  /\ got' = [got EXCEPT ![t] = [version |-> Mine(t).modified_,
                                included |-> disk[file[t]].included]]
  /\ at' = [at EXCEPT ![t] = "returned"]
  /\ UNCHANGED <<disk, objects_, sequence_number_, file, holder, number, since,
                 disturbed, bounds>>

(* ... and read, as it was at a moment since, which may throw.             *)
LoadRead(t) ==
  /\ at[t] = "read"
  /\ \/ \E v \in Mine(t).modified_ .. disk[file[t]].version :
          LET content == [version |-> v, included |-> disk[file[t]].included]
          IN
          /\ holders' = [holders EXCEPT
               ![holder[t]].content = content.version,
               ![holder[t]].included = content.included,
               ![holder[t]].state_ = "loaded",
               ![holder[t]].lockedBy = NobodyHolds]
          /\ got' = [got EXCEPT ![t] = content]
          /\ at' = [at EXCEPT ![t] = "returned"]
     \/ /\ holders' = [holders EXCEPT
             ![holder[t]].state_ = "loading_error",
             ![holder[t]].lockedBy = NobodyHolds]
        /\ at' = [at EXCEPT ![t] = "thrown"]
        /\ UNCHANGED got
  /\ UNCHANGED <<disk, objects_, sequence_number_, file, holder, number, since,
                 disturbed, bounds>>

(* The caller has its object, or the exception. *)
Return(t) ==
  /\ at[t] \in {"returned", "answered", "thrown", "unexpected"}
  /\ at' = [at EXCEPT ![t] = "idle"]
  /\ got' = [got EXCEPT ![t] = Nothing]
  /\ since' = [since EXCEPT ![t] = Nothing]
  /\ file' = [file EXCEPT ![t] = NoFile]
  /\ holder' = [holder EXCEPT ![t] = 0]
  /\ number' = [number EXCEPT ![t] = 0]
  /\ UNCHANGED <<disk, cacheVars, disturbed, bounds>>

Step(t) ==
  \/ FirstLook(t) \/ ObjectReviewed(t) \/ Object(t) \/ SecondLook(t)
  \/ NewRead(t) \/ NewWrite(t) \/ NewPublish(t)
  \/ LoadLock(t) \/ LoadFails(t) \/ LoadOpen(t) \/ LoadStat(t) \/ LoadRead(t)
  \/ Return(t)

Next ==
  \/ \E f \in Files : Change(f)
  \/ \E t \in Threads : Get(t) \/ Expire(t) \/ Step(t)
  \/ Erase

Spec == Init /\ [][Next]_vars

(* Threads are scheduled and get the locks they wait for. *)
FairSpec == Spec /\ \A t \in Threads : SF_vars(Step(t))

-----------------------------------------------------------------------------
(* Every variable is in its type, and a holder's lock is only ever held by *)
(* the thread that loads it.                                               *)
TypeOK ==
  /\ objects_ \in [Files -> 0 .. Len(holders)]
  /\ disk \in [Files -> [present : BOOLEAN, version : 1 .. 1 + MaxChanges,
                         included : 1 .. 1 + MaxChanges]]
  /\ sequence_number_ \in Nat
  /\ holder \in [Threads -> 0 .. Len(holders)]
  /\ number \in [Threads -> Nat]
  /\ disturbed \subseteq Files
  /\ \A h \in DOMAIN holders :
       /\ holders[h].file \in Files
       /\ holders[h].state_ \in {"loading", "loaded", "not_found",
                                 "loading_error"}
       /\ holders[h].modified_ \in 0 .. 1 + MaxChanges
       /\ holders[h].content \in 0 .. 1 + MaxChanges
       /\ \/ holders[h].lockedBy = NobodyHolds
          \/ /\ holder[holders[h].lockedBy] = h
             /\ at[holders[h].lockedBy] \in {"open", "stat", "read"}

(* To stat64 version v looks like one that the disk has had since a time.  *)
LooksNew(stat, v, from, now) == \E u \in from .. now : stat[v] = stat[u]

(* get() returns an object older than what was on the disk when it was     *)
(* called only where stat64 cannot tell: the version it was asked of       *)
(* before the file was read looks like one that the disk has had since the *)
(* call (a change that kept the size, within the second).  The same holds  *)
(* of the files included, whatever other threads load, erase or expire     *)
(* meanwhile.  (An answer within the review period promises nothing.)      *)
Fresh ==
  /\ TypeOK
  /\ \A t \in Threads : at[t] = "returned" =>
       LET f == file[t]
           asked == Mine(t).modified_ IN
       /\ \/ got[t].version >= since[t].version
          \/ /\ asked <= got[t].version
             /\ LooksNew(Stat[f], asked, since[t].version, disk[f].version)
       /\ \/ got[t].included >= since[t].included
          \/ LooksNew(IncludedStat[f], got[t].included,
                      since[t].included, disk[f].included)

(* A version of a file is loaded once: threads that find the file changed  *)
(* at the same time share one load, as long as the file's object is not    *)
(* erased and not put in the map without lock_.                            *)
LoadedOnce ==
  \A i, j \in DOMAIN holders :
      /\ i # j
      /\ holders[i].file = holders[j].file
      /\ holders[i].file \notin disturbed
      /\ holders[i].state_ = "loaded" /\ holders[j].state_ = "loaded"
    => holders[i].modified_ # holders[j].modified_

(* get() returns, or throws. *)
GetReturns == \A t \in Threads : at[t] # "idle" ~> at[t] = "idle"
=============================================================================
