----------------------------- MODULE FileLogger -----------------------------
(***************************************************************************)
(* El::Logging::FileLogger: lines are appended to a file that policies     *)
(* rename, by its size or its age, to a name made of the time_ of the last *)
(* line.  A timer's event looks at the file now and then.                  *)
(*                                                                         *)
(* log(), raw_log() and what notify() does are done under lock_, each is   *)
(* one step.  Others touch the file too: it may be moved away, and calls   *)
(* of the system fail while something is broken.  The process may end and  *)
(* come again at any time; it then finds the files.                        *)
(***************************************************************************)
EXTENDS Integers, Sequences, Functions

CONSTANTS
  Polices,      \* polices_: a sequence of "time" and "size"
  period_,      \* of the policy by time, in steps of age
  size_,        \* of the policy by size, in lines
  MaxLines,     \* bound: lines logged
  MaxBreaks,    \* bound: how often something breaks
  MaxMoves,     \* bound: how often the file is moved away
  MaxStarts     \* bound: how often the process starts

(* What may be broken: fopen, rename, writing, creation of a thread. *)
Kinds == {"open", "rename", "write", "thread"}

ASSUME FileLoggerAssumption ==
  /\ Polices \in Seq({"time", "size"})
  /\ period_ \in Nat \ {0} /\ size_ \in Nat \ {0}
  /\ MaxLines \in Nat /\ MaxBreaks \in Nat /\ MaxMoves \in Nat
  /\ MaxStarts \in Nat

VARIABLES
  up,        \* there is a logger
  logger,    \* the object and the disk, see LoggerInit
  rotator_,  \* the timer: none yet, its event is "set", or it is "off"
  broken,    \* what is broken now
  logged,    \* the number of the last line
  reported,  \* the lines whose exception went to error_stream_
  breaks, moves, starts

loggerVars == <<up, logger, rotator_, broken, logged, reported, breaks, moves, starts>>

Lines == 1 .. MaxLines
Missing == <<0>>     \* no file has the name: no line is number 0

(* logger.output_: closed, open on the file, or on one that was moved      *)
(* away; stat_: st_size; age: of created_ at time_; time_: tells names of  *)
(* files apart, 0 for a time that was never set; file, aside, rotated: the *)
(* disk, aside being what was moved away; overwritten: history, the lines  *)
(* of files that others replaced; ok: FALSE while an exception is thrown.  *)
LoggerInit ==
  /\ up = FALSE
  /\ logger = [output_ |-> "closed", stat_ |-> 0, age |-> 0, time_ |-> 0,
               file |-> Missing, aside |-> <<>>, rotated |-> <<>>,
               overwritten |-> {}, ok |-> TRUE]
  /\ rotator_ = "none" /\ broken = {}
  /\ logged = 0 /\ reported = {}
  /\ breaks = 0 /\ moves = 0 /\ starts = 0

-----------------------------------------------------------------------------
(* What functions make of a logger; ok = FALSE is an exception on its way. *)
StatFile(l) == IF l.file = Missing THEN 0 ELSE Len(l.file)

(* gettimeofday(): a time later than that of any file, and any age. *)
Later(l) == IF DOMAIN l.rotated = {} THEN 1
            ELSE 1 + CHOOSE n \in DOMAIN l.rotated : \A m \in DOMAIN l.rotated : m <= n
SetTime(l, age) == [l EXCEPT !.time_ = Later(l), !.age = age]

(* Mutant: open() does not forget the size of the file before. *)
OpenKeepsStat(l) ==
  IF "open" \in broken THEN [l EXCEPT !.output_ = "closed", !.ok = FALSE]
  ELSE [l EXCEPT !.output_ = "file", !.age = 0,
                 !.file = IF @ = Missing THEN <<>> ELSE @]

Open(l) ==
  IF "open" \in broken THEN [l EXCEPT !.output_ = "closed", !.ok = FALSE]
  ELSE [l EXCEPT !.output_ = "file", !.age = 0, !.stat_ = 0,
                 !.file = IF @ = Missing THEN <<>> ELSE @]

need_rotate(l, policy) ==
  IF policy = "time" THEN l.age >= period_ /\ l.stat_ > 0
                     ELSE l.stat_ >= size_

(* rename() replaces a file of that name. *)
Rename(l) ==
  IF "rename" \in broken \/ l.file = Missing
  THEN [l EXCEPT !.output_ = "closed", !.ok = FALSE]
  ELSE [l EXCEPT !.output_ = "closed", !.file = Missing,
          !.overwritten = IF l.time_ \in DOMAIN l.rotated
                          THEN @ \union Range(l.rotated[l.time_]) ELSE @,
          !.rotated = [n \in DOMAIN @ \union {l.time_} |->
                         IF n = l.time_ THEN l.file ELSE @[n]]]

Rotate(l, policy) ==
  IF ~l.ok \/ ~need_rotate(l, policy) THEN l
  ELSE IF Rename(l).ok THEN Open(Rename(l)) ELSE Rename(l)

rotate_if_required(logger0) ==
  LET asked[i \in 0 .. Len(Polices)] ==
        IF i = 0 THEN logger0 ELSE Rotate(asked[i - 1], Polices[i])
  IN asked[Len(Polices)]

(* The second attempt is as strict as the first is lax: either is made     *)
(* good by the caller.                                                     *)
write_line(l, line) ==
  LET written ==
        IF l.output_ = "closed" \/ "write" \in broken THEN l
        ELSE IF l.output_ = "file" THEN [l EXCEPT !.file = Append(@, line)]
        ELSE [l EXCEPT !.aside = Append(@, line)]
  IN [written EXCEPT
        !.stat_ = IF l.output_ = "closed" \/ "write" \in broken THEN 0
                  ELSE StatFile(written),
        !.ok = /\ l.output_ # "closed" /\ "write" \notin broken
               /\ written.file # Missing]

(* Mutant: it is enough that the file could be opened again. *)
WriteLax(logger0, line) ==
  LET ready == rotate_if_required(logger0)
      first == write_line(ready, line)
      reopened == Open([first EXCEPT !.ok = TRUE])
  IN CASE ~ready.ok -> ready
       [] ready.ok /\ first.ok -> first
       [] ready.ok /\ ~first.ok /\ ~reopened.ok -> reopened
       [] OTHER -> [write_line(reopened, line) EXCEPT !.ok = TRUE]

Write(logger0, line) ==
  LET ready == rotate_if_required(logger0)
      first == write_line(ready, line)
      reopened == Open([first EXCEPT !.ok = TRUE])
  IN CASE ~ready.ok -> ready
       [] ready.ok /\ first.ok -> first
       [] ready.ok /\ ~first.ok /\ ~reopened.ok -> reopened
       [] OTHER -> write_line(reopened, line)

-----------------------------------------------------------------------------
Caught(l) == [l EXCEPT !.ok = TRUE]

(* write(), within log() or raw_log(): the first call starts the timer.    *)
(* What is thrown is reported, and the line is not written.                *)
Put(l) ==
  /\ logged < MaxLines /\ logged' = logged + 1
  /\ rotator_' = CASE rotator_ # "none" -> rotator_
                   [] rotator_ = "none" /\ "thread" \in broken -> "off"
                   [] OTHER -> "set"
  /\ LET result == IF rotator_ = "none" /\ "thread" \in broken
                   THEN [l EXCEPT !.ok = FALSE] ELSE Write(l, logged')
     IN /\ logger' = Caught(result)
        /\ reported' = IF result.ok THEN reported ELSE reported \union {logged'}
  /\ UNCHANGED <<up, broken, breaks, moves, starts>>

Log == up /\ \E age \in logger.age .. period_ : Put(SetTime(logger, age))

(* raw_log() leaves time_ as it is. *)
RawLog == up /\ Put(logger)

(* The formatter made nothing of a text. *)
LogNothing ==
  /\ up
  /\ \E age \in logger.age .. period_ : logger' = SetTime(logger, age)
  /\ UNCHANGED <<up, rotator_, broken, logged, reported, breaks, moves, starts>>

(* What notify() and the constructor do first. *)
Looked(l, age) ==
  IF StatFile(l) = 0 THEN [l EXCEPT !.stat_ = 0]
  ELSE rotate_if_required(SetTime([l EXCEPT !.stat_ = StatFile(l)], age))

(* Mutant: stat64 that fails leaves the old size behind. *)
NotifyKeepsStat ==
  /\ up /\ rotator_ = "set"
  /\ \E age \in logger.age .. period_ :
       LET l == IF logger.file = Missing THEN logger ELSE Looked(logger, age)
       IN /\ logger' = Caught(l)
          /\ rotator_' = IF l.ok THEN "set" ELSE "off"
  /\ UNCHANGED <<up, broken, logged, reported, breaks, moves, starts>>

(* notify(Rotate).  An exception ends the timer's thread, see Timer.  The  *)
(* event is set again outside the lock: nobody can tell, but a timer that  *)
(* was stopped meanwhile, which forgets it.                                *)
Notify ==
  /\ up /\ rotator_ = "set"
  /\ \E age \in logger.age .. period_ :
       LET l == Looked(logger, age)
       IN /\ logger' = Caught(l)
          /\ rotator_' = IF l.ok THEN "set" ELSE "off"
  /\ UNCHANGED <<up, broken, logged, reported, breaks, moves, starts>>

StopRotator ==
  /\ up /\ rotator_ = "set"
  /\ rotator_' = "off"
  /\ UNCHANGED <<up, logger, broken, logged, reported, breaks, moves, starts>>

(* The constructor, created_ being 0. *)
Construct ==
  /\ ~up /\ starts < MaxStarts
  /\ starts' = starts + 1
  /\ LET looked == Looked([logger EXCEPT !.time_ = 0], period_)
         opened == IF looked.ok /\ looked.output_ = "closed" THEN Open(looked)
                                                             ELSE looked
     IN /\ up' = opened.ok
        /\ logger' = IF opened.ok THEN opened
                     ELSE [Caught(opened) EXCEPT !.output_ = "closed"]
  /\ rotator_' = "none"
  /\ UNCHANGED <<broken, logged, reported, breaks, moves>>

(* The destructor, or the end of the process. *)
End ==
  /\ up
  /\ up' = FALSE
  /\ logger' = [logger EXCEPT !.output_ = "closed", !.stat_ = 0, !.time_ = 0,
                              !.age = 0]
  /\ rotator_' = "none"
  /\ UNCHANGED <<broken, logged, reported, breaks, moves, starts>>

-----------------------------------------------------------------------------
(* The rest of the world. *)
Break ==
  /\ breaks < MaxBreaks /\ breaks' = breaks + 1
  /\ \E kind \in Kinds \ broken : broken' = broken \union {kind}
  /\ UNCHANGED <<up, logger, rotator_, logged, reported, moves, starts>>

Repair ==
  /\ broken # {} /\ broken' = {}
  /\ UNCHANGED <<up, logger, rotator_, logged, reported, breaks, moves, starts>>

MoveAway ==
  /\ logger.file # Missing
  /\ moves < MaxMoves /\ moves' = moves + 1
  /\ logger' = [logger EXCEPT
                  !.aside = @ \o logger.file, !.file = Missing,
                  !.output_ = IF @ = "file" THEN "aside" ELSE @]
  /\ UNCHANGED <<up, rotator_, broken, logged, reported, breaks, starts>>

LoggerNext ==
  \/ Log \/ RawLog \/ LogNothing \/ Notify \/ StopRotator
  \/ Construct \/ End
  \/ Break \/ Repair \/ MoveAway

LoggerSpec == LoggerInit /\ [][LoggerNext]_loggerVars

(* The timer calls, and what is broken is repaired. *)
LoggerLiveSpec == LoggerSpec /\ WF_loggerVars(Notify) /\ WF_loggerVars(Repair)

-----------------------------------------------------------------------------
Written == Range(logger.file) \union Range(logger.aside) \union
             UNION {Range(logger.rotated[n]) : n \in DOMAIN logger.rotated}

LoggerTypeOK ==
  /\ up \in BOOLEAN /\ logged \in 0 .. MaxLines /\ reported \subseteq Lines
  /\ logger.output_ \in {"closed", "file", "aside"}
  /\ logger.stat_ \in Nat /\ logger.age \in 0 .. period_ /\ logger.time_ \in Nat
  /\ logger.file \in Seq(Lines) \union {Missing} /\ logger.aside \in Seq(Lines)
  /\ \A n \in DOMAIN logger.rotated : logger.rotated[n] \in Seq(Lines)
  /\ logger.overwritten \subseteq Lines /\ logger.ok
  /\ rotator_ \in {"none", "set", "off"} /\ broken \subseteq Kinds

(* A line is lost only with a report, or with a file that was overwritten, *)
(* whatever fails and whoever moves the file: it is somewhere, and the     *)
(* names of files are in the order of their lines.                         *)
NothingLost ==
  /\ LoggerTypeOK
  /\ Lines \intersect (1 .. logged) \subseteq
       Written \union reported \union logger.overwritten
  /\ \A m, n \in DOMAIN logger.rotated :
       0 < m /\ m < n => \A i \in Range(logger.rotated[m]),
                            j \in Range(logger.rotated[n]) : i < j

(* Only raw_log(), which does not set time_, gives two files one name:     *)
(* neither log(), nor notify(), nor a start ever replaces a rotated file,  *)
(* however many policies ask for a rotation at once.                       *)
RotatedFilesStay ==
  [][logger'.overwritten # logger.overwritten =>
       logger'.time_ = logger.time_ /\ logger.time_ \in DOMAIN logger.rotated]_loggerVars

(* A logger that believes in a file that is not there fails with each line *)
(* it gets; but as long as its timer runs it learns better.                *)
Misled == /\ up /\ logger.file = Missing
          /\ \E i \in DOMAIN Polices : need_rotate(logger, Polices[i])

Recovers == Misled ~> (~Misled \/ rotator_ # "set")
=============================================================================
