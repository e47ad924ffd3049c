----------------------------- MODULE Timer_proofs -----------------------------
(***************************************************************************)
(* Theorems about Timer: for any events and threads that set them, any     *)
(* bound of the times, any length at which backets are split, with or      *)
(* without minimize_delay, stops and triggers that throw.  And about       *)
(* FileLogger, whose rotator_ is a timer: for any list of polices, any     *)
(* lines, failures, moves of the file and starts.                          *)
(***************************************************************************)
EXTENDS Timer, FileLogger, SequenceTheorems, WellFoundedInduction, TLAPS

(* A backet: its events are different, sorted by their times, and its      *)
(* bounds are the times of the first and of the last.                      *)
Good(b) ==
  /\ b.events # <<>>
  /\ b.events_count = Len(b.events)
  /\ b.min_time = time[b.events[1]]
  /\ b.max_time = time[b.events[Len(b.events)]]
  /\ \A p, q \in DOMAIN b.events : p < q =>
       b.events[p] # b.events[q] /\ time[b.events[p]] <= time[b.events[q]]

(* A list of backets, the times of each before those of the next ones.     *)
Apart(b, c) == EventsOf(b.events) \intersect EventsOf(c.events) = {}

Chained(bs) ==
  /\ bs \in Seq(BacketType)
  /\ \A i \in DOMAIN bs : Good(bs[i])
  /\ \A i, j \in DOMAIN bs : i < j => bs[i].max_time <= bs[j].min_time /\ Apart(bs[i], bs[j])

AllOf(bs) == UNION {EventsOf(bs[i].events) : i \in DOMAIN bs}

Places == {"idle", "insert", "stop", "off", "run", "wait", "trigger"}

Typed ==
  /\ time \in [Events -> Times]
  /\ avg_delay_ \in Nat /\ worst \in Nat /\ deadline \in Nat
  /\ stop_ \in BOOLEAN
  /\ at \in [Threads -> Places]
  /\ request \in [Threads -> [event : Events \union {"none"}, time : Times]]
  /\ now \in Times
  /\ sets \in 0 .. MaxSets
  /\ doomed \subseteq Events

(* The list is chained, and its counters agree. *)
Listed ==
  /\ Chained(backets_)
  /\ backets_count_ = Len(backets_) /\ last_backet_ = Len(backets_)

(* An event that is on its way into the list is on one way only; its time  *)
(* is the one it was called with.                                          *)
Requests ==
  \A t \in Threads :
    /\ at[t] = "insert" <=> request[t].event # "none"
    /\ request[t].event # "none" =>
         /\ request[t].event \notin Queued \union doomed
         /\ time[request[t].event] = request[t].time
         /\ \A u \in Threads : request[u].event = request[t].event => u = t

IInv ==
  Typed /\ Listed /\ Requests /\ NeverSleepsPast /\ EarlyByHalfAtMost /\ StopForgets
-----------------------------------------------------------------------------

(* Sequences: a stretch from k to n - 1 is replaced. *)
Spliced(s, k, m, n) == SubSeq(s, 1, k - 1) \o m \o SubSeq(s, n, Len(s))

LEMMA Splicing ==
  ASSUME NEW S, NEW s \in Seq(S), NEW m \in Seq(S),
         NEW k \in 1 .. Len(s) + 1, NEW n \in k .. Len(s) + 1
  PROVE  /\ Spliced(s, k, m, n) \in Seq(S)
         /\ Len(Spliced(s, k, m, n)) = Len(s) + Len(m) + k - n
         /\ \A p \in 1 .. Len(s) + Len(m) + k - n :
              Spliced(s, k, m, n)[p] =
                IF p < k THEN s[p]
                ELSE IF p < k + Len(m) THEN m[p - k + 1]
                ELSE s[p - Len(m) - k + n]
<1> DEFINE a == SubSeq(s, 1, k - 1)
           c == SubSeq(s, n, Len(s))
<1>1. Len(s) \in Nat /\ Len(m) \in Nat /\ \A i \in 1 .. Len(s) : s[i] \in S
  BY LenProperties, ElementOfSeq
<1>2. /\ a \in Seq(S) /\ Len(a) = k - 1
      /\ \A p \in 1 .. k - 1 : a[p] = s[p]
  <2>1. \A i \in 1 .. k - 1 : s[i] \in S
    BY <1>1
  <2>2. /\ a \in Seq(S) /\ Len(a) = IF 1 <= k - 1 THEN k - 1 - 1 + 1 ELSE 0
        /\ \A p \in 1 .. k - 1 - 1 + 1 : a[p] = s[1 + p - 1]
    BY <2>1, SubSeqProperties
  <2> HIDE DEF a
  <2> QED  BY <2>2
<1>3. /\ c \in Seq(S) /\ Len(c) = Len(s) - n + 1
      /\ \A p \in 1 .. Len(s) - n + 1 : c[p] = s[n + p - 1]
  <2>1. \A i \in n .. Len(s) : s[i] \in S
    BY <1>1
  <2>2. /\ c \in Seq(S) /\ Len(c) = IF n <= Len(s) THEN Len(s) - n + 1 ELSE 0
        /\ \A p \in 1 .. Len(s) - n + 1 : c[p] = s[n + p - 1]
    BY <1>1, <2>1, SubSeqProperties
  <2> HIDE DEF c
  <2> QED  BY SMTT(30), <1>1, <2>2
<1>4. Spliced(s, k, m, n) = (a \o m) \o c
  BY DEF Spliced
<1> HIDE DEF a, c
<1> DEFINE d == a \o m
           r == d \o c
<1>5. /\ d \in Seq(S) /\ Len(d) = k - 1 + Len(m)
      /\ \A p \in 1 .. k - 1 + Len(m) : d[p] = IF p < k THEN s[p] ELSE m[p - k + 1]
  <2>1. /\ d \in Seq(S) /\ Len(d) = Len(a) + Len(m)
        /\ \A p \in 1 .. Len(a) + Len(m) :
             d[p] = IF p <= Len(a) THEN a[p] ELSE m[p - Len(a)]
    BY <1>2, ConcatProperties
  <2> HIDE DEF d
  <2> QED  BY <1>1, <1>2, <2>1
<1>6. d \in Seq(S)
  BY <1>5
<1> HIDE DEF d
<1>7. /\ r \in Seq(S) /\ Len(r) = Len(s) + Len(m) + k - n
      /\ Len(d) = k - 1 + Len(m)
      /\ \A p \in 1 .. Len(s) + Len(m) + k - n :
           r[p] = IF p <= Len(d) THEN d[p] ELSE c[p - Len(d)]
  <2>1. /\ r \in Seq(S) /\ Len(r) = Len(d) + Len(c)
        /\ \A p \in 1 .. Len(d) + Len(c) :
             r[p] = IF p <= Len(d) THEN d[p] ELSE c[p - Len(d)]
    BY <1>3, <1>6, ConcatProperties
  <2> HIDE DEF r
  <2>2. Len(d) + Len(c) = Len(s) + Len(m) + k - n
    BY SMTT(30), <1>1, <1>3, <1>5
  <2> QED  BY <1>5, <2>1, <2>2
<1> HIDE DEF r
<1>8. \A p \in 1 .. Len(d) : d[p] = IF p < k THEN s[p] ELSE m[p - k + 1]
  BY <1>5
<1>9. ASSUME NEW p \in 1 .. Len(s) + Len(m) + k - n
      PROVE  r[p] = IF p < k THEN s[p]
                    ELSE IF p < k + Len(m) THEN m[p - k + 1]
                    ELSE s[p - Len(m) - k + n]
  <2>1. CASE p <= Len(d)
    BY SMTT(30), <1>1, <1>7, <1>8, <2>1
  <2>2. CASE p > Len(d)
    <3>1. p - Len(d) \in 1 .. Len(s) - n + 1
      BY SMTT(30), <1>1, <1>7, <2>2
    <3>2. c[p - Len(d)] = s[n + (p - Len(d)) - 1] /\ n + (p - Len(d)) - 1 = p - Len(m) - k + n
      BY SMTT(30), <1>1, <1>3, <1>7, <3>1
    <3> QED  BY SMTT(30), <1>1, <1>7, <2>2, <3>2
  <2> QED  BY <1>7, <2>1, <2>2
<1> QED  BY <1>4, <1>7, <1>9 DEF d, r

(* One element is put in at k. *)
LEMMA SplicingOne ==
  ASSUME NEW S, NEW s \in Seq(S), NEW m \in Seq(S),
         NEW k \in 1 .. Len(s) + 1, NEW n \in k .. Len(s) + 1
  PROVE  Len(m) = 1 /\ n = k =>
           /\ Spliced(s, k, m, k) \in Seq(S)
           /\ Len(Spliced(s, k, m, k)) = Len(s) + 1
           /\ \A p \in 1 .. Len(s) + 1 :
                Spliced(s, k, m, k)[p] =
                  IF p < k THEN s[p] ELSE IF p = k THEN m[1] ELSE s[p - 1]
<1> DEFINE r == Spliced(s, k, m, n)
<1>1. \A p \in 1 .. Len(s) + Len(m) + k - n :
        r[p] = IF p < k THEN s[p]
               ELSE IF p < k + Len(m) THEN m[p - k + 1]
               ELSE s[p - Len(m) - k + n]
  BY Splicing, SMTT(60)
<1>2. Len(r) = Len(s) + Len(m) + k - n
  BY Splicing
<1>3. r \in Seq(S)
  BY Splicing
<1> SUFFICES ASSUME Len(m) = 1, n = k
             PROVE  /\ Spliced(s, k, m, k) \in Seq(S)
                    /\ Len(Spliced(s, k, m, k)) = Len(s) + 1
                    /\ \A p \in 1 .. Len(s) + 1 :
                         Spliced(s, k, m, k)[p] =
                           IF p < k THEN s[p] ELSE IF p = k THEN m[1] ELSE s[p - 1]
  OBVIOUS
<1> HIDE DEF r
<1>a. Len(s) \in Nat
  BY LenProperties
<1>4. Len(s) + Len(m) + k - n = Len(s) + 1
  BY <1>a
<1>5. ASSUME NEW p \in 1 .. Len(s) + 1
      PROVE  r[p] = IF p < k THEN s[p] ELSE IF p = k THEN m[1] ELSE s[p - 1]
  <2>1. CASE p < k
    BY <1>1, <1>4, <2>1
  <2>2. CASE p = k
    BY <1>1, <1>4, <2>2
  <2>3. CASE p > k
    <3>1. r[p] = s[p - Len(m) - k + n] /\ p - Len(m) - k + n = p - 1
      BY <1>1, <1>4, <2>3
    <3> QED  BY <2>3, <3>1
  <2> QED  BY <2>1, <2>2, <2>3
<1>6. r = Spliced(s, k, m, k)
  BY DEF r
<1> QED  BY <1>2, <1>3, <1>4, <1>5, <1>6

LEMMA Inserting ==
  ASSUME NEW S, NEW s \in Seq(S), NEW x \in S, NEW k \in 1 .. Len(s) + 1
  PROVE  /\ Spliced(s, k, <<x>>, k) \in Seq(S)
         /\ Len(Spliced(s, k, <<x>>, k)) = Len(s) + 1
         /\ \A p \in 1 .. Len(s) + 1 :
              Spliced(s, k, <<x>>, k)[p] =
                IF p < k THEN s[p] ELSE IF p = k THEN x ELSE s[p - 1]
<1>1. Len(s) \in Nat
  BY LenProperties
<1>a. <<x>> \in Seq(S)
  OBVIOUS
<1>2. PICK m \in Seq(S) : m = <<x>>
  BY <1>a
<1>3. Len(m) = 1 /\ m[1] = x
  BY <1>2
<1>4. PICK n \in k .. Len(s) + 1 : n = k
  BY <1>1
<1>5. /\ Spliced(s, k, m, k) \in Seq(S)
      /\ Len(Spliced(s, k, m, k)) = Len(s) + 1
      /\ \A p \in 1 .. Len(s) + 1 :
           Spliced(s, k, m, k)[p] =
             IF p < k THEN s[p] ELSE IF p = k THEN m[1] ELSE s[p - 1]
  <2>1. Len(m) = 1 /\ n = k =>
          /\ Spliced(s, k, m, k) \in Seq(S)
          /\ Len(Spliced(s, k, m, k)) = Len(s) + 1
          /\ \A p \in 1 .. Len(s) + 1 :
               Spliced(s, k, m, k)[p] =
                 IF p < k THEN s[p] ELSE IF p = k THEN m[1] ELSE s[p - 1]
    BY SplicingOne
  <2> QED  BY <1>3, <1>4, <2>1
<1> QED  BY <1>2, <1>3, <1>5

(* The least member of a set of numbers. *)
LEMMA LeastIs ==
  ASSUME NEW S \in SUBSET Nat, S # {}
  PROVE  Least(S) \in S /\ \A j \in S : Least(S) <= j
<1>1. \E i \in S : \A j \in S : ~(<<j, i>> \in OpToRel(<, Nat))
  BY NatLessThanWellFounded, WFMin
<1>2. \E i \in S : \A j \in S : i <= j
  <2>1. PICK i \in S : \A j \in S : ~(<<j, i>> \in OpToRel(<, Nat))
    BY <1>1
  <2>2. ASSUME NEW j \in S PROVE i <= j
    <3>1. i \in Nat /\ j \in Nat
      OBVIOUS
    <3>2. ~(j < i)
      BY <2>1, <3>1 DEF OpToRel
    <3> QED  BY <3>1, <3>2
  <2> QED  BY <2>2
<1> QED  BY <1>2 DEF Least


-----------------------------------------------------------------------------
(* Backets. *)
LEMMA GoodFacts ==
  ASSUME time \in [Events -> Times], NEW b \in BacketType, Good(b)
  PROVE  /\ Len(b.events) \in Nat \ {0} /\ DOMAIN b.events = 1 .. Len(b.events)
         /\ b.events \in Seq(Events)
         /\ \A p \in 1 .. Len(b.events) :
              /\ b.events[p] \in Events /\ time[b.events[p]] \in Nat
              /\ b.min_time <= time[b.events[p]] /\ time[b.events[p]] <= b.max_time
         /\ b.min_time \in Times /\ b.max_time \in Times
         /\ b.min_time \in Nat /\ b.max_time \in Nat /\ b.min_time <= b.max_time
<1>1. b.events \in Seq(Events) /\ b.min_time \in Times /\ b.max_time \in Times
  BY DEF BacketType
<1>2. Len(b.events) \in Nat \ {0} /\ DOMAIN b.events = 1 .. Len(b.events)
  BY <1>1, EmptySeq, LenProperties DEF Good
<1>3. \A p \in 1 .. Len(b.events) : b.events[p] \in Events
  BY <1>1, ElementOfSeq
<1>4. \A t \in Times : t \in Nat
  BY TimerAssumption DEF Times
<1>5. \A p \in 1 .. Len(b.events) : time[b.events[p]] \in Nat
  BY <1>3, <1>4
<1>6. ASSUME NEW p \in 1 .. Len(b.events)
      PROVE  b.min_time <= time[b.events[p]] /\ time[b.events[p]] <= b.max_time
  <2>1. 1 \in 1 .. Len(b.events) /\ Len(b.events) \in 1 .. Len(b.events)
    BY <1>2
  <2>2. b.min_time <= time[b.events[p]]
    <3>1. CASE p = 1
      BY <1>5, <3>1 DEF Good
    <3>2. CASE p > 1
      BY <1>2, <2>1, <3>2 DEF Good
    <3> QED  BY <3>1, <3>2
  <2>3. time[b.events[p]] <= b.max_time
    <3>1. CASE p = Len(b.events)
      BY <1>5, <3>1 DEF Good
    <3>2. CASE p < Len(b.events)
      BY <1>2, <2>1, <3>2 DEF Good
    <3> QED  BY <1>2, <3>1, <3>2
  <2> QED  BY <2>2, <2>3
<1>7. b.min_time <= b.max_time
  <2>1. 1 \in 1 .. Len(b.events)
    BY <1>2
  <2> QED  BY <1>1, <1>4, <1>5, <1>6, <2>1
<1> QED  BY <1>1, <1>2, <1>3, <1>4, <1>5, <1>6, <1>7

(* An event keeps a backet sorted. *)
LEMMA Entering ==
  ASSUME time \in [Events -> Times], NEW b \in BacketType, Good(b),
         NEW e \in Events, e \notin EventsOf(b.events)
  PROVE  LET c == WithEvent(b, e, time[e]) IN
         /\ c \in BacketType /\ Good(c)
         /\ EventsOf(c.events) = EventsOf(b.events) \union {e}
         /\ c.min_time = IF time[e] <= b.min_time THEN time[e] ELSE b.min_time
         /\ c.max_time = IF b.max_time <= time[e] THEN time[e] ELSE b.max_time
<1> DEFINE tm == time[e]
           n == Len(b.events)
           rest == {i \in DOMAIN b.events : tm <= time[b.events[i]]}
           k == IF b.min_time >= tm THEN 1
                ELSE IF b.max_time <= tm THEN n + 1
                ELSE Least(rest)
           s == SubSeq(b.events, 1, k - 1) \o <<e>> \o SubSeq(b.events, k, n)
           c == WithEvent(b, e, tm)
<1>1. /\ n \in Nat \ {0} /\ DOMAIN b.events = 1 .. n /\ b.events \in Seq(Events)
      /\ \A p \in 1 .. n :
           /\ b.events[p] \in Events /\ time[b.events[p]] \in Nat
           /\ b.min_time <= time[b.events[p]] /\ time[b.events[p]] <= b.max_time
      /\ b.min_time \in Times /\ b.max_time \in Times
      /\ b.min_time \in Nat /\ b.max_time \in Nat /\ b.min_time <= b.max_time
  BY GoodFacts
<1>2. tm \in Times /\ tm \in Nat
  BY TimerAssumption DEF Times
<1>3. c = [events |-> s, events_count |-> b.events_count + 1,
           min_time |-> IF b.min_time >= tm THEN tm ELSE b.min_time,
           max_time |-> IF b.min_time < tm /\ b.max_time <= tm THEN tm ELSE b.max_time]
  BY DEF WithEvent
<1>4. b.events_count = n /\ b.min_time = time[b.events[1]] /\ b.max_time = time[b.events[n]]
  BY DEF Good
<1>5. \A p, q \in 1 .. n : p < q =>
        b.events[p] # b.events[q] /\ time[b.events[p]] <= time[b.events[q]]
  BY <1>1 DEF Good
<1>6. /\ k \in 1 .. n + 1
      /\ \A p \in 1 .. n : /\ p < k => time[b.events[p]] <= tm
                           /\ p >= k => tm <= time[b.events[p]]
  <2>1. CASE b.min_time >= tm
    BY <1>1, <1>2, <2>1
  <2>2. CASE ~(b.min_time >= tm) /\ b.max_time <= tm
    BY <1>1, <1>2, <2>2
  <2>3. CASE ~(b.min_time >= tm) /\ ~(b.max_time <= tm)
    <3>1. n \in rest /\ rest \in SUBSET Nat
      BY <1>1, <1>2, <1>4, <2>3
    <3>2. k = Least(rest)
      BY <2>3
    <3> HIDE DEF k, rest
    <3>a. rest # {}
      BY <3>1
    <3>b. Least(rest) \in rest /\ \A j \in rest : Least(rest) <= j
      BY <3>1, <3>a, LeastIs
    <3>3. k \in rest /\ \A j \in rest : k <= j
      BY <3>2, <3>b
    <3> USE DEF rest
    <3>4. k \in 1 .. n /\ tm <= time[b.events[k]]
      BY <1>1, <3>3
    <3>5. ASSUME NEW p \in 1 .. n, p < k PROVE time[b.events[p]] <= tm
      <4>1. p \notin rest
        BY <3>3, <3>4, <3>5
      <4> QED  BY <1>1, <1>2, <4>1
    <3>6. ASSUME NEW p \in 1 .. n, p >= k PROVE tm <= time[b.events[p]]
      <4>1. p = k \/ time[b.events[k]] <= time[b.events[p]]
        BY <1>5, <3>4, <3>6
      <4> QED  BY <1>1, <1>2, <3>4, <4>1
    <3> QED  BY <1>1, <3>4, <3>5, <3>6
  <2> QED  BY <2>1, <2>2, <2>3
<1> HIDE DEF k, c
<1>7. /\ s \in Seq(Events) /\ Len(s) = n + 1
      /\ \A p \in 1 .. n + 1 : s[p] = IF p < k THEN b.events[p]
                                      ELSE IF p = k THEN e ELSE b.events[p - 1]
  <2>1. k \in 1 .. Len(b.events) + 1
    BY <1>6
  <2>2. s = Spliced(b.events, k, <<e>>, k)
    BY DEF Spliced
  <2> HIDE DEF s
  <2> QED  BY <1>1, <2>1, <2>2, Inserting
<1> HIDE DEF s
<1>8. DOMAIN s = 1 .. n + 1
  BY <1>7, LenProperties
<1>9. EventsOf(s) = EventsOf(b.events) \union {e}
  <2>1. ASSUME NEW p \in 1 .. n + 1 PROVE s[p] \in EventsOf(b.events) \union {e}
    <3>1. CASE p < k
      <4>1. p \in 1 .. n /\ s[p] = b.events[p]
        BY <1>1, <1>6, <1>7, <3>1
      <4> QED  BY <1>1, <4>1 DEF EventsOf
    <3>2. CASE p > k
      <4>1. p - 1 \in 1 .. n /\ s[p] = b.events[p - 1]
        BY <1>1, <1>6, <1>7, <3>2
      <4> QED  BY <1>1, <4>1 DEF EventsOf
    <3> QED  BY <1>6, <1>7, <3>1, <3>2
  <2>2. ASSUME NEW p \in 1 .. n PROVE b.events[p] \in EventsOf(s)
    <3>1. CASE p < k
      BY <1>1, <1>7, <1>8, <3>1 DEF EventsOf
    <3>2. CASE p >= k
      <4>1. p + 1 \in 1 .. n + 1 /\ s[p + 1] = b.events[p]
        BY <1>1, <1>6, <1>7, <3>2
      <4> QED  BY <1>8, <4>1 DEF EventsOf
    <3> QED  BY <1>6, <3>1, <3>2
  <2>3. e \in EventsOf(s)
    BY <1>6, <1>7, <1>8 DEF EventsOf
  <2> QED  BY <1>1, <1>8, <2>1, <2>2, <2>3 DEF EventsOf
<1>10. ASSUME NEW p \in 1 .. n + 1, NEW q \in 1 .. n + 1, p < q
       PROVE  s[p] # s[q] /\ time[s[p]] <= time[s[q]]
  <2>1. \A i \in 1 .. n : b.events[i] # e
    BY <1>1 DEF EventsOf
  <2>2. CASE q < k
    <3>1. /\ p \in 1 .. n /\ q \in 1 .. n
          /\ s[p] = b.events[p] /\ s[q] = b.events[q]
      BY <1>1, <1>6, <1>7, <1>10, <2>2
    <3> QED  BY <1>5, <1>10, <3>1
  <2>3. CASE q = k
    <3>1. p \in 1 .. n /\ s[p] = b.events[p] /\ s[q] = e /\ p < k
      BY <1>1, <1>6, <1>7, <1>10, <2>3
    <3> QED  BY <1>6, <2>1, <3>1
  <2>4. CASE q > k
    <3>1. q - 1 \in 1 .. n /\ s[q] = b.events[q - 1] /\ q - 1 >= k
      BY <1>1, <1>6, <1>7, <2>4
    <3>2. tm <= time[b.events[q - 1]]
      BY <1>6, <3>1
    <3>3. CASE p < k
      <4>1. p \in 1 .. n /\ s[p] = b.events[p] /\ p < q - 1
        BY <1>1, <1>6, <1>7, <1>10, <3>1, <3>3
      <4> QED  BY <1>5, <3>1, <4>1
    <3>4. CASE p = k
      <4>1. s[p] = e
        BY <1>6, <1>7, <3>4
      <4> QED  BY <2>1, <3>1, <3>2, <4>1
    <3>5. CASE p > k
      <4>1. p - 1 \in 1 .. n /\ s[p] = b.events[p - 1] /\ p - 1 < q - 1
        BY <1>1, <1>6, <1>7, <1>10, <3>5
      <4> QED  BY <1>5, <3>1, <4>1
    <3> QED  BY <1>6, <3>3, <3>4, <3>5
  <2> QED  BY <1>6, <2>2, <2>3, <2>4
<1>11. /\ c.events = s /\ c.events_count = n + 1
       /\ c.min_time = IF tm <= b.min_time THEN tm ELSE b.min_time
       /\ c.max_time = IF b.max_time <= tm THEN tm ELSE b.max_time
       /\ c \in BacketType
  <2>1. /\ c.events = s /\ c.events_count = n + 1
        /\ c.min_time = IF b.min_time >= tm THEN tm ELSE b.min_time
        /\ c.max_time = IF b.min_time < tm /\ b.max_time <= tm THEN tm ELSE b.max_time
    BY <1>3, <1>4
  <2>2. /\ c.min_time = IF tm <= b.min_time THEN tm ELSE b.min_time
        /\ c.max_time = IF b.max_time <= tm THEN tm ELSE b.max_time
    BY <1>1, <1>2, <2>1
  <2>3. c \in BacketType
    BY <1>1, <1>2, <1>3, <1>4, <1>7 DEF BacketType
  <2> QED  BY <2>1, <2>2, <2>3
<1>12. c.min_time = time[s[1]] /\ c.max_time = time[s[n + 1]]
  <2>1. s[1] = IF k = 1 THEN e ELSE b.events[1]
    BY <1>1, <1>6, <1>7
  <2>2. s[n + 1] = IF k = n + 1 THEN e ELSE b.events[n]
    BY <1>1, <1>6, <1>7
  <2>3. /\ k = 1 => tm <= time[b.events[1]]
        /\ k # 1 => time[b.events[1]] <= tm
        /\ k = n + 1 => time[b.events[n]] <= tm
        /\ k # n + 1 => tm <= time[b.events[n]]
    BY <1>1, <1>6
  <2>4. time[b.events[1]] \in Nat /\ time[b.events[n]] \in Nat
    BY <1>1
  <2> QED  BY <1>2, <1>4, <1>11, <2>1, <2>2, <2>3, <2>4
<1>13. Good(c)
  <2>1. s # <<>>
    BY <1>1, <1>7
  <2> QED  BY <1>7, <1>8, <1>10, <1>11, <1>12, <2>1 DEF Good
<1> QED  BY <1>9, <1>11, <1>13 DEF c


(* A stretch of a backet is a backet. *)
Stretch(b, i, j) ==
  [events |-> SubSeq(b.events, i, j), events_count |-> j - i + 1,
   min_time |-> time[b.events[i]], max_time |-> time[b.events[j]]]

LEMMA StretchIsGood ==
  ASSUME time \in [Events -> Times], NEW b \in BacketType, Good(b),
         NEW i \in 1 .. Len(b.events), NEW j \in i .. Len(b.events)
  PROVE  /\ Stretch(b, i, j) \in BacketType /\ Good(Stretch(b, i, j))
         /\ EventsOf(Stretch(b, i, j).events) = {b.events[p] : p \in i .. j}
         /\ Stretch(b, i, j).min_time = time[b.events[i]]
         /\ Stretch(b, i, j).max_time = time[b.events[j]]
<1> DEFINE n == Len(b.events)
           s == SubSeq(b.events, i, j)
           c == Stretch(b, i, j)
<1>1. /\ n \in Nat \ {0} /\ DOMAIN b.events = 1 .. n /\ b.events \in Seq(Events)
      /\ \A p \in 1 .. n : b.events[p] \in Events /\ time[b.events[p]] \in Times
  BY GoodFacts
<1>2. \A p, q \in 1 .. n : p < q =>
        b.events[p] # b.events[q] /\ time[b.events[p]] <= time[b.events[q]]
  BY <1>1 DEF Good
<1>3. /\ s \in Seq(Events) /\ Len(s) = j - i + 1
      /\ \A p \in 1 .. j - i + 1 : s[p] = b.events[i + p - 1]
  <2>1. \A p \in i .. j : b.events[p] \in Events
    BY <1>1
  <2>2. /\ s \in Seq(Events) /\ Len(s) = IF i <= j THEN j - i + 1 ELSE 0
        /\ \A p \in 1 .. j - i + 1 : s[p] = b.events[i + p - 1]
    BY <1>1, <2>1, SubSeqProperties
  <2> HIDE DEF s
  <2> QED  BY <1>1, <2>2
<1>4. /\ c.events = s /\ c.events_count = j - i + 1
      /\ c.min_time = time[b.events[i]] /\ c.max_time = time[b.events[j]]
  BY DEF Stretch
<1>5. c = [events |-> s, events_count |-> j - i + 1,
           min_time |-> time[b.events[i]], max_time |-> time[b.events[j]]]
  BY DEF Stretch
<1> HIDE DEF c, s
<1>6. DOMAIN s = 1 .. j - i + 1 /\ s # <<>>
  BY <1>1, <1>3, LenProperties
<1>7. c \in BacketType
  <2>1. j - i + 1 \in Nat /\ time[b.events[i]] \in Times /\ time[b.events[j]] \in Times
    BY <1>1
  <2> QED  BY <1>3, <1>5, <2>1 DEF BacketType
<1>8. s[1] = b.events[i] /\ s[j - i + 1] = b.events[j]
  <2>1. s[1] = b.events[i + 1 - 1] /\ s[j - i + 1] = b.events[i + (j - i + 1) - 1]
    BY <1>1, <1>3
  <2>2. i + 1 - 1 = i /\ i + (j - i + 1) - 1 = j
    BY <1>1
  <2> QED  BY <2>1, <2>2
<1>9. ASSUME NEW p \in 1 .. j - i + 1, NEW q \in 1 .. j - i + 1, p < q
      PROVE  s[p] # s[q] /\ time[s[p]] <= time[s[q]]
  <2>1. /\ i + p - 1 \in 1 .. n /\ i + q - 1 \in 1 .. n /\ i + p - 1 < i + q - 1
        /\ s[p] = b.events[i + p - 1] /\ s[q] = b.events[i + q - 1]
    BY SMTT(30), <1>1, <1>3, <1>9
  <2> QED  BY <1>2, <2>1
<1>10. Good(c)
  BY SMTT(30), <1>3, <1>4, <1>6, <1>8, <1>9 DEF Good
<1>11. EventsOf(s) = {b.events[p] : p \in i .. j}
  <2>1. ASSUME NEW p \in 1 .. j - i + 1
        PROVE  s[p] \in {b.events[q] : q \in i .. j}
    <3>1. i + p - 1 \in i .. j /\ s[p] = b.events[i + p - 1]
      BY <1>1, <1>3
    <3> QED  BY <3>1
  <2>2. ASSUME NEW q \in i .. j PROVE b.events[q] \in EventsOf(s)
    <3>1. q - i + 1 \in 1 .. j - i + 1 /\ i + (q - i + 1) - 1 = q
      BY <1>1
    <3>2. s[q - i + 1] = b.events[q]
      BY <1>3, <3>1
    <3> QED  BY <1>6, <3>1, <3>2 DEF EventsOf
  <2> QED  BY <1>6, <2>1, <2>2 DEF EventsOf
<1> QED  BY <1>4, <1>7, <1>10, <1>11 DEF c

LEMMA Half ==
  ASSUME NEW n \in Nat, n > 1
  PROVE  n \div 2 \in 1 .. n /\ n \div 2 + 1 \in 1 .. n
OBVIOUS

(* A backet is split into two that hold its events and keep their order. *)
LEMMA Halving ==
  ASSUME time \in [Events -> Times], NEW b \in BacketType, Good(b), Len(b.events) > 1
  PROVE  LET h == Halves(b) IN
         /\ h[1] \in BacketType /\ Good(h[1]) /\ h[2] \in BacketType /\ Good(h[2])
         /\ h[1].min_time = b.min_time /\ h[2].max_time = b.max_time
         /\ h[1].max_time <= h[2].min_time
         /\ Apart(h[1], h[2])
         /\ EventsOf(h[1].events) \union EventsOf(h[2].events) = EventsOf(b.events)
<1> DEFINE h == Halves(b)
<1>n. PICK n \in Nat : n = Len(b.events) /\ n > 1
  BY GoodFacts
<1>a. n > 1
  BY <1>n
<1>1. /\ DOMAIN b.events = 1 .. n
      /\ \A p \in 1 .. n : b.events[p] \in Events /\ time[b.events[p]] \in Times
  BY <1>n, GoodFacts
<1>2. /\ b.events_count = n
      /\ b.min_time = time[b.events[1]] /\ b.max_time = time[b.events[n]]
      /\ \A p, q \in 1 .. n : p < q =>
           b.events[p] # b.events[q] /\ time[b.events[p]] <= time[b.events[q]]
  BY <1>1, <1>n DEF Good
<1>3. PICK k \in 1 .. n : k = n \div 2 /\ k + 1 \in 1 .. n
  <2>1. n \div 2 \in 1 .. n /\ n \div 2 + 1 \in 1 .. n
    BY <1>a, Half
  <2> QED  BY <2>1
<1>b. k \in 1 .. n /\ k + 1 \in 1 .. n
  BY <1>3
<1>4. h[1] = Stretch(b, 1, k) /\ h[2] = Stretch(b, k + 1, n)
  <2>1. /\ h[1] = [events |-> SubSeq(b.events, 1, k), events_count |-> k,
                   min_time |-> time[b.events[1]], max_time |-> time[b.events[k]]]
        /\ h[2] = [events |-> SubSeq(b.events, k + 1, n), events_count |-> n - k,
                   min_time |-> time[b.events[k + 1]], max_time |-> time[b.events[n]]]
    BY <1>2, <1>3, <1>n DEF Halves
  <2>2. k - 1 + 1 = k /\ n - (k + 1) + 1 = n - k
    BY <1>a, <1>b
  <2> QED  BY <2>1, <2>2 DEF Stretch
<1> HIDE DEF h
<1>5. /\ h[1] \in BacketType /\ Good(h[1])
      /\ EventsOf(h[1].events) = {b.events[p] : p \in 1 .. k}
      /\ h[1].min_time = time[b.events[1]] /\ h[1].max_time = time[b.events[k]]
  <2>1. 1 \in 1 .. Len(b.events) /\ k \in 1 .. Len(b.events)
    BY <1>a, <1>b, <1>n
  <2>2. /\ Stretch(b, 1, k) \in BacketType /\ Good(Stretch(b, 1, k))
        /\ EventsOf(Stretch(b, 1, k).events) = {b.events[p] : p \in 1 .. k}
        /\ Stretch(b, 1, k).min_time = time[b.events[1]]
        /\ Stretch(b, 1, k).max_time = time[b.events[k]]
    BY <2>1, StretchIsGood
  <2> QED  BY <1>4, <2>2
<1>6. /\ h[2] \in BacketType /\ Good(h[2])
      /\ EventsOf(h[2].events) = {b.events[p] : p \in k + 1 .. n}
      /\ h[2].min_time = time[b.events[k + 1]] /\ h[2].max_time = time[b.events[n]]
  <2>1. PICK l \in 1 .. n : l = k + 1
    BY <1>b
  <2>2. l \in 1 .. Len(b.events) /\ n \in l .. Len(b.events)
    BY <1>a, <1>b, <1>n, <2>1
  <2>3. /\ Stretch(b, l, n) \in BacketType /\ Good(Stretch(b, l, n))
        /\ EventsOf(Stretch(b, l, n).events) = {b.events[p] : p \in l .. n}
        /\ Stretch(b, l, n).min_time = time[b.events[l]]
        /\ Stretch(b, l, n).max_time = time[b.events[n]]
    BY <2>2, StretchIsGood
  <2> QED  BY <1>4, <2>1, <2>3
<1>7. h[1].max_time <= h[2].min_time
  BY <1>n, <1>2, <1>3, <1>5, <1>6
<1>8. Apart(h[1], h[2])
  <2>1. ASSUME NEW p \in 1 .. k, NEW q \in k + 1 .. n PROVE b.events[p] # b.events[q]
    <3>1. p \in 1 .. n /\ q \in 1 .. n /\ p < q
      BY <1>a, <1>b
    <3> QED  BY <1>2, <3>1
  <2> QED  BY <1>5, <1>6, <2>1 DEF Apart
<1>9. EventsOf(h[1].events) \union EventsOf(h[2].events) = EventsOf(b.events)
  <2>1. \A p \in 1 .. n : p \in 1 .. k \/ p \in k + 1 .. n
    BY <1>a, <1>b
  <2>2. \A p \in 1 .. k : p \in 1 .. n
    BY <1>a, <1>b
  <2>3. \A p \in k + 1 .. n : p \in 1 .. n
    BY <1>a, <1>b
  <2> QED  BY <1>1, <1>5, <1>6, <2>1, <2>2, <2>3 DEF EventsOf
<1> QED  BY <1>2, <1>5, <1>6, <1>7, <1>8, <1>9 DEF h


-----------------------------------------------------------------------------
(* Lists of backets: a stretch of a list is replaced by another list whose *)
(* times lie between those of its neighbours.                              *)
LEMMA ChainFacts ==
  ASSUME time \in [Events -> Times], NEW bs, Chained(bs)
  PROVE  /\ Len(bs) \in Nat /\ DOMAIN bs = 1 .. Len(bs)
         /\ \A i \in 1 .. Len(bs) :
              /\ bs[i] \in BacketType /\ Good(bs[i])
              /\ bs[i].min_time \in Nat /\ bs[i].max_time \in Nat
              /\ bs[i].min_time <= bs[i].max_time
<1>1. Len(bs) \in Nat /\ DOMAIN bs = 1 .. Len(bs)
  BY LenProperties DEF Chained
<1>2. \A i \in 1 .. Len(bs) : bs[i] \in BacketType /\ Good(bs[i])
  BY <1>1, ElementOfSeq DEF Chained
<1>3. ASSUME NEW i \in 1 .. Len(bs)
      PROVE  /\ bs[i].min_time \in Nat /\ bs[i].max_time \in Nat
             /\ bs[i].min_time <= bs[i].max_time
  <2>1. bs[i] \in BacketType /\ Good(bs[i])
    BY <1>2
  <2> QED  BY <2>1, GoodFacts
<1> QED  BY <1>1, <1>2, <1>3

Relinked(r, bs, k, m, n) ==
  /\ Chained(r)
  /\ Len(r) = Len(bs) + Len(m) + k - n
  /\ AllOf(r) = (UNION {EventsOf(bs[p].events) : p \in (1 .. k - 1) \union (n .. Len(bs))})
                  \union AllOf(m)

LEMMA Chaining ==
  ASSUME time \in [Events -> Times], NEW bs, Chained(bs), NEW m, Chained(m),
         NEW k \in 1 .. Len(bs) + 1, NEW n \in k .. Len(bs) + 1,
         \A p \in 1 .. k - 1, q \in 1 .. Len(m) :
           bs[p].max_time <= m[q].min_time /\ Apart(bs[p], m[q]),
         \A p \in n .. Len(bs), q \in 1 .. Len(m) :
           m[q].max_time <= bs[p].min_time /\ Apart(m[q], bs[p])
  PROVE  Relinked(Spliced(bs, k, m, n), bs, k, m, n)
<1> DEFINE r == Spliced(bs, k, m, n)
           L == Len(bs) + Len(m) + k - n
<1>1. bs \in Seq(BacketType) /\ m \in Seq(BacketType)
  BY DEF Chained
<1>2. r \in Seq(BacketType) /\ Len(r) = L
  BY <1>1, Splicing
<1>3. \A p \in 1 .. L : r[p] = IF p < k THEN bs[p]
                               ELSE IF p < k + Len(m) THEN m[p - k + 1]
                               ELSE bs[p - Len(m) - k + n]
  BY <1>1, Splicing, SMTT(60)
<1>4. /\ Len(bs) \in Nat /\ Len(m) \in Nat /\ DOMAIN bs = 1 .. Len(bs) /\ DOMAIN m = 1 .. Len(m)
  BY ChainFacts
<1>5. /\ \A p \in 1 .. Len(bs) : Good(bs[p])
      /\ \A p \in 1 .. Len(m) : Good(m[p])
      /\ \A p, q \in 1 .. Len(bs) : p < q =>
           bs[p].max_time <= bs[q].min_time /\ Apart(bs[p], bs[q])
      /\ \A p, q \in 1 .. Len(m) : p < q =>
           m[p].max_time <= m[q].min_time /\ Apart(m[p], m[q])
  BY <1>4 DEF Chained
<1> HIDE DEF r
<1>6. DOMAIN r = 1 .. L
  BY <1>2, LenProperties
<1>7. PICK ln \in Nat : ln = Len(m)
  BY <1>4
<1>8. PICK lb \in Nat : lb = Len(bs)
  BY <1>4
<1>9. ASSUME NEW p \in 1 .. L
      PROVE  \/ p \in 1 .. k - 1 /\ p \in 1 .. lb /\ r[p] = bs[p]
             \/ \E q \in 1 .. ln : q = p - k + 1 /\ r[p] = m[q]
             \/ \E q \in n .. lb : q = p - ln - k + n /\ q \in 1 .. lb /\ r[p] = bs[q]
  <2>1. k \in 1 .. lb + 1 /\ n \in k .. lb + 1 /\ p \in 1 .. lb + ln + k - n
    BY <1>7, <1>8
  <2>2. CASE p < k
    <3>1. p \in 1 .. k - 1 /\ p \in 1 .. lb
      BY <2>1, <2>2
    <3> QED  BY <1>3, <2>2, <3>1
  <2>3. CASE ~(p < k) /\ p < k + ln
    <3>1. p - k + 1 \in 1 .. ln
      BY <2>1, <2>3
    <3> QED  BY <1>3, <1>7, <2>3, <3>1
  <2>4. CASE ~(p < k) /\ ~(p < k + ln)
    <3>1. p - ln - k + n \in n .. lb /\ p - ln - k + n \in 1 .. lb
      BY <2>1, <2>4
    <3> QED  BY <1>3, <1>7, <2>4, <3>1
  <2> QED  BY <2>2, <2>3, <2>4
<1>10. ASSUME NEW p \in 1 .. L PROVE Good(r[p])
  BY <1>5, <1>7, <1>8, <1>9
<1>11. ASSUME NEW p \in 1 .. L, NEW q \in 1 .. L, p < q
       PROVE  r[p].max_time <= r[q].min_time /\ Apart(r[p], r[q])
  <2>1. CASE p \in 1 .. k - 1 /\ p \in 1 .. lb /\ r[p] = bs[p]
    <3>1. CASE q \in 1 .. lb /\ r[q] = bs[q]
      BY <1>5, <1>8, <1>11, <2>1, <3>1
    <3>2. CASE \E j \in 1 .. ln : j = q - k + 1 /\ r[q] = m[j]
      BY <1>7, <1>8, <2>1, <3>2
    <3>3. CASE \E j \in n .. lb : j = q - ln - k + n /\ j \in 1 .. lb /\ r[q] = bs[j]
      <4>1. PICK j \in n .. lb : j = q - ln - k + n /\ j \in 1 .. lb /\ r[q] = bs[j]
        BY <3>3
      <4>2. p < j
        BY <2>1, <4>1
      <4> QED  BY <1>5, <1>8, <2>1, <4>1, <4>2
    <3> QED  BY <1>9, <3>1, <3>2, <3>3
  <2>2. CASE \E i \in 1 .. ln : i = p - k + 1 /\ r[p] = m[i]
    <3>1. PICK i \in 1 .. ln : i = p - k + 1 /\ r[p] = m[i]
      BY <2>2
    <3>2. CASE q \in 1 .. k - 1
      BY <1>11, <3>1, <3>2
    <3>3. CASE \E j \in 1 .. ln : j = q - k + 1 /\ r[q] = m[j]
      <4>1. PICK j \in 1 .. ln : j = q - k + 1 /\ r[q] = m[j]
        BY <3>3
      <4>2. i < j
        BY <1>11, <3>1, <4>1
      <4> QED  BY <1>5, <1>7, <3>1, <4>1, <4>2
    <3>4. CASE \E j \in n .. lb : j = q - ln - k + n /\ j \in 1 .. lb /\ r[q] = bs[j]
      BY <1>7, <1>8, <3>1, <3>4
    <3> QED  BY <1>9, <3>2, <3>3, <3>4
  <2>3. CASE \E i \in n .. lb : i = p - ln - k + n /\ i \in 1 .. lb /\ r[p] = bs[i]
    <3>1. PICK i \in n .. lb : i = p - ln - k + n /\ i \in 1 .. lb /\ r[p] = bs[i]
      BY <2>3
    <3>2. CASE q \in 1 .. k - 1
      BY <1>11, <3>1, <3>2
    <3>3. CASE \E j \in 1 .. ln : j = q - k + 1 /\ r[q] = m[j]
      BY <1>11, <3>1, <3>3
    <3>4. CASE \E j \in n .. lb : j = q - ln - k + n /\ j \in 1 .. lb /\ r[q] = bs[j]
      <4>1. PICK j \in n .. lb : j = q - ln - k + n /\ j \in 1 .. lb /\ r[q] = bs[j]
        BY <3>4
      <4>2. i < j
        BY <1>11, <3>1, <4>1
      <4> QED  BY <1>5, <1>8, <3>1, <4>1, <4>2
    <3> QED  BY <1>9, <3>2, <3>3, <3>4
  <2> QED  BY <1>9, <2>1, <2>2, <2>3
<1>12. Chained(r)
  BY <1>2, <1>6, <1>10, <1>11 DEF Chained
<1>13. AllOf(r) = (UNION {EventsOf(bs[p].events) : p \in (1 .. k - 1) \union (n .. Len(bs))})
                    \union AllOf(m)
  <2>1. ASSUME NEW p \in 1 .. L
        PROVE  \/ \E q \in (1 .. k - 1) \union (n .. Len(bs)) : r[p] = bs[q]
               \/ \E q \in 1 .. Len(m) : r[p] = m[q]
    BY <1>7, <1>8, <1>9
  <2>2. ASSUME NEW q \in 1 .. k - 1 PROVE \E p \in 1 .. L : r[p] = bs[q]
    <3>1. q \in 1 .. L /\ q < k
      BY <1>7, <1>8
    <3> QED  BY <1>3, <3>1
  <2>3. ASSUME NEW q \in n .. Len(bs) PROVE \E p \in 1 .. L : r[p] = bs[q]
    <3>1. q \in n .. lb /\ k \in 1 .. lb + 1 /\ n \in k .. lb + 1
      BY <1>8
    <3>2. q + ln + k - n \in 1 .. lb + ln + k - n
      BY <3>1
    <3>3. PICK p \in 1 .. lb + ln + k - n : p = q + ln + k - n
      BY <3>2
    <3>4. ~(p < k) /\ ~(p < k + ln) /\ p - ln - k + n = q
      BY <3>1, <3>3
    <3> QED  BY <1>3, <1>7, <1>8, <3>4
  <2>4. ASSUME NEW q \in 1 .. Len(m) PROVE \E p \in 1 .. L : r[p] = m[q]
    <3>1. PICK p \in 1 .. lb + ln + k - n : p = q + k - 1 /\ ~(p < k) /\ p < k + ln /\ p - k + 1 = q
      BY <1>7, <1>8
    <3> QED  BY <1>3, <1>7, <1>8, <3>1
  <2> DEFINE U == UNION {EventsOf(bs[p].events) : p \in (1 .. k - 1) \union (n .. Len(bs))}
  <2>5. ASSUME NEW p \in 1 .. L PROVE EventsOf(r[p].events) \subseteq U \union AllOf(m)
    BY <1>4, <2>1 DEF AllOf
  <2>6. ASSUME NEW q \in (1 .. k - 1) \union (n .. Len(bs))
        PROVE  EventsOf(bs[q].events) \subseteq AllOf(r)
    BY <1>6, <2>2, <2>3 DEF AllOf
  <2>7. ASSUME NEW q \in 1 .. Len(m) PROVE EventsOf(m[q].events) \subseteq AllOf(r)
    BY <1>6, <2>4 DEF AllOf
  <2>8. AllOf(r) \subseteq U \union AllOf(m)
    BY <1>6, <2>5 DEF AllOf
  <2>9. AllOf(m) \subseteq AllOf(r)
    <3>1. AllOf(m) = UNION {EventsOf(m[q].events) : q \in 1 .. Len(m)}
      BY <1>4 DEF AllOf
    <3> QED  BY <2>7, <3>1
  <2>10. U \subseteq AllOf(r)
    BY <2>6
  <2> HIDE DEF U
  <2>11. AllOf(r) = U \union AllOf(m)
    BY <2>8, <2>9, <2>10
  <2> QED  BY <2>11 DEF U
<1> QED  BY <1>2, <1>12, <1>13 DEF r, Relinked


LEMMA One ==
  ASSUME NEW c \in BacketType, Good(c)
  PROVE  /\ Chained(<<c>>) /\ Len(<<c>>) = 1 /\ <<c>>[1] = c
         /\ AllOf(<<c>>) = EventsOf(c.events)
<1>1. <<c>> \in Seq(BacketType) /\ Len(<<c>>) = 1 /\ <<c>>[1] = c /\ DOMAIN <<c>> = {1}
  OBVIOUS
<1>2. Chained(<<c>>)
  BY <1>1 DEF Chained
<1>3. AllOf(<<c>>) = EventsOf(c.events)
  BY <1>1 DEF AllOf
<1> QED  BY <1>1, <1>2, <1>3

LEMMA Two ==
  ASSUME NEW c \in BacketType, Good(c), NEW d \in BacketType, Good(d),
         c.max_time <= d.min_time, Apart(c, d)
  PROVE  /\ Chained(<<c, d>>) /\ Len(<<c, d>>) = 2
         /\ <<c, d>>[1] = c /\ <<c, d>>[2] = d
         /\ AllOf(<<c, d>>) = EventsOf(c.events) \union EventsOf(d.events)
<1> DEFINE m == <<c, d>>
<1>1. m \in Seq(BacketType) /\ Len(m) = 2 /\ m[1] = c /\ m[2] = d /\ DOMAIN m = {1, 2}
  OBVIOUS
<1> HIDE DEF m
<1>2. Chained(m)
  <2>1. ASSUME NEW i \in {1, 2} PROVE Good(m[i])
    BY <1>1
  <2>2. ASSUME NEW i \in {1, 2}, NEW j \in {1, 2}, i < j PROVE i = 1 /\ j = 2
    BY <2>2
  <2> QED  BY <1>1, <2>1, <2>2 DEF Chained
<1>3. AllOf(m) = EventsOf(c.events) \union EventsOf(d.events)
  BY <1>1 DEF AllOf
<1> QED  BY <1>1, <1>2, <1>3 DEF m

LEMMA Rest ==
  ASSUME time \in [Events -> Times], NEW bs, Chained(bs), bs # <<>>
  PROVE  /\ Chained(Tail(bs)) /\ Len(Tail(bs)) = Len(bs) - 1
         /\ AllOf(Tail(bs)) = AllOf(bs) \ EventsOf(bs[1].events)
<1> DEFINE r == Tail(bs)
<1>1. bs \in Seq(BacketType)
  BY DEF Chained
<1>2. Len(bs) \in Nat /\ DOMAIN bs = 1 .. Len(bs)
  BY ChainFacts
<1>3. PICK n \in Nat : n = Len(bs) /\ n >= 1
  <2>1. Len(bs) # 0
    BY <1>1, EmptySeq
  <2>2. Len(bs) >= 1
    BY <1>2, <2>1
  <2> QED  BY <1>2, <2>2
<1>4. r \in Seq(BacketType) /\ Len(r) = n - 1 /\ \A i \in 1 .. n - 1 : r[i] = bs[i + 1]
  BY <1>1, <1>3, HeadTailProperties
<1> HIDE DEF r
<1>5. DOMAIN r = 1 .. n - 1
  BY <1>4, LenProperties
<1>6. \A i \in 1 .. n - 1 : i + 1 \in 1 .. n
  BY <1>3
<1>7. /\ \A i \in 1 .. n : Good(bs[i])
      /\ \A i, j \in 1 .. n : i < j => bs[i].max_time <= bs[j].min_time /\ Apart(bs[i], bs[j])
  BY <1>2, <1>3 DEF Chained
<1>8. \A i \in 1 .. n - 1 : Good(r[i])
  BY <1>4, <1>6, <1>7
<1>9. ASSUME NEW i \in 1 .. n - 1, NEW j \in 1 .. n - 1, i < j
      PROVE  r[i].max_time <= r[j].min_time /\ Apart(r[i], r[j])
  <2>1. i + 1 \in 1 .. n /\ j + 1 \in 1 .. n /\ i + 1 < j + 1
    BY <1>3, <1>9
  <2> QED  BY <1>4, <1>7, <2>1
<1>10. Chained(r)
  BY <1>4, <1>5, <1>8, <1>9 DEF Chained
<1>11. AllOf(r) = AllOf(bs) \ EventsOf(bs[1].events)
  <2>1. ASSUME NEW j \in 1 .. n
        PROVE  j = 1 \/ \E i \in 1 .. n - 1 : i + 1 = j
    <3>1. j = 1 \/ (j - 1 \in 1 .. n - 1 /\ (j - 1) + 1 = j)
      BY <1>3
    <3> QED  BY <3>1
  <2>2. AllOf(bs) \ EventsOf(bs[1].events) \subseteq AllOf(r)
    <3>1. ASSUME NEW e \in AllOf(bs), e \notin EventsOf(bs[1].events) PROVE e \in AllOf(r)
      <4>1. PICK j \in 1 .. n : e \in EventsOf(bs[j].events)
        BY <1>2, <1>3 DEF AllOf
      <4>2. PICK i \in 1 .. n - 1 : i + 1 = j
        BY <2>1, <3>1, <4>1
      <4>3. e \in EventsOf(r[i].events)
        BY <1>4, <4>1, <4>2
      <4> QED  BY <1>5, <4>3 DEF AllOf
    <3> QED  BY <3>1
  <2>3. ASSUME NEW i \in 1 .. n - 1
        PROVE  EventsOf(r[i].events) \subseteq AllOf(bs) \ EventsOf(bs[1].events)
    <3>1. 1 \in 1 .. n /\ i + 1 \in 1 .. n /\ 1 < i + 1 /\ r[i] = bs[i + 1]
      BY <1>3, <1>4
    <3>2. Apart(bs[1], r[i])
      BY <1>7, <3>1
    <3> QED  BY <1>2, <1>3, <3>1, <3>2 DEF AllOf, Apart
  <2>4. AllOf(r) \subseteq AllOf(bs) \ EventsOf(bs[1].events)
    <3>1. AllOf(r) = UNION {EventsOf(r[i].events) : i \in 1 .. n - 1}
      BY <1>5 DEF AllOf
    <3> QED  BY <2>3, <3>1
  <2> QED  BY <2>2, <2>4
<1> QED  BY <1>3, <1>4, <1>10, <1>11 DEF r

(* A backet gets one more event, and is perhaps split. *)
Widened(r, bs, m, e) ==
  Chained(r) /\ Len(r) = Len(bs) + Len(m) - 1 /\ AllOf(r) = AllOf(bs) \union {e}

(* By either of two ways. *)
LEMMA Transits ==
  /\ \A u, v, x, y \in Nat : u <= v /\ u <= x /\ (v <= y \/ x <= y) => u <= y
  /\ \A u, v, x, y \in Nat : v <= y /\ x <= y /\ (u <= v \/ u <= x) => u <= y
OBVIOUS

LEMMA Widening ==
  ASSUME time \in [Events -> Times], NEW bs, Chained(bs), NEW m, Chained(m),
         NEW i \in 1 .. Len(bs), NEW tm \in Nat, NEW e, e \notin AllOf(bs),
         \A p \in 1 .. Len(bs) : /\ p < i => bs[p].max_time <= tm
                                 /\ p > i => tm <= bs[p].min_time,
         \A q \in 1 .. Len(m) : /\ tm <= m[q].min_time \/ bs[i].min_time <= m[q].min_time
                                /\ m[q].max_time <= tm \/ m[q].max_time <= bs[i].max_time,
         AllOf(m) = EventsOf(bs[i].events) \union {e}
  PROVE  Widened(Spliced(bs, i, m, i + 1), bs, m, e)
<1>1. /\ Len(bs) \in Nat /\ DOMAIN bs = 1 .. Len(bs)
      /\ \A p \in 1 .. Len(bs) : /\ bs[p].min_time \in Nat /\ bs[p].max_time \in Nat
                                 /\ bs[p].min_time <= bs[p].max_time
  BY ChainFacts
<1>2. /\ Len(m) \in Nat /\ DOMAIN m = 1 .. Len(m)
      /\ \A q \in 1 .. Len(m) : m[q].min_time \in Nat /\ m[q].max_time \in Nat
  BY ChainFacts
<1>3. \A p, q \in 1 .. Len(bs) : p < q =>
        bs[p].max_time <= bs[q].min_time /\ Apart(bs[p], bs[q])
  BY <1>1 DEF Chained
<1>4. PICK k \in i .. Len(bs) + 1 : k = i + 1
  BY <1>1
<1>5. ASSUME NEW p \in 1 .. Len(bs), NEW q \in 1 .. Len(m), p # i
      PROVE  EventsOf(bs[p].events) \intersect EventsOf(m[q].events) = {}
  <2>1. EventsOf(m[q].events) \subseteq EventsOf(bs[i].events) \union {e}
    BY <1>2 DEF AllOf
  <2>2. e \notin EventsOf(bs[p].events)
    BY <1>1 DEF AllOf
  <2>3. EventsOf(bs[p].events) \intersect EventsOf(bs[i].events) = {}
    <3>1. CASE p < i
      BY <1>3, <3>1 DEF Apart
    <3>2. CASE i < p
      BY <1>3, <3>2 DEF Apart
    <3> QED  BY <1>5, <3>1, <3>2
  <2> QED  BY <2>1, <2>2, <2>3
<1>6. ASSUME NEW p \in 1 .. i - 1, NEW q \in 1 .. Len(m)
      PROVE  bs[p].max_time <= m[q].min_time /\ Apart(bs[p], m[q])
  <2>1. p \in 1 .. Len(bs) /\ p < i /\ p # i
    BY <1>1
  <2>2. bs[p].max_time <= tm /\ bs[p].max_time <= bs[i].min_time
    BY <1>3, <2>1
  <2>3. bs[p].max_time \in Nat /\ bs[i].min_time \in Nat /\ m[q].min_time \in Nat
    BY <1>1, <1>2, <2>1
  <2>4. tm <= m[q].min_time \/ bs[i].min_time <= m[q].min_time
    OBVIOUS
  <2>5. bs[p].max_time <= m[q].min_time
    BY <2>2, <2>3, <2>4, Transits
  <2> QED  BY <1>5, <2>1, <2>5 DEF Apart
<1>7. ASSUME NEW p \in k .. Len(bs), NEW q \in 1 .. Len(m)
      PROVE  m[q].max_time <= bs[p].min_time /\ Apart(m[q], bs[p])
  <2>1. p \in 1 .. Len(bs) /\ p > i /\ i < p /\ p # i
    BY <1>1, <1>4
  <2>2. tm <= bs[p].min_time /\ bs[i].max_time <= bs[p].min_time
    BY <1>3, <2>1
  <2>3. bs[p].min_time \in Nat /\ bs[i].max_time \in Nat /\ m[q].max_time \in Nat
    BY <1>1, <1>2, <2>1
  <2>4. m[q].max_time <= tm \/ m[q].max_time <= bs[i].max_time
    OBVIOUS
  <2>5. m[q].max_time <= bs[p].min_time
    BY <2>2, <2>3, <2>4, Transits
  <2> QED  BY <1>5, <2>1, <2>5 DEF Apart
<1> DEFINE r == Spliced(bs, i, m, k)
<1>8. i \in 1 .. Len(bs) + 1
  BY <1>1
<1>9. /\ Chained(r) /\ Len(r) = Len(bs) + Len(m) + i - k
      /\ AllOf(r) = (UNION {EventsOf(bs[p].events) : p \in (1 .. i - 1) \union (k .. Len(bs))})
                      \union AllOf(m)
  <2>1. \A p \in 1 .. i - 1, q \in 1 .. Len(m) :
          bs[p].max_time <= m[q].min_time /\ Apart(bs[p], m[q])
    BY <1>6
  <2>2. \A p \in k .. Len(bs), q \in 1 .. Len(m) :
          m[q].max_time <= bs[p].min_time /\ Apart(m[q], bs[p])
    BY <1>7
  <2>3. Relinked(r, bs, i, m, k)
    BY <1>8, <2>1, <2>2, Chaining
  <2> QED  BY <2>3 DEF Relinked
<1> HIDE DEF r
<1>10. Len(bs) + Len(m) + i - k = Len(bs) + Len(m) - 1
  BY <1>1, <1>2, <1>4
<1>11. AllOf(r) = AllOf(bs) \union {e}
  <2>1. (1 .. i - 1) \union (k .. Len(bs)) = 1 .. Len(bs) \ {i}
    BY <1>1, <1>4
  <2>2. AllOf(bs) = (UNION {EventsOf(bs[p].events) : p \in 1 .. Len(bs) \ {i}})
                      \union EventsOf(bs[i].events)
    BY <1>1 DEF AllOf
  <2> QED  BY <1>9, <2>1, <2>2
<1>12. r = Spliced(bs, i, m, i + 1)
  BY <1>4 DEF r
<1> QED  BY <1>9, <1>10, <1>11, <1>12 DEF Widened


-----------------------------------------------------------------------------
(* The list of the timer. *)
LEMMA QueuedIsAll == Queued = AllOf(backets_)
BY DEF Queued, AllOf

LEMMA PlaceIs ==
  ASSUME time \in [Events -> Times], Listed, backets_count_ # 0, NEW tm \in Nat
  PROVE  /\ Place(tm) \in 1 .. Len(backets_)
         /\ \A p \in 1 .. Len(backets_) :
              /\ p < Place(tm) => backets_[p].max_time <= tm
              /\ p > Place(tm) => tm <= backets_[p].min_time
<1>1. /\ Chained(backets_) /\ last_backet_ = Len(backets_) /\ backets_count_ = Len(backets_)
  BY DEF Listed
<1>2. PICK n \in Nat : n = Len(backets_)
  BY <1>1, ChainFacts
<1>3. n >= 1
  BY <1>1, <1>2
<1>4. /\ DOMAIN backets_ = 1 .. n
      /\ \A i \in 1 .. n : /\ backets_[i].min_time \in Nat /\ backets_[i].max_time \in Nat
                           /\ backets_[i].min_time <= backets_[i].max_time
  BY <1>1, <1>2, ChainFacts
<1>5. \A i, j \in 1 .. n : i < j => backets_[i].max_time <= backets_[j].min_time
  BY <1>1, <1>4 DEF Chained
<1>6. CASE tm >= backets_[n].min_time
  <2>1. Place(tm) = n
    BY <1>1, <1>2, <1>6 DEF Place
  <2>2. n \in 1 .. n
    BY <1>3
  <2>3. ASSUME NEW p \in 1 .. n, p < n PROVE backets_[p].max_time <= tm
    <3>1. backets_[p].max_time <= backets_[n].min_time
      BY <1>5, <2>2, <2>3
    <3> QED  BY <1>4, <1>6, <2>2, <3>1
  <2> QED  BY <1>2, <2>1, <2>2, <2>3
<1>7. CASE ~(tm >= backets_[n].min_time)
  <2> DEFINE S == {i \in DOMAIN backets_ : tm <= backets_[i].max_time}
  <2>1. Place(tm) = Least(S)
    BY <1>1, <1>2, <1>7 DEF Place
  <2>2. n \in S /\ S \in SUBSET Nat /\ S \subseteq 1 .. n
    BY <1>3, <1>4, <1>7
  <2>3. PICK T \in SUBSET Nat : T = S
    BY <2>2
  <2>4. T # {}
    BY <2>2, <2>3
  <2>5. Least(T) \in T /\ \A j \in T : Least(T) <= j
    BY <2>4, LeastIs
  <2>6. PICK i \in S : i = Place(tm) /\ \A j \in S : i <= j
    BY <2>1, <2>3, <2>5
  <2>7. i \in 1 .. n /\ tm <= backets_[i].max_time
    BY <1>4, <2>6
  <2>8. ASSUME NEW p \in 1 .. n, p < i PROVE backets_[p].max_time <= tm
    <3>1. p \notin S
      BY <2>6, <2>7, <2>8
    <3> QED  BY <1>4, <3>1
  <2>9. ASSUME NEW p \in 1 .. n, p > i PROVE tm <= backets_[p].min_time
    <3>1. backets_[i].max_time <= backets_[p].min_time
      BY <1>5, <2>7, <2>9
    <3> QED  BY <1>4, <2>7, <3>1
  <2> QED  BY <1>2, <2>6, <2>7, <2>8, <2>9
<1> QED  BY <1>6, <1>7

(* set() puts the event into the list, wherever its place is. *)
LEMMA Inserts ==
  ASSUME time \in [Events -> Times], Listed, NEW e \in Events, e \notin Queued,
         InsertFirst(e, time[e]) \/ InsertWhole(e, time[e]) \/ InsertSplit(e, time[e])
  PROVE  /\ Chained(backets_') /\ AllOf(backets_') = AllOf(backets_) \union {e}
         /\ backets_count_' = Len(backets_') /\ last_backet_' = Len(backets_')
<1>0. PICK tm \in Times : tm = time[e]
  OBVIOUS
<1>1. tm \in Nat
  BY TimerAssumption DEF Times
<1>2. /\ Chained(backets_) /\ last_backet_ = Len(backets_) /\ backets_count_ = Len(backets_)
      /\ backets_ \in Seq(BacketType) /\ Len(backets_) \in Nat
  BY ChainFacts DEF Listed, Chained
<1>3. CASE InsertFirst(e, tm)
  <2>1. PICK c \in BacketType : c = [events |-> <<e>>, events_count |-> 1,
                                     min_time |-> tm, max_time |-> tm]
    <3>1. <<e>> \in Seq(Events) /\ 1 \in Nat
      OBVIOUS
    <3> QED  BY <3>1 DEF BacketType
  <2>2. backets_ = <<>>
    BY <1>2, <1>3, EmptySeq DEF InsertFirst
  <2>3. backets_' = <<c>> /\ last_backet_' = 1 /\ backets_count_' = 1
    BY <1>3, <2>1, <2>2 DEF InsertFirst
  <2>4. c.events = <<e>> /\ c.events_count = 1 /\ c.min_time = tm /\ c.max_time = tm
    BY <2>1
  <2>5. Good(c) /\ EventsOf(c.events) = {e}
    BY <1>0, <2>4 DEF Good, EventsOf
  <2>6. Chained(<<c>>) /\ Len(<<c>>) = 1 /\ AllOf(<<c>>) = {e}
    BY <2>5, One
  <2>7. AllOf(backets_) = {}
    BY <2>2 DEF AllOf
  <2> QED  BY <2>3, <2>6, <2>7
<1>4. ASSUME backets_count_ # 0,
             NEW i \in 1 .. Len(backets_), i = Place(tm),
             NEW m, Chained(m), AllOf(m) = EventsOf(backets_[i].events) \union {e},
             \A q \in 1 .. Len(m) :
               /\ tm <= m[q].min_time \/ backets_[i].min_time <= m[q].min_time
               /\ m[q].max_time <= tm \/ m[q].max_time <= backets_[i].max_time,
             backets_' = Replaced(i, m)
      PROVE  /\ Chained(backets_') /\ AllOf(backets_') = AllOf(backets_) \union {e}
             /\ Len(backets_') = Len(backets_) + Len(m) - 1
  <2>1. \A p \in 1 .. Len(backets_) : /\ p < i => backets_[p].max_time <= tm
                                      /\ p > i => tm <= backets_[p].min_time
    BY <1>1, <1>4, PlaceIs
  <2>2. e \notin AllOf(backets_)
    BY QueuedIsAll
  <2>3. PICK bs : bs = backets_
    OBVIOUS
  <2>4. /\ Chained(bs) /\ i \in 1 .. Len(bs) /\ e \notin AllOf(bs)
        /\ \A p \in 1 .. Len(bs) : /\ p < i => bs[p].max_time <= tm
                                   /\ p > i => tm <= bs[p].min_time
        /\ \A q \in 1 .. Len(m) : /\ tm <= m[q].min_time \/ bs[i].min_time <= m[q].min_time
                                  /\ m[q].max_time <= tm \/ m[q].max_time <= bs[i].max_time
        /\ AllOf(m) = EventsOf(bs[i].events) \union {e}
    BY <1>2, <1>4, <2>1, <2>2, <2>3
  <2>5. /\ Chained(Spliced(bs, i, m, i + 1))
        /\ Len(Spliced(bs, i, m, i + 1)) = Len(bs) + Len(m) - 1
        /\ AllOf(Spliced(bs, i, m, i + 1)) = AllOf(bs) \union {e}
    <3>1. Widened(Spliced(bs, i, m, i + 1), bs, m, e)
      BY <1>1, <1>4, <2>4, Widening
    <3> QED  BY <3>1 DEF Widened
  <2>6. backets_' = Spliced(bs, i, m, i + 1)
    BY <1>4, <2>3 DEF Replaced, Spliced
  <2> QED  BY <2>3, <2>5, <2>6
<1>5. ASSUME backets_count_ # 0
      PROVE  \E i \in 1 .. Len(backets_) : i = Place(tm)
  BY <1>1, <1>5, PlaceIs
<1>6. ASSUME NEW i \in 1 .. Len(backets_)
      PROVE  /\ backets_[i] \in BacketType /\ Good(backets_[i])
             /\ e \notin EventsOf(backets_[i].events)
  <2>1. backets_[i] \in BacketType /\ Good(backets_[i]) /\ DOMAIN backets_ = 1 .. Len(backets_)
    BY <1>2, ChainFacts
  <2> QED  BY <2>1, QueuedIsAll DEF AllOf
<1>7. CASE InsertWhole(e, tm)
  <2>1. backets_count_ # 0
    BY <1>7 DEF InsertWhole
  <2>2. PICK i \in 1 .. Len(backets_) : i = Place(tm)
    BY <1>5, <2>1
  <2>3. PICK b \in BacketType : b = backets_[i] /\ Good(b) /\ e \notin EventsOf(b.events)
    BY <1>6
  <2>4. PICK c : c = WithEvent(b, e, time[e])
    OBVIOUS
  <2>5. /\ c \in BacketType /\ Good(c)
        /\ EventsOf(c.events) = EventsOf(b.events) \union {e}
        /\ c.min_time = IF tm <= b.min_time THEN tm ELSE b.min_time
        /\ c.max_time = IF b.max_time <= tm THEN tm ELSE b.max_time
    BY <1>0, <2>3, <2>4, Entering
  <2>6. backets_' = Replaced(i, <<c>>) /\ UNCHANGED <<last_backet_, backets_count_>>
    BY <1>0, <1>7, <2>2, <2>3, <2>4 DEF InsertWhole
  <2>7. PICK m : m = <<c>>
    OBVIOUS
  <2>8. /\ Chained(m) /\ Len(m) = 1 /\ m[1] = c
        /\ AllOf(m) = EventsOf(backets_[i].events) \union {e}
    BY <2>3, <2>5, <2>7, One
  <2>9. ASSUME NEW q \in 1 .. Len(m)
        PROVE  /\ tm <= m[q].min_time \/ backets_[i].min_time <= m[q].min_time
               /\ m[q].max_time <= tm \/ m[q].max_time <= backets_[i].max_time
    <3>1. m[q] = c
      BY <2>8
    <3>2. b.min_time \in Nat /\ b.max_time \in Nat
      BY <2>3, GoodFacts
    <3> QED  BY <1>1, <2>3, <2>5, <3>1, <3>2
  <2>10. /\ Chained(backets_') /\ AllOf(backets_') = AllOf(backets_) \union {e}
         /\ Len(backets_') = Len(backets_) + Len(m) - 1
    BY <1>4, <2>1, <2>2, <2>6, <2>7, <2>8, <2>9
  <2> QED  BY <1>2, <2>6, <2>8, <2>10
<1>8. CASE InsertSplit(e, tm)
  <2>1. backets_count_ # 0
    BY <1>8 DEF InsertSplit
  <2>2. PICK i \in 1 .. Len(backets_) : i = Place(tm)
    BY <1>5, <2>1
  <2>3. PICK b \in BacketType : b = backets_[i] /\ Good(b) /\ e \notin EventsOf(b.events)
    BY <1>6
  <2>4. Len(b.events) > 1
    <3>1. TooLong(b) /\ b.events_count = Len(b.events) /\ Len(b.events) \in Nat
      BY ZenonT(40), <1>8, <2>2, <2>3, GoodFacts DEF InsertSplit, Good
    <3> QED  BY <3>1, TimerAssumption DEF TooLong
  <2>5. PICK h : h = Halves(b)
    OBVIOUS
  <2>6. /\ h[1] \in BacketType /\ Good(h[1]) /\ h[2] \in BacketType /\ Good(h[2])
        /\ h[1].min_time = b.min_time /\ h[2].max_time = b.max_time
        /\ h[1].max_time <= h[2].min_time
        /\ Apart(h[1], h[2])
        /\ EventsOf(h[1].events) \union EventsOf(h[2].events) = EventsOf(b.events)
    BY <2>3, <2>4, <2>5, Halving
  <2>7. /\ b.min_time \in Nat /\ b.max_time \in Nat
        /\ h[1].min_time \in Nat /\ h[1].max_time \in Nat /\ h[1].min_time <= h[1].max_time
        /\ h[2].min_time \in Nat /\ h[2].max_time \in Nat /\ h[2].min_time <= h[2].max_time
    BY <2>3, <2>6, GoodFacts
  <2>8. /\ last_backet_' = IF last_backet_ >= i THEN last_backet_ + 1 ELSE last_backet_
        /\ backets_count_' = backets_count_ + 1
        /\ backets_' = Replaced(i, IF tm <= h[1].max_time
                                   THEN <<WithEvent(h[1], e, tm), h[2]>>
                                   ELSE <<h[1], WithEvent(h[2], e, tm)>>)
    BY <1>8, <2>2, <2>3, <2>5 DEF InsertSplit
  <2>9. PICK c, d : <<c, d>> = IF tm <= h[1].max_time
                               THEN <<WithEvent(h[1], e, tm), h[2]>>
                               ELSE <<h[1], WithEvent(h[2], e, tm)>>
    OBVIOUS
  <2>10. /\ c \in BacketType /\ Good(c) /\ d \in BacketType /\ Good(d)
         /\ c.max_time <= d.min_time /\ Apart(c, d)
         /\ EventsOf(c.events) \union EventsOf(d.events) = EventsOf(b.events) \union {e}
         /\ tm <= c.min_time \/ b.min_time <= c.min_time
         /\ tm <= d.min_time \/ b.min_time <= d.min_time
         /\ c.max_time <= tm \/ c.max_time <= b.max_time
         /\ d.max_time <= tm \/ d.max_time <= b.max_time
    <3>1. CASE tm <= h[1].max_time
      <4>1. c = WithEvent(h[1], e, time[e]) /\ d = h[2]
        BY <1>0, <2>9, <3>1
      <4>2. PICK g \in BacketType : g = h[1] /\ Good(g) /\ e \notin EventsOf(g.events)
        BY <2>3, <2>6
      <4>3. /\ c \in BacketType /\ Good(c)
            /\ EventsOf(c.events) = EventsOf(g.events) \union {e}
            /\ c.min_time = IF tm <= g.min_time THEN tm ELSE g.min_time
            /\ c.max_time = IF g.max_time <= tm THEN tm ELSE g.max_time
        BY <1>0, <4>1, <4>2, Entering
      <4>4. c.max_time = h[1].max_time
        BY <1>1, <2>7, <3>1, <4>2, <4>3
      <4>5. Apart(c, d) /\ EventsOf(c.events) \union EventsOf(d.events) = EventsOf(b.events) \union {e}
        BY <2>3, <2>6, <4>1, <4>2, <4>3 DEF Apart
      <4>6. /\ tm <= c.min_time \/ b.min_time <= c.min_time
            /\ b.min_time <= d.min_time
        BY <1>1, <2>6, <2>7, <4>1, <4>2, <4>3
      <4>7. c.max_time <= b.max_time /\ d.max_time <= b.max_time
        BY <2>6, <2>7, <4>1, <4>4
      <4> QED  BY <2>6, <4>1, <4>3, <4>4, <4>5, <4>6, <4>7
    <3>2. CASE ~(tm <= h[1].max_time)
      <4>1. c = h[1] /\ d = WithEvent(h[2], e, time[e])
        BY <1>0, <2>9, <3>2
      <4>2. PICK g \in BacketType : g = h[2] /\ Good(g) /\ e \notin EventsOf(g.events)
        BY <2>3, <2>6
      <4>3. /\ d \in BacketType /\ Good(d)
            /\ EventsOf(d.events) = EventsOf(g.events) \union {e}
            /\ d.min_time = IF tm <= g.min_time THEN tm ELSE g.min_time
            /\ d.max_time = IF g.max_time <= tm THEN tm ELSE g.max_time
        BY <1>0, <4>1, <4>2, Entering
      <4>4. c.max_time <= d.min_time
        BY <1>1, <2>6, <2>7, <3>2, <4>1, <4>2, <4>3
      <4>5. Apart(c, d) /\ EventsOf(c.events) \union EventsOf(d.events) = EventsOf(b.events) \union {e}
        BY <2>3, <2>6, <4>1, <4>2, <4>3 DEF Apart
      <4>6. /\ b.min_time <= c.min_time
            /\ tm <= d.min_time \/ b.min_time <= d.min_time
        BY <1>1, <2>6, <2>7, <4>1, <4>2, <4>3
      <4>7. /\ c.max_time <= b.max_time
            /\ d.max_time <= tm \/ d.max_time <= b.max_time
        BY <1>1, <2>6, <2>7, <4>1, <4>2, <4>3
      <4> QED  BY <2>6, <4>1, <4>3, <4>4, <4>5, <4>6, <4>7
    <3> QED  BY <3>1, <3>2
  <2>11. PICK m : m = <<c, d>>
    OBVIOUS
  <2>12. /\ Chained(m) /\ Len(m) = 2 /\ m[1] = c /\ m[2] = d
         /\ AllOf(m) = EventsOf(backets_[i].events) \union {e}
    BY <2>3, <2>10, <2>11, Two
  <2>13. ASSUME NEW q \in 1 .. Len(m)
         PROVE  /\ tm <= m[q].min_time \/ backets_[i].min_time <= m[q].min_time
                /\ m[q].max_time <= tm \/ m[q].max_time <= backets_[i].max_time
    <3>1. m[q] = c \/ m[q] = d
      BY <2>12
    <3> QED  BY <2>3, <2>10, <3>1
  <2>14. backets_' = Replaced(i, m)
    BY <2>8, <2>9, <2>11
  <2>15. /\ Chained(backets_') /\ AllOf(backets_') = AllOf(backets_) \union {e}
         /\ Len(backets_') = Len(backets_) + Len(m) - 1
    BY <1>4, <2>1, <2>2, <2>12, <2>13, <2>14
  <2> QED  BY <1>2, <2>8, <2>12, <2>15
<1> QED  BY <1>0, <1>3, <1>7, <1>8


(* The first event of the list is one of the earliest. *)
LEMMA FirstIs ==
  ASSUME time \in [Events -> Times], Listed, backets_ # <<>>
  PROVE  /\ First \in Events /\ First \in Queued
         /\ \A e \in Queued : e \in Events /\ time[First] <= time[e]
<1>1. Chained(backets_) /\ backets_ \in Seq(BacketType)
  BY DEF Listed, Chained
<1>2. PICK n \in Nat : n = Len(backets_)
  BY <1>1, ChainFacts
<1>3. n >= 1
  BY <1>1, <1>2, EmptySeq
<1>4. /\ DOMAIN backets_ = 1 .. n
      /\ \A i \in 1 .. n : /\ backets_[i] \in BacketType /\ Good(backets_[i])
                           /\ backets_[i].min_time \in Nat /\ backets_[i].max_time \in Nat
                           /\ backets_[i].min_time <= backets_[i].max_time
  BY <1>1, <1>2, ChainFacts
<1>5. \A i, j \in 1 .. n : i < j => backets_[i].max_time <= backets_[j].min_time
  BY <1>1, <1>4 DEF Chained
<1>6. 1 \in 1 .. n
  BY <1>3
<1>7. PICK b \in BacketType : b = backets_[1] /\ Good(b)
  BY <1>4, <1>6
<1>8. /\ First = b.events[1] /\ First \in Events /\ First \in EventsOf(b.events)
      /\ time[First] = b.min_time
  <2>1. 1 \in 1 .. Len(b.events) /\ DOMAIN b.events = 1 .. Len(b.events)
    BY <1>7, GoodFacts
  <2>2. b.events[1] \in Events
    BY <1>7, <2>1, GoodFacts
  <2> QED  BY <1>7, <2>1, <2>2 DEF First, EventsOf, Good
<1>9. ASSUME NEW e \in Queued PROVE e \in Events /\ time[First] <= time[e]
  <2>1. PICK i \in 1 .. n : e \in EventsOf(backets_[i].events)
    BY <1>4 DEF Queued
  <2>2. PICK c \in BacketType : c = backets_[i] /\ Good(c)
    BY <1>4
  <2>3. PICK p \in 1 .. Len(c.events) : e = c.events[p]
    BY <2>1, <2>2, GoodFacts DEF EventsOf
  <2>4. e \in Events /\ time[e] \in Nat /\ c.min_time <= time[e]
    BY <2>2, <2>3, GoodFacts
  <2>5. b.min_time <= c.min_time
    <3>1. CASE i = 1
      BY <1>4, <1>7, <2>2, <3>1
    <3>2. CASE 1 < i
      BY <1>4, <1>5, <1>6, <1>7, <2>2, <3>2
    <3> QED  BY <3>1, <3>2
  <2> QED  BY <1>4, <1>6, <1>7, <1>8, <2>2, <2>4, <2>5
<1>10. First \in Queued
  BY <1>4, <1>6, <1>7, <1>8 DEF Queued
<1> QED  BY <1>8, <1>9, <1>10

(* run() takes out the first event and nothing else. *)
LEMMA Removes ==
  ASSUME time \in [Events -> Times], Listed, backets_ # <<>>, RemoveFirst
  PROVE  /\ Chained(backets_') /\ AllOf(backets_') = AllOf(backets_) \ {First}
         /\ backets_count_' = Len(backets_') /\ last_backet_' = Len(backets_')
<1>1. /\ Chained(backets_) /\ backets_ \in Seq(BacketType)
      /\ last_backet_ = Len(backets_) /\ backets_count_ = Len(backets_)
  BY DEF Listed, Chained
<1>2. PICK n \in Nat : n = Len(backets_)
  BY <1>1, ChainFacts
<1>3. n >= 1
  BY <1>1, <1>2, EmptySeq
<1>4. /\ DOMAIN backets_ = 1 .. n
      /\ \A i \in 1 .. n : /\ backets_[i] \in BacketType /\ Good(backets_[i])
                           /\ backets_[i].min_time \in Nat /\ backets_[i].max_time \in Nat
                           /\ backets_[i].min_time <= backets_[i].max_time
  BY <1>1, <1>2, ChainFacts
<1>5. \A i, j \in 1 .. n : i < j => /\ backets_[i].max_time <= backets_[j].min_time
                                    /\ Apart(backets_[i], backets_[j])
  BY <1>1, <1>4 DEF Chained
<1>6. 1 \in 1 .. n
  BY <1>3
<1>7. PICK b \in BacketType : b = backets_[1] /\ Good(b)
  BY <1>4, <1>6
<1>8. PICK l \in Nat : l = Len(b.events) /\ l >= 1
  BY <1>7, GoodFacts
<1>9. /\ First = b.events[1] /\ DOMAIN b.events = 1 .. l /\ b.events \in Seq(Events)
      /\ \A p \in 1 .. l : b.events[p] \in Events
      /\ \A p \in 1 .. l : p # 1 => b.events[p] # b.events[1]
      /\ 1 \in 1 .. l
  <2>1. DOMAIN b.events = 1 .. l /\ b.events \in Seq(Events) /\ \A p \in 1 .. l : b.events[p] \in Events
    BY <1>7, <1>8, GoodFacts
  <2>2. \A p, q \in 1 .. l : p < q => b.events[p] # b.events[q]
    BY <1>7, <2>1 DEF Good
  <2>3. 1 \in 1 .. l
    BY <1>8
  <2>4. ASSUME NEW p \in 1 .. l, p # 1 PROVE b.events[p] # b.events[1]
    <3>1. 1 < p
      BY <2>4
    <3> QED  BY <2>2, <2>3, <3>1
  <2> QED  BY <1>7, <2>1, <2>3, <2>4 DEF First
<1>10. PICK rest : rest = Tail(b.events)
  OBVIOUS
<1>11. rest \in Seq(Events) /\ Len(rest) = l - 1 /\ \A p \in 1 .. l - 1 : rest[p] = b.events[p + 1]
  <2>1. b.events # <<>>
    BY <1>7 DEF Good
  <2> QED  BY <1>8, <1>9, <1>10, <2>1, HeadTailProperties
<1>12. CASE rest = <<>>
  <2>1. l = 1
    BY <1>8, <1>11, <1>12
  <2>2. EventsOf(b.events) = {First}
    BY <1>9, <2>1 DEF EventsOf
  <2>3. /\ backets_' = Tail(backets_)
        /\ backets_count_' = backets_count_ - 1
        /\ last_backet_' = IF backets_count_' = 0 THEN 0 ELSE last_backet_ - 1
    BY <1>7, <1>10, <1>12 DEF RemoveFirst
  <2>4. PICK bs : bs = backets_
    OBVIOUS
  <2>5. Chained(bs) /\ bs # <<>>
    BY <1>1, <2>4
  <2>6. /\ Chained(Tail(bs)) /\ Len(Tail(bs)) = Len(bs) - 1
        /\ AllOf(Tail(bs)) = AllOf(bs) \ EventsOf(bs[1].events)
    BY <2>5, Rest
  <2>7. backets_' = Tail(bs) /\ bs[1] = b
    BY <1>7, <2>3, <2>4
  <2> QED  BY <1>1, <1>2, <2>2, <2>3, <2>4, <2>6, <2>7
<1>13. CASE rest # <<>>
  <2>1. l >= 2
    <3>1. Len(rest) # 0
      BY <1>11, <1>13, EmptySeq
    <3>2. l \in Nat /\ l >= 1 /\ l - 1 # 0
      BY <1>8, <1>11, <3>1
    <3> QED  BY <3>2
  <2>2. PICK c : c = Stretch(b, 2, l)
    OBVIOUS
  <2>3. /\ c \in BacketType /\ Good(c)
        /\ EventsOf(c.events) = {b.events[p] : p \in 2 .. l}
        /\ c.min_time = time[b.events[2]] /\ c.max_time = time[b.events[l]]
    <3>1. PICK two \in 1 .. Len(b.events) : two = 2 /\ l \in two .. Len(b.events)
      BY <1>8, <2>1
    <3>2. /\ Stretch(b, two, l) \in BacketType /\ Good(Stretch(b, two, l))
          /\ EventsOf(Stretch(b, two, l).events) = {b.events[p] : p \in two .. l}
          /\ Stretch(b, two, l).min_time = time[b.events[two]]
          /\ Stretch(b, two, l).max_time = time[b.events[l]]
      BY ZenonT(40), <1>7, <3>1, StretchIsGood
    <3> QED  BY <2>2, <3>1, <3>2
  <2>4. EventsOf(c.events) = EventsOf(b.events) \ {First}
    <3>1. \A p \in 1 .. l : p = 1 \/ p \in 2 .. l
      BY <1>8
    <3>2. \A p \in 2 .. l : p \in 1 .. l /\ p # 1
      BY <1>8
    <3> QED  BY <1>9, <2>3, <3>1, <3>2 DEF EventsOf
  <2>5. rest = SubSeq(b.events, 2, l)
    <3>1. PICK x : x = SubSeq(b.events, 2, l)
      OBVIOUS
    <3>2. \A p \in 2 .. l : b.events[p] \in Events
      BY <1>9
    <3>3. /\ x \in Seq(Events) /\ Len(x) = IF 2 <= l THEN l - 2 + 1 ELSE 0
          /\ \A p \in 1 .. l - 2 + 1 : x[p] = b.events[2 + p - 1]
      BY <1>8, <3>1, <3>2, SubSeqProperties
    <3>4. Len(x) = Len(rest) /\ l - 2 + 1 = l - 1
      BY <1>8, <1>11, <2>1, <3>3
    <3>5. ASSUME NEW p \in 1 .. Len(x) PROVE x[p] = rest[p]
      <4>1. p \in 1 .. l - 1 /\ p \in 1 .. l - 2 + 1 /\ 2 + p - 1 = p + 1
        BY <1>8, <1>11, <3>4
      <4> QED  BY <1>11, <3>3, <4>1
    <3> QED  BY <1>11, <3>1, <3>3, <3>4, <3>5, SeqEqual
  <2>6. Head(rest) = b.events[2] /\ rest[Len(rest)] = b.events[l]
    <3>1. Head(rest) = rest[1]
      BY <1>11, <1>13, HeadTailProperties
    <3>2. 1 \in 1 .. l - 1 /\ l - 1 \in 1 .. l - 1 /\ 1 + 1 = 2 /\ l - 1 + 1 = l
      BY <1>8, <2>1
    <3> QED  BY <1>11, <3>1, <3>2
  <2>7. c = [events |-> rest, events_count |-> b.events_count - 1,
             min_time |-> time[Head(rest)], max_time |-> time[rest[Len(rest)]]]
    <3>1. b.events_count = l /\ l - 2 + 1 = l - 1
      BY <1>7, <1>8 DEF Good
    <3> QED  BY <2>2, <2>5, <2>6, <3>1 DEF Stretch
  <2>8. /\ backets_' = Replaced(1, <<c>>)
        /\ UNCHANGED <<backets_count_, last_backet_>>
    BY <1>7, <1>10, <1>13, <2>7 DEF RemoveFirst
  <2>9. PICK m : m = <<c>>
    OBVIOUS
  <2>10. Chained(m) /\ Len(m) = 1 /\ m[1] = c /\ AllOf(m) = EventsOf(c.events)
    BY <2>3, <2>9, One
  <2>11. PICK bs : bs = backets_
    OBVIOUS
  <2>12. Chained(bs) /\ n = Len(bs)
    BY <1>1, <1>2, <2>11
  <2>13. c.max_time = b.max_time
    BY <1>7, <1>8, <2>3 DEF Good
  <2>14. ASSUME NEW p \in 2 .. Len(bs), NEW q \in 1 .. Len(m)
         PROVE  m[q].max_time <= bs[p].min_time /\ Apart(m[q], bs[p])
    <3>1. m[q] = c
      BY <2>10
    <3>2. p \in 1 .. n /\ 1 < p
      BY <2>12
    <3>3. b.max_time <= bs[p].min_time /\ Apart(b, bs[p])
      BY <1>5, <1>6, <1>7, <2>11, <3>2
    <3> QED  BY <2>4, <2>13, <3>1, <3>3 DEF Apart
  <2>15. PICK k \in 1 .. Len(bs) + 1 : k = 1
    BY <1>3, <2>12
  <2>16. PICK two \in k .. Len(bs) + 1 : two = 2
    BY <1>3, <2>12, <2>15
  <2>17. /\ \A p \in 1 .. k - 1, q \in 1 .. Len(m) :
              bs[p].max_time <= m[q].min_time /\ Apart(bs[p], m[q])
         /\ \A p \in two .. Len(bs), q \in 1 .. Len(m) :
              m[q].max_time <= bs[p].min_time /\ Apart(m[q], bs[p])
    <3>1. 1 .. k - 1 = {}
      BY <2>15
    <3> QED  BY <2>14, <2>16, <3>1
  <2>18. PICK r : r = Spliced(bs, k, m, two)
    OBVIOUS
  <2>19. /\ Chained(r) /\ Len(r) = Len(bs) + Len(m) + k - two
         /\ AllOf(r) = (UNION {EventsOf(bs[p].events) : p \in (1 .. k - 1) \union (two .. Len(bs))})
                         \union AllOf(m)
    <3>1. Relinked(Spliced(bs, k, m, two), bs, k, m, two)
      BY <2>10, <2>12, <2>17, Chaining
    <3> QED  BY <2>18, <3>1 DEF Relinked
  <2>20. backets_' = r
    <3>1. backets_' = SubSeq(bs, 1, 1 - 1) \o m \o SubSeq(bs, 1 + 1, Len(bs))
      BY <2>8, <2>9, <2>11 DEF Replaced
    <3> QED  BY <2>15, <2>16, <2>18, <3>1 DEF Spliced
  <2>21. AllOf(r) = AllOf(bs) \ {First}
    <3>1. (1 .. k - 1) \union (two .. Len(bs)) = 1 .. n \ {1}
      BY <2>12, <2>15, <2>16
    <3>2. AllOf(bs) = (UNION {EventsOf(bs[p].events) : p \in 1 .. n \ {1}})
                        \union EventsOf(b.events)
      BY <1>4, <1>6, <1>7, <2>11 DEF AllOf
    <3>3. ASSUME NEW p \in 1 .. n \ {1} PROVE First \notin EventsOf(bs[p].events)
      <4>1. 1 < p
        OBVIOUS
      <4>2. Apart(b, bs[p])
        BY <1>5, <1>6, <1>7, <2>11, <4>1
      <4> QED  BY <1>9, <4>2 DEF Apart, EventsOf
    <3>4. First \notin UNION {EventsOf(bs[p].events) : p \in 1 .. n \ {1}}
      BY <3>3
    <3> QED  BY <2>4, <2>10, <2>19, <3>1, <3>2, <3>4
  <2> QED  BY <1>1, <1>2, <2>8, <2>10, <2>11, <2>12, <2>15, <2>16, <2>19, <2>20, <2>21
<1> QED  BY <1>12, <1>13


-----------------------------------------------------------------------------
(* The inductive invariant, step by step. *)
LEMMA ListedNext ==
  ASSUME Chained(backets_'), \A e \in AllOf(backets_') : time'[e] = time[e],
         backets_count_' = Len(backets_'), last_backet_' = Len(backets_')
  PROVE  Listed' /\ Queued' = AllOf(backets_')
<1>1. PICK bs : bs = backets_'
  OBVIOUS
<1>2. /\ bs \in Seq(BacketType)
      /\ \A i, j \in DOMAIN bs : i < j => bs[i].max_time <= bs[j].min_time /\ Apart(bs[i], bs[j])
      /\ \A e \in AllOf(bs) : time'[e] = time[e]
  BY <1>1 DEF Chained
<1>3. ASSUME NEW i \in DOMAIN bs
      PROVE  /\ bs[i].events # <<>>
             /\ bs[i].events_count = Len(bs[i].events)
             /\ bs[i].min_time = time'[bs[i].events[1]]
             /\ bs[i].max_time = time'[bs[i].events[Len(bs[i].events)]]
             /\ \A p, q \in DOMAIN bs[i].events : p < q =>
                  /\ bs[i].events[p] # bs[i].events[q]
                  /\ time'[bs[i].events[p]] <= time'[bs[i].events[q]]
  <2>1. PICK s : s = bs[i].events
    OBVIOUS
  <2>2. /\ s # <<>> /\ bs[i].events_count = Len(s)
        /\ bs[i].min_time = time[s[1]] /\ bs[i].max_time = time[s[Len(s)]]
        /\ \A p, q \in DOMAIN s : p < q => s[p] # s[q] /\ time[s[p]] <= time[s[q]]
    BY <1>1, <2>1 DEF Chained, Good
  <2>3. \A p \in DOMAIN s : time'[s[p]] = time[s[p]]
    BY <1>2, <2>1 DEF AllOf, EventsOf
  <2>4. 1 \in DOMAIN s /\ Len(s) \in DOMAIN s
    <3>1. bs[i] \in BacketType
      BY <1>2, ElementOfSeq, LenProperties
    <3>2. s \in Seq(Events)
      BY <2>1, <3>1 DEF BacketType
    <3>3. Len(s) \in Nat /\ Len(s) # 0 /\ DOMAIN s = 1 .. Len(s)
      BY <2>2, <3>2, EmptySeq, LenProperties
    <3> QED  BY <3>3
  <2> QED  BY <2>1, <2>2, <2>3, <2>4
<1>4. Chained(backets_)'
  BY <1>1, <1>2, <1>3 DEF Chained, Good
<1> QED  BY <1>4 DEF Listed, Queued, AllOf

LEMMA ListKept ==
  ASSUME Listed, UNCHANGED listVars, \A e \in Queued : time'[e] = time[e]
  PROVE  Listed' /\ Queued' = Queued
<1>1. Chained(backets_') /\ backets_count_' = Len(backets_') /\ last_backet_' = Len(backets_')
  BY DEF Listed, listVars
<1>2. AllOf(backets_') = Queued
  BY DEF listVars, Queued, AllOf
<1> QED  BY <1>1, <1>2, ListedNext

LEMMA ListCleared ==
  ASSUME Clear, time' = time
  PROVE  Listed' /\ Queued' = {}
<1>1. backets_' = <<>> /\ backets_count_' = 0 /\ last_backet_' = 0
  BY DEF Clear
<1>2. Chained(<<>>) /\ AllOf(<<>>) = {} /\ Len(<<>>) = 0
  BY DEF Chained, AllOf
<1> QED  BY <1>1, <1>2, ListedNext

LEMMA RequestsKept ==
  ASSUME IInv, request' = request, time' = time, doomed' \subseteq doomed \union Queued,
         Queued' \subseteq Queued,
         \A t \in Threads : at'[t] = "insert" <=> at[t] = "insert"
  PROVE  Requests'
BY DEF IInv, Requests

LEMMA InitIInv == Init => IInv
<1> SUFFICES ASSUME Init PROVE IInv
  OBVIOUS
<1>1. 0 \in Times /\ Never \in Nat /\ 0 \in 0 .. MaxSets
  BY TimerAssumption DEF Times, Never
<1>2. Listed /\ Queued = {}
  <2>1. Chained(<<>>) /\ Len(<<>>) = 0
    BY DEF Chained
  <2> QED  BY <2>1 DEF Init, Listed, Queued
<1>3. Typed
  BY <1>1 DEF Init, Typed, Places, NoRequest
<1>4. Requests
  <2>1. \A t \in Threads : request[t].event = "none" /\ at[t] # "insert"
    BY DEF Init, NoRequest
  <2> QED  BY <2>1 DEF Requests
<1>5. "timer" \in Threads /\ at["timer"] = "run"
  BY DEF Init, Threads
<1>6. NeverSleepsPast /\ EarlyByHalfAtMost /\ StopForgets
  BY <1>5 DEF Init, NeverSleepsPast, EarlyByHalfAtMost, StopForgets
<1> QED  BY <1>2, <1>3, <1>4, <1>6 DEF IInv


LEMMA SetBeginIInv ==
  ASSUME IInv, NEW t \in Threads, SetBegin(t)
  PROVE  IInv'
<1>1. Typed /\ Listed /\ Requests /\ NeverSleepsPast /\ EarlyByHalfAtMost /\ StopForgets
  BY DEF IInv
<1>2. PICK e \in Settable, tm \in Times :
        /\ time' = [time EXCEPT ![e] = tm]
        /\ IF tm <= now
           THEN UNCHANGED <<request, at>>
           ELSE /\ request' = [request EXCEPT ![t] = [event |-> e, time |-> tm]]
                /\ at' = [at EXCEPT ![t] = "insert"]
        /\ doomed' = doomed \ {e}
  BY DEF SetBegin
<1>3. e \in Events /\ e \notin Queued /\ \A u \in Threads : request[u].event # e
  BY DEF Settable, Requested
<1>4. /\ time \in [Events -> Times]
      /\ at \in [Threads -> Places]
      /\ request \in [Threads -> [event : Events \union {"none"}, time : Times]]
      /\ doomed \subseteq Events
  BY <1>1 DEF Typed
<1>5. /\ UNCHANGED listVars /\ avg_delay_' = avg_delay_ /\ stop_' = stop_
      /\ deadline' = deadline /\ now' = now /\ worst' = worst
      /\ sets < MaxSets /\ sets' = sets + 1
  BY DEF SetBegin
<1>6. time' \in [Events -> Times] /\ time'[e] = tm
      /\ \A x \in Events : x # e => time'[x] = time[x]
  BY <1>2, <1>3, <1>4
<1>7. Queued \subseteq Events
  <2>1. backets_ = <<>> \/ \A x \in Queued : x \in Events
    BY <1>1, <1>4, FirstIs
  <2> QED  BY <2>1 DEF Queued
<1>8. Listed' /\ Queued' = Queued
  BY <1>1, <1>3, <1>5, <1>6, <1>7, ListKept
<1>9. at[t] # "insert" /\ at[t] # "wait"
  BY DEF SetBegin, MaySet
<1>10. request[t].event = "none"
  BY <1>1, <1>9 DEF Requests
<1>11. /\ at' \in [Threads -> Places]
       /\ request' \in [Threads -> [event : Events \union {"none"}, time : Times]]
  BY <1>2, <1>3, <1>4 DEF Places
<1>12. Typed'
  <2>1. sets' \in 0 .. MaxSets
    BY <1>1, <1>5, TimerAssumption DEF Typed
  <2> QED  BY <1>1, <1>2, <1>5, <1>6, <1>11, <2>1 DEF Typed
<1>13. "none" \notin Events
  BY TimerAssumption
<1>14. Requests'
  <2>1. CASE tm <= now
    <3>1. UNCHANGED <<request, at>>
      BY <1>2, <2>1
    <3>2. \A u \in Threads : request[u].event # "none" =>
            request[u].event \in Events /\ time'[request[u].event] = time[request[u].event]
      BY <1>3, <1>4, <1>6
    <3> QED  BY <1>1, <1>2, <1>8, <3>1, <3>2 DEF Requests
  <2>2. CASE ~(tm <= now)
    <3>1. /\ request' = [request EXCEPT ![t] = [event |-> e, time |-> tm]]
          /\ at' = [at EXCEPT ![t] = "insert"]
      BY <1>2, <2>2
    <3>2. /\ request'[t].event = e /\ request'[t].time = tm /\ at'[t] = "insert"
          /\ \A u \in Threads : u # t => request'[u] = request[u] /\ at'[u] = at[u]
      BY <1>4, <3>1
    <3>3. ASSUME NEW u \in Threads
          PROVE  /\ at'[u] = "insert" <=> request'[u].event # "none"
                 /\ request'[u].event # "none" =>
                      /\ request'[u].event \notin Queued' \union doomed'
                      /\ time'[request'[u].event] = request'[u].time
                      /\ \A v \in Threads : request'[v].event = request'[u].event => v = u
      <4>1. CASE u = t
        <5>1. \A v \in Threads : request'[v].event = e => v = t
          BY <1>3, <3>2
        <5> QED  BY <1>2, <1>3, <1>6, <1>8, <1>13, <3>2, <4>1, <5>1
      <4>2. CASE u # t
        <5>1. request'[u] = request[u] /\ at'[u] = at[u] /\ request[u].event # e
          BY <1>3, <3>2, <4>2
        <5>2. request[u].event # "none" => request[u].event \in Events
          BY <1>4
        <5>3. \A v \in Threads : request'[v].event = request'[u].event => v # t
          BY <3>2, <5>1
        <5>4. at[u] = "insert" <=> request[u].event # "none"
          BY <1>1 DEF Requests
        <5>5. request[u].event # "none" =>
                /\ request[u].event \notin Queued \union doomed
                /\ time[request[u].event] = request[u].time
                /\ \A v \in Threads : request[v].event = request[u].event => v = u
          BY <1>1 DEF Requests
        <5>6. request[u].event # "none" => time'[request[u].event] = time[request[u].event]
          BY <1>6, <5>1, <5>2
        <5>7. request'[u].event # "none" => \A v \in Threads : request'[v].event = request'[u].event => v = u
          BY <3>2, <5>1, <5>3, <5>5
        <5> QED  BY <1>2, <1>8, <5>1, <5>4, <5>5, <5>6, <5>7
      <4> QED  BY <4>1, <4>2
    <3> QED  BY <3>3 DEF Requests
  <2> QED  BY <2>1, <2>2
<1>15. at'["timer"] # at["timer"] => at'["timer"] = "insert"
  <2>1. "timer" \in Threads
    BY DEF Threads
  <2> QED  BY <1>2, <1>4, <2>1
<1>16. NeverSleepsPast'
  <2>1. \A x \in Queued : time'[x] = time[x]
    BY <1>3, <1>6, <1>7
  <2> QED  BY <1>1, <1>5, <1>8, <1>15, <2>1 DEF NeverSleepsPast, Never
<1>17. EarlyByHalfAtMost' /\ StopForgets'
  <2>1. EarlyByHalfAtMost'
    BY <1>1, <1>5 DEF EarlyByHalfAtMost
  <2>2. StopForgets'
    BY <1>1, <1>2, <1>8, <1>15 DEF StopForgets
  <2> QED  BY <2>1, <2>2
<1> QED  BY <1>8, <1>12, <1>14, <1>16, <1>17 DEF IInv

LEMMA SetInsertIInv ==
  ASSUME IInv, NEW t \in Threads, SetInsert(t)
  PROVE  IInv'
<1>1. Typed /\ Listed /\ Requests /\ NeverSleepsPast /\ EarlyByHalfAtMost /\ StopForgets
  BY DEF IInv
<1>2. PICK e : e = request[t].event
  OBVIOUS
<1>3. /\ time \in [Events -> Times]
      /\ at \in [Threads -> Places]
      /\ request \in [Threads -> [event : Events \union {"none"}, time : Times]]
      /\ "timer" \in Threads
  BY <1>1 DEF Typed, Threads
<1>4. /\ at[t] = "insert"
      /\ at' = Woken([at EXCEPT ![t] = IF t = "timer" THEN "trigger" ELSE "idle"])
      /\ request' = [request EXCEPT ![t] = NoRequest]
      /\ time' = time /\ avg_delay_' = avg_delay_ /\ stop_' = stop_ /\ deadline' = deadline
      /\ now' = now /\ sets' = sets /\ worst' = worst /\ doomed' = doomed
  BY DEF SetInsert
<1>5. /\ e # "none" /\ e \in Events /\ e \notin Queued \union doomed
      /\ time[e] = request[t].time
      /\ \A u \in Threads : request[u].event = e => u = t
  BY <1>1, <1>2, <1>3, <1>4 DEF Requests
<1>6. InsertFirst(e, time[e]) \/ InsertWhole(e, time[e]) \/ InsertSplit(e, time[e])
  BY <1>2, <1>5 DEF SetInsert
<1>7. /\ Chained(backets_') /\ AllOf(backets_') = AllOf(backets_) \union {e}
      /\ backets_count_' = Len(backets_') /\ last_backet_' = Len(backets_')
  BY <1>1, <1>3, <1>5, <1>6, Inserts
<1>8. Listed' /\ Queued' = Queued \union {e}
  BY <1>4, <1>7, QueuedIsAll, ListedNext
<1>9. PICK f \in [Threads -> Places] :
        f = [at EXCEPT ![t] = IF t = "timer" THEN "trigger" ELSE "idle"]
  BY <1>3 DEF Places
<1>10. at' = [f EXCEPT !["timer"] = IF f["timer"] = "wait" THEN "run" ELSE f["timer"]]
  BY <1>4, <1>9 DEF Woken
<1>11. /\ at' \in [Threads -> Places]
       /\ \A u \in Threads : at'[u] = "insert" <=> (at[u] = "insert" /\ u # t)
       /\ at'["timer"] # "wait"
       /\ at'["timer"] = "off" => at["timer"] = "off"
  <2>1. \A u \in Threads : f[u] = IF u = t THEN IF t = "timer" THEN "trigger" ELSE "idle" ELSE at[u]
    BY <1>3, <1>9
  <2>2. \A u \in Threads : at'[u] = IF u = "timer" /\ f[u] = "wait" THEN "run" ELSE f[u]
    BY <1>3, <1>10
  <2>3. at' \in [Threads -> Places]
    BY <1>10 DEF Places
  <2> QED  BY <1>3, <2>1, <2>2, <2>3
<1>12. /\ request' \in [Threads -> [event : Events \union {"none"}, time : Times]]
       /\ request'[t].event = "none"
       /\ \A u \in Threads : u # t => request'[u] = request[u]
  <2>1. NoRequest \in [event : Events \union {"none"}, time : Times] /\ NoRequest.event = "none"
    BY TimerAssumption DEF NoRequest, Times
  <2> QED  BY <1>3, <1>4, <2>1
<1>13. Typed'
  BY <1>1, <1>4, <1>11, <1>12 DEF Typed
<1>14. Requests'
  <2>1. ASSUME NEW u \in Threads
        PROVE  /\ at'[u] = "insert" <=> request'[u].event # "none"
               /\ request'[u].event # "none" =>
                    /\ request'[u].event \notin Queued' \union doomed'
                    /\ time'[request'[u].event] = request'[u].time
                    /\ \A v \in Threads : request'[v].event = request'[u].event => v = u
    <3>1. CASE u = t
      BY <1>11, <1>12, <3>1
    <3>2. CASE u # t
      <4>1. request'[u] = request[u] /\ request[u].event # e
        BY <1>5, <1>12, <3>2
      <4>2. at'[u] = "insert" <=> request[u].event # "none"
        BY <1>1, <1>11, <3>2 DEF Requests
      <4>3. request[u].event # "none" =>
              /\ request[u].event \notin Queued \union doomed
              /\ time[request[u].event] = request[u].time
              /\ \A v \in Threads : request[v].event = request[u].event => v = u
        BY <1>1 DEF Requests
      <4>4. request[u].event # "none" =>
              \A v \in Threads : request'[v].event = request[u].event => v = u
        BY <1>12, <4>3
      <4> QED  BY <1>4, <1>8, <4>1, <4>2, <4>3, <4>4
    <3> QED  BY <3>1, <3>2
  <2> QED  BY <2>1 DEF Requests
<1>15. NeverSleepsPast' /\ EarlyByHalfAtMost' /\ StopForgets'
  <2>1. EarlyByHalfAtMost'
    BY <1>1, <1>4 DEF EarlyByHalfAtMost
  <2>2. NeverSleepsPast'
    BY <1>11 DEF NeverSleepsPast
  <2>3. StopForgets'
    BY <1>1, <1>4, <1>5, <1>8, <1>11 DEF StopForgets
  <2> QED  BY <2>1, <2>2, <2>3
<1> QED  BY <1>8, <1>13, <1>14, <1>15 DEF IInv


(* The average of the delays stays below half of the worst one. *)
LEMMA Averaging ==
  ASSUME NEW a \in Nat, NEW d \in Nat, NEW w \in Nat, 2 * a <= w
  PROVE  (a + d) \div 3 \in Nat /\ 2 * ((a + d) \div 3) <= IF d > w THEN d ELSE w
<1>1. PICK x \in Int : x = (a + d) \div 3 /\ 3 * x <= a + d /\ a + d < 3 * x + 3
  OBVIOUS
<1>2. x \in Nat
  BY <1>1
<1>3. 2 * x <= IF d > w THEN d ELSE w
  <2>1. 6 * x <= w + 2 * d
    BY <1>1
  <2> QED  BY <2>1
<1> QED  BY <1>1, <1>2, <1>3

LEMMA RunIInv ==
  ASSUME IInv, Run
  PROVE  IInv'
<1>1. Typed /\ Listed /\ Requests /\ NeverSleepsPast /\ EarlyByHalfAtMost /\ StopForgets
  BY DEF IInv
<1>2. /\ time \in [Events -> Times] /\ at \in [Threads -> Places] /\ "timer" \in Threads
      /\ avg_delay_ \in Nat /\ worst \in Nat /\ deadline \in Nat /\ now \in Times
  BY <1>1 DEF Typed, Threads
<1>3. \A x \in Times : x \in Nat /\ x < Never
  BY TimerAssumption DEF Times, Never
<1>4. ASSUME NEW p \in Places \ {"insert"}, at["timer"] # "insert",
             at' = [at EXCEPT !["timer"] = p]
      PROVE  /\ at' \in [Threads -> Places] /\ at'["timer"] = p
             /\ \A t \in Threads : at'[t] = "insert" <=> at[t] = "insert"
  <2>1. at' \in [Threads -> Places] /\ at'["timer"] = p
    BY <1>2, <1>4
  <2>2. \A t \in Threads : t # "timer" => at'[t] = at[t]
    BY <1>2, <1>4
  <2> QED  BY <1>4, <2>1, <2>2
<1>5. CASE RunStops
  <2>1. /\ Clear /\ at' = [at EXCEPT !["timer"] = "off"] /\ at["timer"] = "run"
        /\ time' = time /\ avg_delay_' = avg_delay_ /\ stop_' = stop_ /\ request' = request
        /\ deadline' = deadline /\ now' = now /\ sets' = sets /\ worst' = worst /\ doomed' = doomed
    BY <1>5 DEF RunStops
  <2>2. Listed' /\ Queued' = {}
    BY <2>1, ListCleared
  <2>3. /\ at' \in [Threads -> Places] /\ at'["timer"] = "off"
        /\ \A t \in Threads : at'[t] = "insert" <=> at[t] = "insert"
    BY <1>4, <2>1 DEF Places
  <2>4. Typed'
    BY <1>1, <2>1, <2>3 DEF Typed
  <2>5. Requests'
    BY <2>1, <2>2, <2>3, RequestsKept
  <2>6. NeverSleepsPast' /\ StopForgets'
    BY <2>2 DEF NeverSleepsPast, StopForgets
  <2>7. EarlyByHalfAtMost'
    BY <1>1, <2>1 DEF EarlyByHalfAtMost
  <2> QED  BY <2>2, <2>4, <2>5, <2>6, <2>7 DEF IInv
<1>6. CASE RunTriggers
  <2>1. /\ RemoveFirst /\ at' = [at EXCEPT !["timer"] = "trigger"] /\ at["timer"] = "run"
        /\ time' = time /\ avg_delay_' = avg_delay_ /\ stop_' = stop_ /\ request' = request
        /\ deadline' = deadline /\ now' = now /\ sets' = sets /\ worst' = worst /\ doomed' = doomed
        /\ backets_ # <<>>
    BY <1>6 DEF RunTriggers
  <2>2. /\ Chained(backets_') /\ AllOf(backets_') = AllOf(backets_) \ {First}
        /\ backets_count_' = Len(backets_') /\ last_backet_' = Len(backets_')
    BY <1>1, <1>2, <2>1, Removes
  <2>3. Listed' /\ Queued' = Queued \ {First}
    BY <2>1, <2>2, QueuedIsAll, ListedNext
  <2>4. /\ at' \in [Threads -> Places] /\ at'["timer"] = "trigger"
        /\ \A t \in Threads : at'[t] = "insert" <=> at[t] = "insert"
    BY <1>4, <2>1 DEF Places
  <2>5. Typed'
    BY <1>1, <2>1, <2>4 DEF Typed
  <2>6. Requests'
    <3>1. Queued' \subseteq Queued
      BY <2>3
    <3> QED  BY <2>1, <2>4, <3>1, RequestsKept
  <2>7. NeverSleepsPast' /\ StopForgets'
    BY <2>4 DEF NeverSleepsPast, StopForgets
  <2>8. EarlyByHalfAtMost'
    BY <1>1, <2>1 DEF EarlyByHalfAtMost
  <2> QED  BY <2>3, <2>5, <2>6, <2>7, <2>8 DEF IInv
<1>7. CASE RunWaits
  <2>1. /\ UNCHANGED listVars /\ at' = [at EXCEPT !["timer"] = "wait"] /\ at["timer"] = "run"
        /\ time' = time /\ avg_delay_' = avg_delay_ /\ stop_' = stop_ /\ request' = request
        /\ now' = now /\ sets' = sets /\ worst' = worst /\ doomed' = doomed
        /\ backets_ # <<>> => ~Due
        /\ deadline' = IF backets_ = <<>> THEN Never
                       ELSE IF minimize_delay_ THEN time[First] - avg_delay_
                       ELSE time[First]
    BY <1>7 DEF RunWaits
  <2>2. Listed' /\ Queued' = Queued
    BY <1>1, <2>1, ListKept
  <2>3. /\ at' \in [Threads -> Places] /\ at'["timer"] = "wait"
        /\ \A t \in Threads : at'[t] = "insert" <=> at[t] = "insert"
    BY <1>4, <2>1 DEF Places
  <2>4. /\ deadline' \in Nat
        /\ \A e \in Queued : deadline' # Never /\ deadline' <= time[e]
    <3>1. CASE backets_ = <<>>
      <4>1. Queued = {}
        BY <3>1 DEF Queued
      <4>2. Never \in Nat
        BY TimerAssumption DEF Never
      <4> QED  BY <2>1, <3>1, <4>1, <4>2
    <3>2. CASE backets_ # <<>>
      <4>1. /\ First \in Events /\ \A e \in Queued : e \in Events /\ time[First] <= time[e]
        BY <1>1, <1>2, <3>2, FirstIs
      <4>2. PICK f \in Nat : f = time[First] /\ f < Never
        BY <1>2, <1>3, <4>1
      <4>3. ~(f <= now) /\ (minimize_delay_ => ~(f - now <= avg_delay_))
        BY <2>1, <3>2, <4>2 DEF Due
      <4>4. deadline' \in Nat /\ deadline' <= f
        BY <1>2, <1>3, <2>1, <3>2, <4>2, <4>3
      <4>5. deadline' # Never
        BY <4>2, <4>4, TimerAssumption DEF Never
      <4>6. ASSUME NEW e \in Queued PROVE deadline' <= time[e]
        <5>1. time[e] \in Nat /\ f <= time[e]
          BY <1>2, <1>3, <4>1, <4>2
        <5> QED  BY <4>4, <5>1
      <4> QED  BY <4>4, <4>5, <4>6
    <3> QED  BY <3>1, <3>2
  <2>5. Typed'
    BY <1>1, <2>1, <2>3, <2>4 DEF Typed
  <2>6. Requests'
    BY <2>1, <2>2, <2>3, RequestsKept
  <2>7. NeverSleepsPast' /\ StopForgets'
    BY <2>1, <2>2, <2>3, <2>4 DEF NeverSleepsPast, StopForgets, Never
  <2>8. EarlyByHalfAtMost'
    BY <1>1, <2>1 DEF EarlyByHalfAtMost
  <2> QED  BY <2>2, <2>5, <2>6, <2>7, <2>8 DEF IInv
<1>8. CASE TimesOut
  <2>1. /\ UNCHANGED listVars /\ at' = [at EXCEPT !["timer"] = "run"] /\ at["timer"] = "wait"
        /\ time' = time /\ stop_' = stop_ /\ request' = request /\ deadline' = deadline
        /\ now' = now /\ sets' = sets /\ doomed' = doomed
        /\ now >= deadline
        /\ IF minimize_delay_
           THEN /\ avg_delay_' = NewAverage(now - deadline)
                /\ worst' = IF now - deadline > worst THEN now - deadline ELSE worst
           ELSE UNCHANGED <<avg_delay_, worst>>
    BY <1>8 DEF TimesOut
  <2>2. Listed' /\ Queued' = Queued
    BY <1>1, <2>1, ListKept
  <2>3. /\ at' \in [Threads -> Places] /\ at'["timer"] = "run"
        /\ \A t \in Threads : at'[t] = "insert" <=> at[t] = "insert"
    BY <1>4, <2>1 DEF Places
  <2>4. avg_delay_' \in Nat /\ worst' \in Nat /\ 2 * avg_delay_' <= worst'
    <3>1. CASE minimize_delay_
      <4>1. PICK d \in Nat : d = now - deadline
        BY <1>2, <1>3, <2>1
      <4>2. avg_delay_' = (avg_delay_ + d) \div 3 /\ worst' = IF d > worst THEN d ELSE worst
        BY <2>1, <3>1, <4>1 DEF NewAverage
      <4>3. 2 * avg_delay_ <= worst
        BY <1>1 DEF EarlyByHalfAtMost
      <4> QED  BY <1>2, <4>2, <4>3, Averaging
    <3>2. CASE ~minimize_delay_
      BY <1>1, <1>2, <2>1, <3>2 DEF EarlyByHalfAtMost
    <3> QED  BY <3>1, <3>2
  <2>5. Typed'
    BY <1>1, <2>1, <2>3, <2>4 DEF Typed
  <2>6. Requests'
    BY <2>1, <2>2, <2>3, RequestsKept
  <2>7. NeverSleepsPast' /\ StopForgets'
    BY <2>3 DEF NeverSleepsPast, StopForgets
  <2>8. EarlyByHalfAtMost'
    BY <2>4 DEF EarlyByHalfAtMost
  <2> QED  BY <2>2, <2>5, <2>6, <2>7, <2>8 DEF IInv
<1>9. ASSUME at["timer"] # "insert", NEW p \in {"run", "off"}, at' = [at EXCEPT !["timer"] = p],
             UNCHANGED <<listVars, time, avg_delay_, stop_, request, deadline, now, sets, worst>>,
             doomed' = IF p = "off" THEN {} ELSE doomed
      PROVE  IInv'
  <2>1. /\ UNCHANGED listVars
        /\ time' = time /\ avg_delay_' = avg_delay_ /\ stop_' = stop_ /\ request' = request
        /\ deadline' = deadline /\ now' = now /\ sets' = sets /\ worst' = worst
    BY <1>9
  <2>2. Listed' /\ Queued' = Queued
    BY <1>1, <2>1, ListKept
  <2>3. /\ at' \in [Threads -> Places] /\ at'["timer"] = p
        /\ \A t \in Threads : at'[t] = "insert" <=> at[t] = "insert"
    BY <1>4, <1>9 DEF Places
  <2>4. doomed' \subseteq doomed /\ (p = "off" => doomed' = {})
    BY <1>9
  <2>5. Typed'
    BY <1>1, <2>1, <2>3, <2>4 DEF Typed
  <2>6. Requests'
    <3>1. doomed' \subseteq doomed \union Queued /\ Queued' \subseteq Queued
      BY <2>2, <2>4
    <3> QED  BY <2>1, <2>3, <3>1, RequestsKept
  <2>7. NeverSleepsPast' /\ StopForgets'
    <3>1. NeverSleepsPast'
      BY <2>3 DEF NeverSleepsPast
    <3>2. StopForgets'
      BY <2>3, <2>4 DEF StopForgets
    <3> QED  BY <3>1, <3>2
  <2>8. EarlyByHalfAtMost'
    BY <1>1, <2>1 DEF EarlyByHalfAtMost
  <2> QED  BY <2>2, <2>5, <2>6, <2>7, <2>8 DEF IInv
<1>10. CASE WakesSpuriously
  <2>1. at' = [at EXCEPT !["timer"] = "run"]
    BY <1>10 DEF WakesSpuriously, Woken
  <2> QED  BY <1>9, <1>10, <2>1 DEF WakesSpuriously
<1>11. CASE TriggerReturns
  BY <1>9, <1>11 DEF TriggerReturns
<1>12. CASE TriggerFails
  BY <1>9, <1>12 DEF TriggerFails
<1> QED  BY <1>5, <1>6, <1>7, <1>8, <1>10, <1>11, <1>12 DEF Run

LEMMA OtherIInv ==
  ASSUME IInv, \/ \E t \in Setters : StopBegin(t) \/ StopSignal(t)
               \/ Start \/ ClearBackets \/ Tick
               \/ UNCHANGED vars
  PROVE  IInv'
<1>1. Typed /\ Listed /\ Requests /\ NeverSleepsPast /\ EarlyByHalfAtMost /\ StopForgets
  BY DEF IInv
<1>2. /\ time \in [Events -> Times] /\ at \in [Threads -> Places] /\ "timer" \in Threads
      /\ Setters \subseteq Threads /\ "timer" \notin Setters
      /\ doomed \subseteq Events
  BY <1>1, TimerAssumption DEF Typed, Threads
<1>3. Queued \subseteq Events
  <2>1. backets_ = <<>> \/ \A x \in Queued : x \in Events
    BY <1>1, <1>2, FirstIs
  <2> QED  BY <2>1 DEF Queued
<1>4. ASSUME Listed', Queued' \subseteq Queued, time' = time, avg_delay_' = avg_delay_,
             stop_' \in BOOLEAN, request' = request, deadline' = deadline,
             sets' = sets, worst' = worst, now' \in Times,
             doomed' \subseteq doomed \union Queued,
             at' \in [Threads -> Places],
             \A t \in Threads : at'[t] = "insert" <=> at[t] = "insert",
             at'["timer"] = "wait" => at["timer"] = "wait",
             at'["timer"] = "off" => at["timer"] = "off" /\ doomed' = doomed
      PROVE  IInv'
  <2>1. Typed'
    BY <1>1, <1>2, <1>3, <1>4 DEF Typed
  <2>2. Requests'
    BY <1>4, RequestsKept
  <2>3. NeverSleepsPast'
    BY <1>1, <1>4 DEF NeverSleepsPast, Never
  <2>4. EarlyByHalfAtMost'
    BY <1>1, <1>4 DEF EarlyByHalfAtMost
  <2>5. StopForgets'
    BY <1>1, <1>4 DEF StopForgets
  <2> QED  BY <1>4, <2>1, <2>2, <2>3, <2>4, <2>5 DEF IInv
<1>5. UNCHANGED listVars /\ time' = time => Listed' /\ Queued' = Queued
  BY <1>1, ListKept
<1>6. stop_ \in BOOLEAN /\ now \in Times
  BY <1>1 DEF Typed
<1>7. ASSUME NEW t \in Setters, StopBegin(t) PROVE IInv'
  <2>1. /\ at' = [at EXCEPT ![t] = "stop"] /\ at[t] = "idle" /\ at["timer"] # "off"
        /\ t \in Threads /\ t # "timer"
    BY <1>2, <1>7 DEF StopBegin
  <2>2. /\ at' \in [Threads -> Places] /\ at'["timer"] = at["timer"]
        /\ \A u \in Threads : at'[u] = "insert" <=> at[u] = "insert"
    <3>1. at' \in [Threads -> Places]
      BY <1>2, <2>1 DEF Places
    <3>2. \A u \in Threads : at'[u] = IF u = t THEN "stop" ELSE at[u]
      BY <1>2, <2>1
    <3> QED  BY <1>2, <2>1, <3>1, <3>2
  <2>3. /\ UNCHANGED listVars /\ time' = time /\ avg_delay_' = avg_delay_ /\ stop_' = TRUE
        /\ request' = request /\ deadline' = deadline /\ now' = now /\ sets' = sets
        /\ worst' = worst /\ doomed' = Queued
    BY <1>7 DEF StopBegin
  <2> QED  BY <1>4, <1>5, <1>6, <2>1, <2>2, <2>3
<1>8. ASSUME NEW t \in Setters, StopSignal(t) PROVE IInv'
  <2>1. /\ at' = Woken([at EXCEPT ![t] = "idle"]) /\ at[t] = "stop"
        /\ t \in Threads /\ t # "timer"
    BY <1>2, <1>8 DEF StopSignal
  <2>2. PICK f \in [Threads -> Places] : f = [at EXCEPT ![t] = "idle"]
    BY <1>2 DEF Places
  <2>3. /\ at' \in [Threads -> Places] /\ at'["timer"] # "wait"
        /\ at'["timer"] = "off" => at["timer"] = "off"
        /\ \A u \in Threads : at'[u] = "insert" <=> at[u] = "insert"
    <3>1. \A u \in Threads : f[u] = IF u = t THEN "idle" ELSE at[u]
      BY <1>2, <2>1, <2>2
    <3>2. at' = [f EXCEPT !["timer"] = IF f["timer"] = "wait" THEN "run" ELSE f["timer"]]
      BY <2>1, <2>2 DEF Woken
    <3>3. at' \in [Threads -> Places]
      BY <3>2 DEF Places
    <3>4. \A u \in Threads : at'[u] = IF u = "timer" /\ f[u] = "wait" THEN "run" ELSE f[u]
      BY <3>2
    <3> QED  BY <1>2, <2>1, <3>1, <3>3, <3>4
  <2>4. /\ UNCHANGED listVars /\ time' = time /\ avg_delay_' = avg_delay_ /\ stop_' = stop_
        /\ request' = request /\ deadline' = deadline /\ now' = now /\ sets' = sets
        /\ worst' = worst /\ doomed' = doomed
    BY <1>8 DEF StopSignal
  <2> QED  BY <1>4, <1>5, <1>6, <2>3, <2>4
<1>9. CASE Start
  <2>1. at' = [at EXCEPT !["timer"] = "run"] /\ at["timer"] = "off"
    BY <1>9 DEF Start
  <2>2. /\ at' \in [Threads -> Places] /\ at'["timer"] = "run"
        /\ \A u \in Threads : at'[u] = "insert" <=> at[u] = "insert"
    <3>1. at' \in [Threads -> Places]
      BY <1>2, <2>1 DEF Places
    <3>2. \A u \in Threads : at'[u] = IF u = "timer" THEN "run" ELSE at[u]
      BY <1>2, <2>1
    <3> QED  BY <1>2, <2>1, <3>1, <3>2
  <2>3. /\ UNCHANGED listVars /\ time' = time /\ avg_delay_' = avg_delay_ /\ stop_' = FALSE
        /\ request' = request /\ deadline' = deadline /\ now' = now /\ sets' = sets
        /\ worst' = worst /\ doomed' = doomed
    BY <1>9 DEF Start
  <2> QED  BY <1>4, <1>5, <1>6, <2>2, <2>3
<1>10. CASE ClearBackets
  <2>1. /\ Clear /\ time' = time /\ avg_delay_' = avg_delay_ /\ stop_' = stop_ /\ at' = at
        /\ request' = request /\ deadline' = deadline /\ now' = now /\ sets' = sets
        /\ worst' = worst /\ doomed' = doomed
    BY <1>10 DEF ClearBackets
  <2>2. Listed' /\ Queued' = {}
    BY <2>1, ListCleared
  <2> QED  BY <1>2, <1>4, <1>6, <2>1, <2>2
<1>11. CASE Tick
  <2>1. /\ UNCHANGED listVars /\ time' = time /\ avg_delay_' = avg_delay_ /\ stop_' = stop_
        /\ at' = at /\ request' = request /\ deadline' = deadline /\ sets' = sets
        /\ worst' = worst /\ doomed' = doomed /\ now < MaxTime /\ now' = now + 1
    BY <1>11 DEF Tick
  <2>2. now' \in Times
    BY <1>6, <2>1, TimerAssumption DEF Times
  <2> QED  BY <1>2, <1>4, <1>5, <1>6, <2>1, <2>2
<1>12. CASE UNCHANGED vars
  <2>1. /\ UNCHANGED listVars /\ time' = time /\ avg_delay_' = avg_delay_ /\ stop_' = stop_
        /\ at' = at /\ request' = request /\ deadline' = deadline /\ sets' = sets
        /\ worst' = worst /\ doomed' = doomed /\ now' = now
    BY <1>12 DEF vars
  <2> QED  BY <1>2, <1>4, <1>5, <1>6, <2>1
<1> QED  BY <1>7, <1>8, <1>9, <1>10, <1>11, <1>12

(* The timer's list and its clocks agree in every reachable state. *)
THEOREM Invariance == Spec => []IInv
<1>1. Init => IInv
  BY InitIInv
<1>2. IInv /\ [Next]_vars => IInv'
  <2> SUFFICES ASSUME IInv, [Next]_vars PROVE IInv'
    OBVIOUS
  <2>1. ASSUME NEW t \in Threads, SetBegin(t) PROVE IInv'
    BY <2>1, SetBeginIInv
  <2>2. ASSUME NEW t \in Threads, SetInsert(t) PROVE IInv'
    BY <2>2, SetInsertIInv
  <2>3. CASE Run
    BY <2>3, RunIInv
  <2>4. CASE \/ \E t \in Setters : StopBegin(t) \/ StopSignal(t)
             \/ Start \/ ClearBackets \/ Tick
             \/ UNCHANGED vars
    BY <2>4, OtherIInv
  <2> QED  BY <2>1, <2>2, <2>3, <2>4 DEF Next
<1> QED  BY <1>1, <1>2, PTL DEF Spec


LEMMA IInvIsValid ==
  ASSUME IInv
  PROVE  Valid
<1>1. Typed /\ Listed
  BY DEF IInv
<1>2. /\ Chained(backets_) /\ last_backet_ = Len(backets_) /\ backets_count_ = Len(backets_)
      /\ time \in [Events -> Times]
  BY <1>1 DEF Listed, Typed
<1>3. PICK n \in Nat : n = Len(backets_) /\ DOMAIN backets_ = 1 .. n
  BY <1>2, ChainFacts
<1>4. \A i \in 1 .. n : backets_[i] \in BacketType /\ Good(backets_[i])
  BY <1>2, <1>3, ChainFacts
<1>5. TypeOK
  <2>1. /\ \A t \in Threads : /\ request[t].event \in Events \union {"none"}
                              /\ request[t].time \in Times
        /\ deadline \in Int
    BY <1>1 DEF Typed
  <2> QED  BY <1>1, <1>2, <1>3, <1>4, <2>1 DEF TypeOK, Typed, Places
<1>6. ASSUME NEW i \in 1 .. n
      PROVE  LET b == backets_[i] IN
             /\ b.events # <<>>
             /\ b.events_count = Len(b.events)
             /\ \A j \in DOMAIN b.events :
                  /\ b.min_time <= time[b.events[j]]
                  /\ time[b.events[j]] <= b.max_time
                  /\ j > 1 => time[b.events[j - 1]] <= time[b.events[j]]
             /\ i > 1 => LET p == backets_[i - 1].events
                         IN  time[p[Len(p)]] <= time[b.events[1]]
  <2>1. PICK b \in BacketType : b = backets_[i] /\ Good(b)
    BY <1>4
  <2>2. PICK l \in Nat : l = Len(b.events) /\ DOMAIN b.events = 1 .. l
    BY <1>2, <2>1, GoodFacts
  <2>3. b.events # <<>> /\ b.events_count = Len(b.events)
    BY <2>1 DEF Good
  <2>4. ASSUME NEW j \in 1 .. l
        PROVE  /\ b.min_time <= time[b.events[j]]
               /\ time[b.events[j]] <= b.max_time
               /\ j > 1 => time[b.events[j - 1]] <= time[b.events[j]]
    <3>1. b.min_time <= time[b.events[j]] /\ time[b.events[j]] <= b.max_time
      BY <1>2, <2>1, <2>2, GoodFacts
    <3>2. ASSUME j > 1 PROVE time[b.events[j - 1]] <= time[b.events[j]]
      <4>1. j - 1 \in 1 .. l /\ j - 1 < j
        BY <3>2
      <4> QED  BY <2>1, <2>2, <4>1 DEF Good
    <3> QED  BY <3>1, <3>2
  <2>5. ASSUME i > 1
        PROVE  time[backets_[i - 1].events[Len(backets_[i - 1].events)]] <= time[b.events[1]]
    <3>1. PICK k \in 1 .. n : k = i - 1 /\ k < i
      BY <2>5
    <3>2. backets_[k].max_time <= backets_[i].min_time
      BY <1>2, <1>3, <3>1 DEF Chained
    <3>3. backets_[k].max_time = time[backets_[k].events[Len(backets_[k].events)]]
      BY <1>4 DEF Good
    <3> QED  BY <2>1, <3>1, <3>2, <3>3 DEF Good
  <2> QED  BY <2>1, <2>2, <2>3, <2>4, <2>5
<1> QED  BY <1>2, <1>3, <1>5, <1>6 DEF Valid

(* What Timer::validate looks for never happens: after every step the      *)
(* backets are sorted, disjoint and not empty, with their true bounds and  *)
(* counts (Timer::set, remove_first_event and the splitting in set).       *)
THEOREM ListIsValid == Spec => []Valid
BY Invariance, IInvIsValid, PTL

(* While the timer's thread waits, no event that is queued, whenever it    *)
(* was set, is earlier than the end of the wait.                           *)
THEOREM NeverTooLongAsleep == Spec => []NeverSleepsPast
<1>1. IInv => NeverSleepsPast
  BY DEF IInv
<1> QED  BY <1>1, Invariance, PTL

(* The average by which minimize_delay triggers early is at most half of   *)
(* the worst delay there has ever been.                                    *)
THEOREM EarlyByHalf == Spec => []EarlyByHalfAtMost
<1>1. IInv => EarlyByHalfAtMost
  BY DEF IInv
<1> QED  BY <1>1, Invariance, PTL

(* A thread that was stopped has left none of the events that were queued  *)
(* when stop() was called.                                                 *)
THEOREM StoppingForgets == Spec => []StopForgets
<1>1. IInv => StopForgets
  BY DEF IInv
<1> QED  BY <1>1, Invariance, PTL

-----------------------------------------------------------------------------
(* The timer implements its schedule. *)
Pending == {[event |-> e, time |-> time[e]] : e \in Queued}

LEMMA PendingKept ==
  ASSUME Queued' = Queued, \A e \in Queued : time'[e] = time[e]
  PROVE  Pending' = Pending
BY DEF Pending

LEMMA InitPromise ==
  ASSUME Init
  PROVE  Promise!Init
<1>1. Queued = {} /\ now = 0 /\ worst = 0
  BY DEF Init, Queued
<1> QED  BY <1>1 DEF Promise!Init

(* An event enters the schedule when it enters the list. *)
LEMMA InsertSets ==
  ASSUME IInv, NEW t \in Threads, SetInsert(t)
  PROVE  Promise!Set
<1>1. Typed /\ Listed /\ Requests
  BY DEF IInv
<1>2. PICK e : e = request[t].event
  OBVIOUS
<1>3. /\ e \in Events /\ e \notin Queued /\ time[e] \in Times /\ time[e] = request[t].time
      /\ time \in [Events -> Times]
  BY <1>1, <1>2 DEF Typed, Requests, SetInsert
<1>4. InsertFirst(e, time[e]) \/ InsertWhole(e, time[e]) \/ InsertSplit(e, time[e])
  BY <1>2, <1>3 DEF SetInsert
<1>5. time' = time /\ now' = now /\ worst' = worst
  BY DEF SetInsert
<1>6. AllOf(backets_') = AllOf(backets_) \union {e}
  BY <1>1, <1>3, <1>4, Inserts
<1>7. Queued' = Queued \union {e}
  BY <1>6 DEF Queued, AllOf
<1>8. Pending' = Pending \union {[event |-> e, time |-> time[e]]}
  BY <1>5, <1>7 DEF Pending
<1>9. \A p \in Pending : p.event # e
  BY <1>3 DEF Pending
<1> QED  BY <1>3, <1>5, <1>8, <1>9 DEF Promise!Set, Pending

(* The event that is triggered is the earliest, and its time has come, but *)
(* for half of the worst delay.                                            *)
LEMMA TriggerTriggers ==
  ASSUME IInv, RunTriggers
  PROVE  Promise!Trigger
<1>1. Typed /\ Listed /\ EarlyByHalfAtMost /\ backets_ # <<>>
  BY DEF IInv, RunTriggers
<1>2. /\ time \in [Events -> Times] /\ avg_delay_ \in Nat /\ worst \in Nat /\ now \in Nat
      /\ \A x \in Times : x \in Nat
  BY <1>1, TimerAssumption DEF Typed, Times
<1>3. /\ First \in Events /\ First \in Queued
      /\ \A e \in Queued : e \in Events /\ time[First] <= time[e]
  BY <1>1, <1>2, FirstIs
<1>4. RemoveFirst /\ time' = time /\ now' = now /\ worst' = worst /\ Due
  BY DEF RunTriggers
<1>5. AllOf(backets_') = AllOf(backets_) \ {First}
  BY <1>1, <1>2, <1>4, Removes
<1>6. Queued' = Queued \ {First}
  BY <1>5 DEF Queued, AllOf
<1>7. PICK p : p = [event |-> First, time |-> time[First]]
  OBVIOUS
<1>8. p \in Pending /\ p.time = time[First] /\ p.event = First
  BY <1>3, <1>7 DEF Pending
<1>9. \A q \in Pending : p.time <= q.time
  BY <1>3, <1>8 DEF Pending
<1>10. Pending' = Pending \ {p}
  BY <1>4, <1>6, <1>7 DEF Pending
<1>11. 2 * Promise!Early(p.time) <= worst
  <2>1. PICK f \in Nat : f = p.time
    BY <1>2, <1>3, <1>8
  <2>2. f <= now \/ f - now <= avg_delay_
    BY <1>4, <1>8, <2>1 DEF Due
  <2>3. 2 * (IF f <= now THEN 0 ELSE f - now) <= worst
    BY <1>1, <1>2, <2>2 DEF EarlyByHalfAtMost
  <2> QED  BY <2>1, <2>3 DEF Promise!Early
<1> QED  BY <1>4, <1>8, <1>9, <1>10, <1>11 DEF Promise!Trigger, Pending

LEMMA StepPromise ==
  ASSUME IInv, [Next]_vars
  PROVE  [Promise!Next]_Promise!vars
<1>1. Typed /\ Listed /\ time \in [Events -> Times]
  BY DEF IInv, Typed
<1>2. ASSUME UNCHANGED listVars, \A e \in Queued : time'[e] = time[e], now' = now, worst' = worst
      PROVE  UNCHANGED Promise!vars
  <2>1. Queued' = Queued
    BY <1>2 DEF Queued, listVars
  <2>2. Pending' = Pending
    BY <1>2, <2>1, PendingKept
  <2> QED  BY <1>2, <2>2 DEF Promise!vars, Pending
<1>3. ASSUME NEW t \in Threads, SetBegin(t) PROVE UNCHANGED Promise!vars
  <2>1. PICK e \in Settable, tm \in Times : time' = [time EXCEPT ![e] = tm]
    BY <1>3 DEF SetBegin
  <2>2. \A x \in Queued : x \in Events /\ x # e
    <3>1. backets_ = <<>> \/ \A x \in Queued : x \in Events
      BY <1>1, FirstIs
    <3>2. \A x \in Queued : x \in Events
      BY <3>1 DEF Queued
    <3> QED  BY <2>1, <3>2 DEF Settable
  <2>3. \A x \in Queued : time'[x] = time[x]
    BY <1>1, <2>1, <2>2
  <2> QED  BY <1>2, <1>3, <2>3 DEF SetBegin
<1>4. ASSUME NEW t \in Threads, SetInsert(t) PROVE Promise!Next
  BY <1>4, InsertSets DEF Promise!Next
<1>5. ASSUME Clear, now' = now, worst' = worst PROVE Promise!Next
  <2>1. Queued' = {}
    BY <1>5 DEF Clear, Queued
  <2>2. Pending' = {}
    BY <2>1 DEF Pending
  <2> QED  BY <1>5, <2>2 DEF Promise!Next, Promise!Forget, Pending
<1>6. CASE RunStops
  BY <1>5, <1>6 DEF RunStops
<1>7. CASE ClearBackets
  BY <1>5, <1>7 DEF ClearBackets
<1>8. CASE RunTriggers
  BY <1>8, TriggerTriggers DEF Promise!Next
<1>9. CASE TimesOut
  <2>1. /\ UNCHANGED listVars /\ time' = time /\ now' = now /\ now \in Nat /\ deadline \in Nat
        /\ worst \in Nat
    BY <1>1, <1>9, TimerAssumption DEF TimesOut, Typed, Times
  <2>2. worst' = worst \/ (worst' = now - deadline /\ worst' > worst)
    <3>1. worst' = worst \/ worst' = IF now - deadline > worst THEN now - deadline ELSE worst
      BY <1>9 DEF TimesOut
    <3> QED  BY <2>1, <3>1
  <2>3. CASE worst' = worst
    BY <1>2, <2>1, <2>3
  <2>4. CASE worst' = now - deadline /\ worst' > worst
    <3>1. Queued' = Queued
      BY <2>1 DEF Queued, listVars
    <3>2. Pending' = Pending
      BY <2>1, <3>1, PendingKept
    <3>3. worst' > worst /\ worst' <= now
      BY <2>1, <2>4
    <3> QED  BY <2>1, <3>2, <3>3 DEF Promise!Next, Promise!WakeLate, Pending
  <2> QED  BY <2>2, <2>3, <2>4
<1>10. CASE Tick
  <2>1. /\ UNCHANGED listVars /\ time' = time /\ now' = now + 1 /\ now \in Nat /\ worst' = worst
    BY <1>1, <1>10, TimerAssumption DEF Tick, Typed, Times
  <2>2. Queued' = Queued
    BY <2>1 DEF Queued, listVars
  <2>3. Pending' = Pending
    BY <2>1, <2>2, PendingKept
  <2>4. now' > now
    BY <2>1
  <2> QED  BY <2>1, <2>3, <2>4 DEF Promise!Next, Promise!Tick, Pending
<1>11. CASE RunWaits \/ WakesSpuriously \/ TriggerReturns \/ TriggerFails \/ Start
  BY <1>2, <1>11 DEF RunWaits, WakesSpuriously, TriggerReturns, TriggerFails, Start
<1>12. ASSUME NEW t \in Setters, StopBegin(t) \/ StopSignal(t) PROVE UNCHANGED Promise!vars
  BY <1>2, <1>12 DEF StopBegin, StopSignal
<1>13. CASE UNCHANGED vars
  BY <1>2, <1>13 DEF vars
<1> QED  BY <1>3, <1>4, <1>6, <1>7, <1>8, <1>9, <1>10, <1>11, <1>12, <1>13 DEF Next, Run

(* The timer implements its schedule: whatever is set, stopped and cleared *)
(* when, run() triggers the events of the list in the order of their times *)
(* and none earlier than minimize_delay allows; none is lost or triggered  *)
(* twice.                                                                  *)
THEOREM TimerImplementsSchedule == Spec => ImplementsSchedule
<1>1. Init => Promise!Init
  BY InitPromise
<1>2. IInv /\ [Next]_vars => [Promise!Next]_Promise!vars
  BY StepPromise
<1> QED  BY <1>1, <1>2, Invariance, PTL DEF Spec, ImplementsSchedule, Promise!Spec

-----------------------------------------------------------------------------
(***************************************************************************)
(* The file logger, whose rotator_ is an event of a timer.  Its proofs use *)
(* of the above only that a set of numbers has a least one.                *)
(***************************************************************************)

(* The polices are asked one after another, but only the first that wants  *)
(* it makes a rotation: the file opened then is empty.                     *)
Rotated(l) == IF Rename(l).ok THEN Open(Rename(l)) ELSE Rename(l)

Asked(l, i) ==
  IF l.ok /\ \E j \in 1 .. i : need_rotate(l, Polices[j]) THEN Rotated(l) ELSE l

Loggers ==
  [output_ : {"closed", "file", "aside"}, stat_ : Nat, age : 0 .. period_,
   time_ : Nat, file : Seq(Lines) \union {Missing}, aside : Seq(Lines),
   rotated : UNION {[S -> Seq(Lines)] : S \in SUBSET Nat},
   overwritten : SUBSET Lines, ok : BOOLEAN]

(* What rename() makes of a logger: all is as it was, but that it is       *)
(* closed, or the file has the name made of time_.                         *)
LEMMA RenameIs ==
  ASSUME NEW l \in Loggers
  PROVE  /\ Rename(l) \in Loggers
         /\ Rename(l).output_ = "closed"
         /\ Rename(l).stat_ = l.stat_ /\ Rename(l).age = l.age
         /\ Rename(l).time_ = l.time_ /\ Rename(l).aside = l.aside
         /\ \/ /\ ~Rename(l).ok
               /\ Rename(l).file = l.file /\ Rename(l).rotated = l.rotated
               /\ Rename(l).overwritten = l.overwritten
            \/ /\ Rename(l).ok = l.ok
               /\ l.file # Missing /\ Rename(l).file = Missing
               /\ Rename(l).rotated =
                    [n \in DOMAIN l.rotated \union {l.time_} |->
                       IF n = l.time_ THEN l.file ELSE l.rotated[n]]
               /\ Rename(l).overwritten =
                    IF l.time_ \in DOMAIN l.rotated
                    THEN l.overwritten \union Range(l.rotated[l.time_])
                    ELSE l.overwritten
<1> DEFINE failed == [l EXCEPT !.output_ = "closed", !.ok = FALSE]
           rotated == [n \in DOMAIN l.rotated \union {l.time_} |->
                         IF n = l.time_ THEN l.file ELSE l.rotated[n]]
           overwritten == IF l.time_ \in DOMAIN l.rotated
                          THEN l.overwritten \union Range(l.rotated[l.time_])
                          ELSE l.overwritten
<1>1. CASE "rename" \in broken \/ l.file = Missing
  <2>1. Rename(l) = failed
    BY <1>1 DEF Rename
  <2>2. failed \in Loggers
    BY DEF Loggers
  <2>3. /\ failed.output_ = "closed" /\ failed.stat_ = l.stat_
        /\ failed.age = l.age /\ failed.time_ = l.time_ /\ failed.aside = l.aside
        /\ ~failed.ok /\ failed.file = l.file /\ failed.rotated = l.rotated
        /\ failed.overwritten = l.overwritten
    BY DEF Loggers
  <2> QED  BY <2>1, <2>2, <2>3
<1>2. CASE ~("rename" \in broken \/ l.file = Missing)
  <2> DEFINE renamed == [l EXCEPT !.output_ = "closed", !.file = Missing,
                           !.overwritten = overwritten, !.rotated = rotated]
  <2>1. Rename(l) = renamed
    BY <1>2 DEF Rename
  <2>2. rotated \in UNION {[S -> Seq(Lines)] : S \in SUBSET Nat}
    <3> DEFINE S == DOMAIN l.rotated \union {l.time_}
    <3>1. PICK S0 \in SUBSET Nat : l.rotated \in [S0 -> Seq(Lines)]
      BY DEF Loggers
    <3>2. S \in SUBSET Nat /\ l.file \in Seq(Lines)
      BY <1>2, <3>1 DEF Loggers
    <3>3. rotated \in [S -> Seq(Lines)]
      BY <3>1, <3>2
    <3> QED  BY <3>2, <3>3
  <2>3. overwritten \in SUBSET Lines
    <3>1. PICK S0 \in SUBSET Nat : l.rotated \in [S0 -> Seq(Lines)]
      BY DEF Loggers
    <3>2. l.time_ \in DOMAIN l.rotated => l.rotated[l.time_] \in Seq(Lines)
      BY <3>1
    <3>3. \A s \in Seq(Lines) : Range(s) \subseteq Lines
      BY LenProperties, ElementOfSeq DEF Range
    <3> QED  BY <3>2, <3>3 DEF Loggers
  <2> HIDE DEF overwritten, rotated
  <2>4. renamed \in Loggers
    BY <2>2, <2>3 DEF Loggers
  <2>5. /\ renamed.output_ = "closed" /\ renamed.stat_ = l.stat_
        /\ renamed.age = l.age /\ renamed.time_ = l.time_ /\ renamed.aside = l.aside
        /\ renamed.ok = l.ok /\ renamed.file = Missing
        /\ renamed.rotated = rotated /\ renamed.overwritten = overwritten
    BY DEF Loggers
  <2> QED  BY <1>2, <2>1, <2>4, <2>5 DEF rotated, overwritten
<1> QED  BY <1>1, <1>2

(* What open() makes of a logger: all is as it was, but for the file and   *)
(* for what is known of it.                                                *)
LEMMA OpenIs ==
  ASSUME NEW l \in Loggers
  PROVE  /\ Open(l) \in Loggers
         /\ Open(l).time_ = l.time_ /\ Open(l).aside = l.aside
         /\ Open(l).rotated = l.rotated
         /\ Open(l).overwritten = l.overwritten
         /\ \/ /\ ~Open(l).ok /\ Open(l).output_ = "closed"
               /\ Open(l).file = l.file
            \/ /\ Open(l).ok = l.ok /\ Open(l).output_ = "file"
               /\ Open(l).stat_ = 0
               /\ Open(l).file = IF l.file = Missing THEN <<>> ELSE l.file
<1>1. CASE "open" \in broken
  BY <1>1 DEF Open, Loggers
<1>2. CASE "open" \notin broken
  <2> DEFINE file == IF l.file = Missing THEN <<>> ELSE l.file
             opened == [l EXCEPT !.output_ = "file", !.age = 0, !.stat_ = 0, !.file = file]
  <2>1. Open(l) = opened
    BY <1>2 DEF Open
  <2>2. file \in Seq(Lines) \union {Missing}
    BY EmptySeq DEF Loggers
  <2> HIDE DEF file
  <2>4. 0 \in 0 .. period_ /\ 0 \in Nat
    BY FileLoggerAssumption
  <2>3. opened \in Loggers
    BY <2>2, <2>4, Zenon DEF Loggers
  <2> QED  BY <1>2, <2>1, <2>3 DEF Loggers, file
<1> QED  BY <1>1, <1>2

(* After a rotation no policy wants another.                               *)
LEMMA RotatedIsEmpty ==
  ASSUME NEW l \in Loggers, Rotated(l).ok,
         NEW policy
  PROVE  ~need_rotate(Rotated(l), policy)
<1> DEFINE r == Rename(l)
<1>1. r.ok /\ Rotated(l) = Open(r)
  BY DEF Rotated
<1>2. r \in Loggers
  BY RenameIs
<1>3. Rotated(l).stat_ = 0
  <2> HIDE DEF r
  <2> QED  BY <1>1, <1>2, OpenIs
<1> QED  BY <1>3, FileLoggerAssumption DEF need_rotate

(* One more policy is asked.                                               *)
LEMMA AskedNext ==
  ASSUME NEW l \in Loggers, NEW i \in 1 .. Len(Polices)
  PROVE  Rotate(Asked(l, i - 1), Polices[i]) = Asked(l, i)
<1> DEFINE wanted(n) == \E j \in 1 .. n : need_rotate(l, Polices[j])
<1>1. 1 .. i = (1 .. i - 1) \union {i}
  BY LenProperties, FileLoggerAssumption
<1>2. wanted(i) <=> wanted(i - 1) \/ need_rotate(l, Polices[i])
  BY <1>1
<1> HIDE DEF wanted
<1>3. \A n : Asked(l, n) = IF l.ok /\ wanted(n) THEN Rotated(l) ELSE l
  BY DEF Asked, wanted
<1>4. CASE l.ok /\ wanted(i - 1)
  BY <1>2, <1>3, <1>4, RotatedIsEmpty DEF Rotate
<1>5. CASE ~(l.ok /\ wanted(i - 1))
  BY <1>2, <1>3, <1>5 DEF Rotate, Rotated
<1> QED  BY <1>4, <1>5

(* The loop over the polices, whatever their number.                       *)
LEMMA AskedIs ==
  ASSUME NEW l \in Loggers
  PROVE  rotate_if_required(l) = Asked(l, Len(Polices))
<1> DEFINE N == Len(Polices)
           Def(f) == f = [i \in 0 .. N |-> IF i = 0 THEN l
                                           ELSE Rotate(f[i - 1], Polices[i])]
           g == [i \in 0 .. N |-> Asked(l, i)]
<1>1. N \in Nat
  BY LenProperties, FileLoggerAssumption
<1>2. Asked(l, 0) = l
  BY DEF Asked
<1>3. Def(g)
  <2>1. \A i \in 0 .. N : i # 0 => i - 1 \in 0 .. N /\ i \in 1 .. N
    BY <1>1
  <2>2. \A i \in 0 .. N : g[i] = IF i = 0 THEN l ELSE Rotate(g[i - 1], Polices[i])
    BY <1>2, <2>1, AskedNext
  <2> QED  BY <2>2
<1>4. ASSUME NEW f, Def(f) PROVE f[N] = Asked(l, N)
  <2> DEFINE W == {i \in 0 .. N : f[i] # Asked(l, i)}
  <2> HIDE DEF N
  <2>1. CASE W = {}
    BY <1>1, <2>1
  <2>2. CASE W # {}
    <3> DEFINE i == Least(W)
    <3>1. W \in SUBSET Nat
      BY <1>1
    <3>2. i \in W /\ \A j \in W : i <= j
      BY <2>2, <3>1, LeastIs
    <3> HIDE DEF i
    <3>3. i # 0 
      BY <1>1, <1>2, <1>4, <3>2
    <3>4. i \in 1 .. N /\ i - 1 \in 0 .. N /\ i - 1 \notin W
      BY <1>1, <3>2, <3>3
    <3>5. f[i - 1] = Asked(l, i - 1)
      BY <3>4
    <3>6. f[i] = Rotate(f[i - 1], Polices[i])
      BY <1>4, <3>2, <3>3
    <3>7. f[i] = Asked(l, i)
      BY <3>4, <3>5, <3>6, AskedNext DEF N
    <3> QED  BY <3>2, <3>7
  <2> QED  BY <2>1, <2>2
<1>5. rotate_if_required(l) = (CHOOSE f : Def(f))[N]
  BY DEF rotate_if_required
<1> HIDE DEF N, Def, g
<1>6. Def(CHOOSE f : Def(f))
  BY <1>3
<1> QED  BY <1>4, <1>5, <1>6 DEF N

(* However many polices there are and in whatever order, rotate_if_required *)
(* renames the file once if one of them wants it, and else does nothing.    *)
THEOREM PolicesRotateOnce ==
  \A l \in Loggers :
    rotate_if_required(l) =
      IF l.ok /\ \E i \in DOMAIN Polices : need_rotate(l, Polices[i])
      THEN Rotated(l) ELSE l
<1>1. DOMAIN Polices = 1 .. Len(Polices)
  BY LenProperties, FileLoggerAssumption
<1> QED  BY <1>1, AskedIs DEF Asked

-----------------------------------------------------------------------------
(* The lines of the file, and of the rotated file of a name; what is left  *)
(* of all that was written.                                                *)
InFile(l) == IF l.file = Missing THEN {} ELSE Range(l.file)
InRotated(l, m) == Range(l.rotated[m])
Held(l) == InFile(l) \union Range(l.aside) \union l.overwritten \union
             UNION {InRotated(l, m) : m \in DOMAIN l.rotated}

(* A logger that has been given the lines up to n.  A name that was made   *)
(* of time_ is the latest of all, or time_ was never set; the lines of the *)
(* file are later than those of any rotated file.                          *)
Ordered(l) ==
  /\ \A m \in DOMAIN l.rotated : \A i \in InRotated(l, m), j \in InFile(l) : i < j
  /\ \A m, k \in DOMAIN l.rotated :
       0 < m /\ m < k => \A i \in InRotated(l, m), j \in InRotated(l, k) : i < j

Sound(l, n) ==
  /\ l \in Loggers
  /\ l.output_ = "file" => l.file # Missing
  /\ \E b \in Nat : \A m \in DOMAIN l.rotated : m <= b
  /\ l.time_ = 0 \/ \A m \in DOMAIN l.rotated : m <= l.time_
  /\ \A i \in Held(l) : i <= n
  /\ Ordered(l)

(* The lines of a file are lines.                                          *)
LEMMA SetOfLines ==
  ASSUME NEW s \in Seq(Lines)
  PROVE  Range(s) \subseteq Lines
BY LenProperties, ElementOfSeq DEF Range

(* So are those of all files, and the names are numbers.                   *)
LEMMA LinesOfLogger ==
  ASSUME NEW l \in Loggers
  PROVE  /\ DOMAIN l.rotated \subseteq Nat
         /\ \A m \in DOMAIN l.rotated :
              l.rotated[m] \in Seq(Lines) /\ InRotated(l, m) \subseteq Lines
         /\ InFile(l) \subseteq Lines /\ Range(l.aside) \subseteq Lines
         /\ Held(l) \subseteq Lines /\ Lines \subseteq Nat
<1>1. PICK S \in SUBSET Nat : l.rotated \in [S -> Seq(Lines)]
  BY DEF Loggers
<1>2. DOMAIN l.rotated = S /\ \A m \in S : l.rotated[m] \in Seq(Lines)
  BY <1>1
<1>3. \A m \in DOMAIN l.rotated : InRotated(l, m) \subseteq Lines
  BY <1>2, SetOfLines DEF InRotated
<1>4. InFile(l) \subseteq Lines
  BY SetOfLines DEF InFile, Loggers
<1>5. Range(l.aside) \subseteq Lines
  BY SetOfLines DEF Loggers
<1>6. l.overwritten \subseteq Lines
  BY DEF Loggers
<1>7. Lines \subseteq Nat
  BY DEF Lines
<1>8. Held(l) \subseteq Lines
  BY <1>3, <1>4, <1>5, <1>6 DEF Held
<1> QED  BY <1>2, <1>3, <1>4, <1>5, <1>7, <1>8

(* Loggers that hold the same in the same places. *)
LEMMA SoundAgain ==
  ASSUME NEW n, NEW l, Sound(l, n), NEW k \in Loggers,
         k.file = l.file \/ (l.file = Missing /\ k.file = <<>>),
         k.output_ = "file" => k.file # Missing,
         k.aside = l.aside, k.rotated = l.rotated, k.overwritten = l.overwritten,
         k.time_ = 0 \/ \A m \in DOMAIN l.rotated : m <= k.time_
  PROVE  Sound(k, n) /\ Held(k) = Held(l)
<1>1. Range(<<>>) = {}
  BY DEF Range
<1>2. <<>> # Missing
  BY DEF Missing
<1>3. InFile(k) = InFile(l)
  BY <1>1, <1>2 DEF InFile
<1>4. \A m : InRotated(k, m) = InRotated(l, m)
  BY DEF InRotated
<1>5. Held(k) = Held(l)
  BY <1>3, <1>4 DEF Held
<1>6. Ordered(k)
  BY <1>3, <1>4 DEF Ordered, Sound
<1> QED  BY <1>5, <1>6 DEF Sound

(* open(), rename() and the loop over the polices move lines, if anything. *)
LEMMA OpenKeeps ==
  ASSUME NEW n, NEW l, Sound(l, n)
  PROVE  Sound(Open(l), n) /\ Held(Open(l)) = Held(l)
<1>1. l \in Loggers
  BY DEF Sound
<1> DEFINE k == Open(l)
<1>2. /\ k \in Loggers /\ k.time_ = l.time_
      /\ k.file = l.file \/ (l.file = Missing /\ k.file = <<>>)
      /\ k.output_ = "file" => k.file # Missing
      /\ k.aside = l.aside /\ k.rotated = l.rotated /\ k.overwritten = l.overwritten
  <2>1. <<>> # Missing
    BY DEF Missing
  <2>2. /\ k \in Loggers /\ k.time_ = l.time_ /\ k.aside = l.aside
        /\ k.rotated = l.rotated /\ k.overwritten = l.overwritten
    BY <1>1, OpenIs
  <2>3. \/ k.output_ = "closed" /\ k.file = l.file
        \/ k.file = IF l.file = Missing THEN <<>> ELSE l.file
    BY <1>1, OpenIs
  <2> HIDE DEF k
  <2> QED  BY <2>1, <2>2, <2>3
<1>3. k.time_ = 0 \/ \A m \in DOMAIN l.rotated : m <= k.time_
  BY <1>2 DEF Sound
<1> HIDE DEF k
<1>4. Sound(k, n) /\ Held(k) = Held(l)
  BY <1>2, <1>3, SoundAgain
<1> QED  BY <1>4 DEF k

(* A rename moves the lines of the file into a rotated one.                *)
LEMMA RenameKeeps ==
  ASSUME NEW n, NEW l, Sound(l, n)
  PROVE  Sound(Rename(l), n) /\ Held(Rename(l)) = Held(l)
<1>1. l \in Loggers
  BY DEF Sound
<1> DEFINE k == Rename(l)
           D == DOMAIN l.rotated
<1>2. k \in Loggers /\ k.output_ = "closed" /\ k.time_ = l.time_ /\ k.aside = l.aside
  BY <1>1, RenameIs
<1>3. CASE k.file = l.file /\ k.rotated = l.rotated /\ k.overwritten = l.overwritten
  <2>1. k.time_ = 0 \/ \A m \in DOMAIN l.rotated : m <= k.time_
    BY <1>2 DEF Sound
  <2> HIDE DEF k, D
  <2>3. k.output_ = "file" => k.file # Missing
    BY <1>2
  <2>2. Sound(k, n) /\ Held(k) = Held(l)
    BY <1>2, <1>3, <2>1, <2>3, SoundAgain
  <2> QED  BY <2>2 DEF k
<1>4. CASE /\ l.file # Missing /\ k.file = Missing
           /\ k.rotated = [m \in D \union {l.time_} |->
                             IF m = l.time_ THEN l.file ELSE l.rotated[m]]
           /\ k.overwritten = IF l.time_ \in D
                              THEN l.overwritten \union Range(l.rotated[l.time_])
                              ELSE l.overwritten
  <2> HIDE DEF k, D
  <2>1. InFile(k) = {} /\ InFile(l) = Range(l.file)
    BY <1>4 DEF InFile
  <2>2. DOMAIN k.rotated = D \union {l.time_}
    BY <1>4
  <2>3. \A m \in D \union {l.time_} :
          InRotated(k, m) = IF m = l.time_ THEN InFile(l) ELSE InRotated(l, m)
    BY <1>4, <2>1 DEF InRotated
  <2>4. k.overwritten = IF l.time_ \in D
                        THEN l.overwritten \union InRotated(l, l.time_)
                        ELSE l.overwritten
    BY <1>4 DEF InRotated
  <2>5. Held(k) = Held(l)
    <3>1. UNION {InRotated(k, m) : m \in D \union {l.time_}} =
            InFile(l) \union UNION {InRotated(l, m) : m \in D \ {l.time_}}
      BY <2>3
    <3>2. UNION {InRotated(l, m) : m \in D} =
            (IF l.time_ \in D THEN InRotated(l, l.time_) ELSE {}) \union
              UNION {InRotated(l, m) : m \in D \ {l.time_}}
      OBVIOUS
    <3> QED  BY <1>2, <2>1, <2>2, <2>4, <3>1, <3>2 DEF Held, D
  <2>6. D \subseteq Nat /\ l.time_ \in Nat
    BY <1>1, LinesOfLogger DEF D, Loggers
  <2>7. Ordered(k)
    <3>1. ASSUME NEW m \in DOMAIN k.rotated, NEW o \in DOMAIN k.rotated, 0 < m, m < o,
                 NEW i \in InRotated(k, m), NEW j \in InRotated(k, o)
          PROVE  i < j
      <4>6. m \in D \union {l.time_} /\ o \in D \union {l.time_}
        BY <2>2, <3>1
      <4>7. m \in Nat /\ o \in Nat
        BY <2>6, <4>6
      <4>1. m \in Nat /\ o \in Nat /\ m # o
        BY <3>1, <4>7
      <4>2. l.time_ # m
        BY <2>2, <2>6, <3>1, <4>1 DEF Sound, D
      <4>3. m \in D /\ i \in InRotated(l, m)
        BY <2>2, <2>3, <4>2
      <4>4. CASE o = l.time_
        BY <2>2, <2>3, <4>3, <4>4 DEF Sound, Ordered, D
      <4>5. CASE o # l.time_
        BY <2>2, <2>3, <3>1, <4>3, <4>5 DEF Sound, Ordered, D
      <4> QED  BY <4>4, <4>5
    <3> QED  BY <2>1, <3>1 DEF Ordered
  <2>8. \E b \in Nat : \A m \in DOMAIN k.rotated : m <= b
    <3>1. PICK b \in Nat : \A m \in D : m <= b
      BY DEF Sound, D
    <3>2. b + l.time_ \in Nat /\ \A m \in D \union {l.time_} : m <= b + l.time_
      BY <2>6, <3>1
    <3> QED  BY <2>2, <3>2
  <2>9. k.time_ = 0 \/ \A m \in DOMAIN k.rotated : m <= k.time_
    BY <1>2, <2>2, <2>6 DEF Sound, D
  <2>10. Sound(k, n)
    BY <1>2, <2>5, <2>7, <2>8, <2>9 DEF Sound
  <2> QED  BY <2>5, <2>10 DEF k
<1> QED  BY <1>1, <1>3, <1>4, RenameIs

(* So does the loop over the polices.                                      *)
LEMMA RotateKeeps ==
  ASSUME NEW n, NEW l, Sound(l, n)
  PROVE  /\ Sound(rotate_if_required(l), n)
         /\ Held(rotate_if_required(l)) = Held(l)
<1> DEFINE r == Rename(l)
<1>1. Sound(r, n) /\ Held(r) = Held(l)
  BY RenameKeeps
<1> HIDE DEF r
<1>2. Sound(Open(r), n) /\ Held(Open(r)) = Held(l)
  BY <1>1, OpenKeeps
<1>3. Sound(Rotated(l), n) /\ Held(Rotated(l)) = Held(l)
  BY <1>1, <1>2 DEF Rotated, r
<1>4. rotate_if_required(l) = Asked(l, Len(Polices))
  BY AskedIs DEF Sound
<1> QED  BY <1>3, <1>4 DEF Asked

-----------------------------------------------------------------------------
(* A clock that was just read makes a name that no file has. *)
LEMMA LaterIs ==
  ASSUME NEW n, NEW l, Sound(l, n)
  PROVE  /\ Later(l) \in Nat \ {0}
         /\ \A m \in DOMAIN l.rotated : m < Later(l)
<1> DEFINE D == DOMAIN l.rotated
<1>1. D \subseteq Nat
  BY LinesOfLogger DEF Sound
<1>2. CASE D = {}
  BY <1>2 DEF Later
<1>3. CASE D # {}
  <2> DEFINE W == {b \in Nat : \A m \in D : m <= b}
  <2>1. PICK b \in Nat : \A m \in D : m <= b
    BY DEF Sound
  <2>2. W # {} /\ W \in SUBSET Nat
    BY <2>1
  <2> DEFINE top == Least(W)
  <2>3. top \in W /\ \A c \in W : top <= c
    BY <2>2, LeastIs
  <2> HIDE DEF top
  <2>4. top \in D
    <3>1. SUFFICES ASSUME top \notin D PROVE FALSE
      OBVIOUS
    <3>2. \A m \in D : m \in Nat /\ m <= top /\ m # top
      BY <1>1, <2>3, <3>1
    <3>3. top \in Nat
      BY <2>3
    <3>4. \A m \in D : m <= top - 1
      BY <3>2, <3>3
    <3>5. PICK m \in D : TRUE
      BY <1>3
    <3>6. top - 1 \in Nat
      BY <3>2, <3>3, <3>5
    <3>7. top - 1 \in W
      BY <3>4, <3>6
    <3> QED  BY <2>3, <3>3, <3>7
  <2>5. top \in D /\ \A m \in D : m <= top
    BY <2>3, <2>4
  <2> DEFINE last == CHOOSE k \in D : \A m \in D : m <= k
  <2>6. last \in D /\ \A m \in D : m <= last
    BY <2>5
  <2>7. Later(l) = 1 + last
    BY <1>3 DEF Later
  <2> HIDE DEF last, D
  <2>8. last \in Nat /\ \A m \in D : m \in Nat
    BY <1>1, <2>6
  <2>9. \A m \in D : m < 1 + last
    BY <2>6, <2>8
  <2> QED  BY <2>7, <2>8, <2>9 DEF D
<1> QED  BY <1>2, <1>3

(* A new time_ is a name that no file has.                                 *)
LEMMA SetTimeKeeps ==
  ASSUME NEW n, NEW l, Sound(l, n), NEW age \in 0 .. period_
  PROVE  /\ Sound(SetTime(l, age), n) /\ Held(SetTime(l, age)) = Held(l)
         /\ SetTime(l, age).time_ \notin DOMAIN l.rotated
         /\ SetTime(l, age).rotated = l.rotated
         /\ SetTime(l, age).overwritten = l.overwritten
<1>1. l \in Loggers
  BY DEF Sound
<1> DEFINE later == Later(l)
           k == [l EXCEPT !.time_ = later, !.age = age]
<1>2. later \in Nat \ {0} /\ \A m \in DOMAIN l.rotated : m < later
  BY LaterIs
<1>3. SetTime(l, age) = k
  BY DEF SetTime
<1>4. DOMAIN l.rotated \subseteq Nat
  BY <1>1, LinesOfLogger
<1> HIDE DEF later
<1>5. k \in Loggers
  BY <1>1, <1>2, Zenon DEF Loggers
<1>6. /\ k.time_ = later /\ k.file = l.file /\ k.output_ = l.output_
      /\ k.aside = l.aside /\ k.rotated = l.rotated /\ k.overwritten = l.overwritten
  BY <1>1 DEF Loggers
<1>7. later \notin DOMAIN l.rotated /\ \A m \in DOMAIN l.rotated : m <= later
  BY <1>2, <1>4
<1>8. k.output_ = "file" => k.file # Missing
  BY <1>6 DEF Sound
<1> HIDE DEF k
<1>9. Sound(k, n) /\ Held(k) = Held(l)
  BY <1>5, <1>6, <1>7, <1>8, SoundAgain
<1> QED  BY <1>3, <1>6, <1>7, <1>9

(* A rotation under a name that no file has replaces none; time_ stays.    *)
LEMMA RotateReplaces ==
  ASSUME NEW l \in Loggers
  PROVE  /\ rotate_if_required(l).time_ = l.time_
         /\ rotate_if_required(l).overwritten # l.overwritten =>
              l.time_ \in DOMAIN l.rotated
<1> DEFINE r == Rename(l)
<1>1. /\ r \in Loggers /\ r.time_ = l.time_
      /\ r.overwritten # l.overwritten => l.time_ \in DOMAIN l.rotated
  BY RenameIs
<1> HIDE DEF r
<1>2. Open(r).time_ = r.time_ /\ Open(r).overwritten = r.overwritten
  BY <1>1, OpenIs
<1>3. /\ Rotated(l).time_ = l.time_
      /\ Rotated(l).overwritten # l.overwritten => l.time_ \in DOMAIN l.rotated
  BY <1>1, <1>2 DEF Rotated, r
<1>4. rotate_if_required(l) = Asked(l, Len(Polices))
  BY AskedIs
<1> QED  BY <1>3, <1>4 DEF Asked

(* What notify() and the constructor do first replaces no file.            *)
LEMMA LookedKeeps ==
  ASSUME NEW n, NEW l, Sound(l, n), NEW age \in 0 .. period_
  PROVE  /\ Sound(Looked(l, age), n) /\ Held(Looked(l, age)) = Held(l)
         /\ Looked(l, age).overwritten = l.overwritten
<1> DEFINE s == StatFile(l)
           k == [l EXCEPT !.stat_ = s]
           t == SetTime(k, age)
<1>1. l \in Loggers
  BY DEF Sound
<1>2. s \in Nat
  BY <1>1, LenProperties DEF StatFile, Loggers
<1>3. Looked(l, age) = IF s = 0 THEN k ELSE rotate_if_required(t)
  BY DEF Looked
<1> HIDE DEF s
<1>4. k \in Loggers
  BY <1>1, <1>2 DEF Loggers
<1>5. /\ k.time_ = l.time_ /\ k.file = l.file /\ k.output_ = l.output_
      /\ k.aside = l.aside /\ k.rotated = l.rotated /\ k.overwritten = l.overwritten
  BY <1>1 DEF Loggers
<1>6. /\ k.output_ = "file" => k.file # Missing
      /\ k.time_ = 0 \/ \A m \in DOMAIN l.rotated : m <= k.time_
  BY <1>5 DEF Sound
<1> HIDE DEF k
<1>7. Sound(k, n) /\ Held(k) = Held(l)
  BY <1>4, <1>5, <1>6, SoundAgain
<1>8. /\ Sound(t, n) /\ Held(t) = Held(l) /\ t.time_ \notin DOMAIN t.rotated
      /\ t.overwritten = l.overwritten
  BY <1>5, <1>7, SetTimeKeeps
<1> HIDE DEF t
<1>9. t \in Loggers
  BY <1>8 DEF Sound
<1>10. /\ Sound(rotate_if_required(t), n) /\ Held(rotate_if_required(t)) = Held(l)
       /\ rotate_if_required(t).overwritten = l.overwritten
  BY <1>8, <1>9, RotateKeeps, RotateReplaces
<1> QED  BY <1>3, <1>5, <1>7, <1>10

-----------------------------------------------------------------------------

(* A file that a line was appended to.                                     *)
LEMMA AppendedLine ==
  ASSUME NEW s \in Seq(Lines), NEW line \in Lines
  PROVE  /\ Append(s, line) \in Seq(Lines)
         /\ Append(s, line) # Missing
         /\ Range(Append(s, line)) = Range(s) \union {line}
<1>1. /\ Append(s, line) \in Seq(Lines)
      /\ Len(Append(s, line)) = Len(s) + 1
      /\ \A i \in 1 .. Len(s) : Append(s, line)[i] = s[i]
      /\ Append(s, line)[Len(s) + 1] = line
  BY AppendProperties
<1>2. Len(s) \in Nat /\ DOMAIN s = 1 .. Len(s)
  BY LenProperties
<1>3. DOMAIN Append(s, line) = 1 .. Len(s) + 1
  BY <1>1, LenProperties
<1>4. 1 .. Len(s) + 1 = (1 .. Len(s)) \union {Len(s) + 1}
  BY <1>2
<1>5. Append(s, line) # Missing
  <2>1. Missing \notin Seq(Lines)
    <3>1. ASSUME Missing \in Seq(Lines) PROVE FALSE
      <4>1. Len(Missing) = 1 /\ Missing[1] = 0
        BY DEF Missing
      <4>2. Missing[1] \in Lines
        <5>1. 1 \in 1 .. Len(Missing)
          BY <4>1
        <5> QED  BY <3>1, <5>1, ElementOfSeq
      <4> QED  BY <4>1, <4>2 DEF Lines
    <3> QED  BY <3>1
  <2> QED  BY <1>1, <2>1
<1>6. Range(Append(s, line)) = Range(s) \union {line}
  <2>1. Range(s) = {s[i] : i \in 1 .. Len(s)}
    BY <1>2 DEF Range
  <2>2. Range(Append(s, line)) = {Append(s, line)[i] : i \in 1 .. Len(s) + 1}
    BY <1>3 DEF Range
  <2> QED  BY <1>1, <1>4, <2>1, <2>2
<1> QED  BY <1>1, <1>5, <1>6

(* write_line() appends the line where output_ is open, or fails. *)
LEMMA WriteLineIs ==
  ASSUME NEW l \in Loggers, l.output_ = "file" => l.file # Missing,
         NEW line \in Lines
  PROVE  /\ write_line(l, line) \in Loggers
         /\ write_line(l, line).output_ = l.output_
         /\ write_line(l, line).time_ = l.time_
         /\ write_line(l, line).rotated = l.rotated
         /\ write_line(l, line).overwritten = l.overwritten
         /\ \/ /\ ~write_line(l, line).ok
               /\ write_line(l, line).file = l.file
               /\ write_line(l, line).aside = l.aside
            \/ /\ l.output_ = "file"
               /\ write_line(l, line).file = Append(l.file, line)
               /\ write_line(l, line).aside = l.aside
            \/ /\ write_line(l, line).file = l.file
               /\ write_line(l, line).aside = Append(l.aside, line)
<1> DEFINE k == write_line(l, line)
           done == l.output_ # "closed" /\ "write" \notin broken
           written == IF l.output_ = "closed" \/ "write" \in broken THEN l
                      ELSE IF l.output_ = "file"
                           THEN [l EXCEPT !.file = Append(@, line)]
                           ELSE [l EXCEPT !.aside = Append(@, line)]
           stat == IF l.output_ = "closed" \/ "write" \in broken THEN 0
                   ELSE StatFile(written)
           okay == /\ l.output_ # "closed" /\ "write" \notin broken
                   /\ written.file # Missing
<1>1. k = [written EXCEPT !.stat_ = stat, !.ok = okay]
  BY DEF write_line
<1>2. /\ written \in Loggers
      /\ written.output_ = l.output_ /\ written.time_ = l.time_
      /\ written.rotated = l.rotated /\ written.overwritten = l.overwritten
      /\ \/ ~done /\ written = l
         \/ /\ done /\ l.output_ = "file" /\ written.aside = l.aside
            /\ written.file = Append(l.file, line)
         \/ /\ done /\ written.file = l.file /\ written.aside = Append(l.aside, line)
  <2>1. CASE ~done
    BY <2>1
  <2>2. CASE done /\ l.output_ = "file"
    <3>1. written = [l EXCEPT !.file = Append(l.file, line)]
      BY <2>2
    <3>2. Append(l.file, line) \in Seq(Lines)
      BY <2>2, AppendedLine DEF Loggers
    <3> HIDE DEF written
    <3>3. written \in Loggers
      BY <3>1, <3>2 DEF Loggers
    <3> QED  BY <2>2, <3>1, <3>3 DEF Loggers
  <2>3. CASE done /\ l.output_ # "file"
    <3>1. written = [l EXCEPT !.aside = Append(l.aside, line)]
      BY <2>3
    <3>2. Append(l.aside, line) \in Seq(Lines)
      BY <2>3, AppendedLine DEF Loggers
    <3> HIDE DEF written
    <3>3. written \in Loggers
      BY <3>1, <3>2 DEF Loggers
    <3> QED  BY <2>3, <3>1, <3>3 DEF Loggers
  <2> QED  BY <2>1, <2>2, <2>3
<1>3. okay \in BOOLEAN /\ (okay => done)
  OBVIOUS
<1>4. stat \in Nat
  <2> HIDE DEF written
  <2>1. StatFile(written) \in Nat
    BY <1>2, LenProperties DEF StatFile, Loggers
  <2> QED  BY <2>1
<1> HIDE DEF stat, okay, written
<1>5. k \in Loggers
  BY <1>1, <1>2, <1>3, <1>4, Zenon DEF Loggers
<1>6. /\ k.output_ = written.output_ /\ k.time_ = written.time_
      /\ k.rotated = written.rotated /\ k.overwritten = written.overwritten
      /\ k.file = written.file /\ k.aside = written.aside
      /\ k.ok = okay
  BY <1>1, <1>2 DEF Loggers
<1> HIDE DEF k, done
<1>7. ~done => ~k.ok
  BY <1>3, <1>6
<1>8. /\ k \in Loggers
      /\ k.output_ = l.output_ /\ k.time_ = l.time_
      /\ k.rotated = l.rotated /\ k.overwritten = l.overwritten
      /\ \/ ~k.ok /\ k.file = l.file /\ k.aside = l.aside
         \/ l.output_ = "file" /\ k.file = Append(l.file, line) /\ k.aside = l.aside
         \/ k.file = l.file /\ k.aside = Append(l.aside, line)
  BY <1>2, <1>5, <1>6, <1>7
<1> QED  BY <1>8 DEF k

(* The line is later than those of all rotated files. *)
Newer(l, line) == \A m \in DOMAIN l.rotated : \A i \in InRotated(l, m) : i < line

(* write_line() loses nothing, and the line is there unless it fails.      *)
LEMMA WriteLineKeeps ==
  ASSUME NEW l, NEW line \in Lines, Sound(l, line), Newer(l, line)
  PROVE  /\ Sound(write_line(l, line), line)
         /\ Newer(write_line(l, line), line)
         /\ Held(l) \subseteq Held(write_line(l, line))
         /\ write_line(l, line).ok => line \in Held(write_line(l, line))
         /\ write_line(l, line).overwritten = l.overwritten
         /\ write_line(l, line).time_ = l.time_
<1> DEFINE k == write_line(l, line)
<1>1. l \in Loggers /\ (l.output_ = "file" => l.file # Missing)
  BY DEF Sound
<1>2. /\ k \in Loggers
      /\ k.output_ = l.output_ /\ k.time_ = l.time_
      /\ k.rotated = l.rotated /\ k.overwritten = l.overwritten
      /\ \/ ~k.ok /\ k.file = l.file /\ k.aside = l.aside
         \/ l.output_ = "file" /\ k.file = Append(l.file, line) /\ k.aside = l.aside
         \/ k.file = l.file /\ k.aside = Append(l.aside, line)
  BY <1>1, WriteLineIs
<1> HIDE DEF k
<1>3. \A m : InRotated(k, m) = InRotated(l, m)
  BY <1>2 DEF InRotated
<1>4. Newer(k, line)
  BY <1>2, <1>3 DEF Newer
<1>5. /\ InFile(k) = InFile(l) \/ InFile(k) = InFile(l) \union {line}
      /\ Range(k.aside) = Range(l.aside) \/ Range(k.aside) = Range(l.aside) \union {line}
      /\ k.ok => line \in InFile(k) \union Range(k.aside)
      /\ k.output_ = "file" => k.file # Missing
  <2>1. CASE ~k.ok /\ k.file = l.file /\ k.aside = l.aside
    BY <1>1, <1>2, <2>1 DEF InFile
  <2>2. CASE l.output_ = "file" /\ k.file = Append(l.file, line) /\ k.aside = l.aside
    <3>1. l.file \in Seq(Lines) /\ l.file # Missing
      BY <1>1, <2>2 DEF Loggers
    <3>2. k.file # Missing /\ Range(k.file) = Range(l.file) \union {line}
      BY <2>2, <3>1, AppendedLine
    <3> QED  BY <2>2, <3>1, <3>2 DEF InFile
  <2>3. CASE k.file = l.file /\ k.aside = Append(l.aside, line)
    <3>1. l.aside \in Seq(Lines)
      BY <1>1 DEF Loggers
    <3>2. Range(k.aside) = Range(l.aside) \union {line}
      BY <2>3, <3>1, AppendedLine
    <3> QED  BY <1>1, <1>2, <2>3, <3>2 DEF InFile
  <2> QED  BY <1>2, <2>1, <2>2, <2>3
<1>6. /\ Held(l) \subseteq Held(k) /\ Held(k) \subseteq Held(l) \union {line}
      /\ k.ok => line \in Held(k)
  BY <1>2, <1>3, <1>5 DEF Held
<1>7. Ordered(k)
  BY <1>2, <1>3, <1>5 DEF Ordered, Sound, Newer
<1>8. \A i \in Held(k) : i <= line
  BY <1>6 DEF Sound, Lines
<1>9. Sound(k, line)
  BY <1>2, <1>5, <1>7, <1>8 DEF Sound
<1> QED  BY <1>2, <1>4, <1>6, <1>9 DEF k

(* An exception that is caught leaves everything as it is.                 *)
LEMMA CaughtKeeps ==
  ASSUME NEW n, NEW l, Sound(l, n)
  PROVE  /\ Sound(Caught(l), n) /\ Held(Caught(l)) = Held(l) /\ Caught(l).ok
         /\ Caught(l).overwritten = l.overwritten /\ Caught(l).time_ = l.time_
<1> DEFINE k == Caught(l)
<1>1. l \in Loggers
  BY DEF Sound
<1>2. /\ k \in Loggers /\ k.ok /\ k.time_ = l.time_ /\ k.file = l.file
      /\ k.output_ = l.output_ /\ k.aside = l.aside /\ k.rotated = l.rotated
      /\ k.overwritten = l.overwritten
  BY <1>1 DEF Loggers, Caught
<1> HIDE DEF k
<1>3. /\ k.output_ = "file" => k.file # Missing
      /\ k.time_ = 0 \/ \A m \in DOMAIN l.rotated : m <= k.time_
  BY <1>2 DEF Sound
<1>4. Sound(k, n) /\ Held(k) = Held(l)
  BY <1>2, <1>3, SoundAgain
<1> QED  BY <1>2, <1>4 DEF k

(* write(): the line is somewhere, or an exception says that it is not. *)
LEMMA WriteKeeps ==
  ASSUME NEW l, NEW line \in Lines, Sound(l, line),
         \A i \in Held(l) : i < line
  PROVE  /\ Sound(Write(l, line), line)
         /\ Held(l) \subseteq Held(Write(l, line))
         /\ Write(l, line).ok => line \in Held(Write(l, line))
         /\ Write(l, line).time_ = l.time_
         /\ Write(l, line).overwritten # l.overwritten => l.time_ \in DOMAIN l.rotated
<1> DEFINE ready == rotate_if_required(l)
           first == write_line(ready, line)
           again == Caught(first)
           reopened == Open(again)
           second == write_line(reopened, line)
<1>1. Write(l, line) = CASE ~ready.ok -> ready
                           [] ready.ok /\ first.ok -> first
                           [] ready.ok /\ ~first.ok /\ ~reopened.ok -> reopened
                           [] OTHER -> second
  BY DEF Write, Caught
<1>2. /\ Sound(ready, line) /\ Held(ready) = Held(l) /\ ready.time_ = l.time_
      /\ ready.overwritten # l.overwritten => l.time_ \in DOMAIN l.rotated
  BY RotateKeeps, RotateReplaces DEF Sound
<1> HIDE DEF ready
<1>3. Newer(ready, line)
  BY <1>2 DEF Newer, Held
<1>4. /\ Sound(first, line) /\ Newer(first, line) /\ Held(l) \subseteq Held(first)
      /\ first.ok => line \in Held(first)
      /\ first.overwritten = ready.overwritten /\ first.time_ = l.time_
  BY <1>2, <1>3, WriteLineKeeps
<1> HIDE DEF first
<1>5. /\ Sound(again, line) /\ Held(again) = Held(first)
      /\ again.overwritten = ready.overwritten /\ again.time_ = l.time_
      /\ again.rotated = first.rotated
  <2>1. again.rotated = first.rotated
    BY <1>4 DEF Sound, Loggers, Caught
  <2> QED  BY <1>4, <2>1, CaughtKeeps
<1> HIDE DEF again
<1>6. /\ Sound(reopened, line) /\ Held(reopened) = Held(first)
      /\ reopened.overwritten = ready.overwritten /\ reopened.time_ = l.time_
      /\ reopened.rotated = first.rotated
  <2>1. again \in Loggers
    BY <1>5 DEF Sound
  <2>2. /\ reopened.overwritten = again.overwritten /\ reopened.time_ = again.time_
        /\ reopened.rotated = again.rotated
    BY <2>1, OpenIs
  <2>3. Sound(reopened, line) /\ Held(reopened) = Held(again)
    BY <1>5, OpenKeeps
  <2> QED  BY <1>5, <2>2, <2>3
<1> HIDE DEF reopened
<1>7. Newer(reopened, line)
  BY <1>4, <1>6 DEF Newer, InRotated
<1>8. /\ Sound(second, line) /\ Held(l) \subseteq Held(second)
      /\ second.ok => line \in Held(second)
      /\ second.overwritten = ready.overwritten /\ second.time_ = l.time_
  BY <1>4, <1>6, <1>7, WriteLineKeeps
<1> HIDE DEF second
<1>9. CASE ~ready.ok
  BY <1>1, <1>2, <1>9
<1>10. CASE ready.ok /\ first.ok
  BY <1>1, <1>2, <1>4, <1>10
<1>11. CASE ready.ok /\ ~first.ok /\ ~reopened.ok
  BY <1>1, <1>2, <1>4, <1>6, <1>11
<1>12. CASE ready.ok /\ ~first.ok /\ reopened.ok
  BY <1>1, <1>2, <1>8, <1>12
<1> QED  BY <1>9, <1>10, <1>11, <1>12

-----------------------------------------------------------------------------
(* The inductive invariant: no line is lost silently, and all else that    *)
(* the lines of the files must be for that to stay so.                     *)
LoggerIInv ==
  /\ Sound(logger, logged) /\ logger.ok
  /\ up \in BOOLEAN /\ logged \in 0 .. MaxLines /\ reported \subseteq Lines
  /\ rotator_ \in {"none", "set", "off"} /\ broken \subseteq Kinds
  /\ 1 .. logged \subseteq Held(logger) \union reported

Replaces ==
  logger'.overwritten # logger.overwritten =>
    RawLog /\ logger'.time_ = logger.time_ /\ logger.time_ \in DOMAIN logger.rotated

(* It holds before the first start.                                        *)
LEMMA LoggerStarts ==
  ASSUME LoggerInit
  PROVE  LoggerIInv
<1> DEFINE l == [output_ |-> "closed", stat_ |-> 0, age |-> 0, time_ |-> 0,
                 file |-> Missing, aside |-> <<>>, rotated |-> <<>>,
                 overwritten |-> {}, ok |-> TRUE]
<1>1. logger = l
  BY DEF LoggerInit
<1>2. 0 \in 0 .. period_ /\ 0 \in 0 .. MaxLines
  BY FileLoggerAssumption
<1>3. <<>> \in Seq(Lines) /\ DOMAIN <<>> = {} /\ Range(<<>>) = {}
  BY EmptySeq, LenProperties DEF Range
<1>4. <<>> \in [{} -> Seq(Lines)]
  BY <1>3, EmptySeq, LenProperties
<1>5. l \in Loggers
  BY <1>2, <1>3, <1>4 DEF Loggers
<1>6. /\ l.file = Missing /\ l.aside = <<>> /\ l.rotated = <<>> /\ l.overwritten = {}
      /\ l.output_ = "closed" /\ l.time_ = 0 /\ l.ok
  OBVIOUS
<1> HIDE DEF l
<1>7. InFile(l) = {} /\ Held(l) = {}
  BY <1>3, <1>6 DEF InFile, Held
<1>8. Sound(l, 0)
  BY <1>3, <1>5, <1>6, <1>7 DEF Sound, Ordered
<1>9. logged = 0 /\ 1 .. 0 = {}
  BY DEF LoggerInit
<1> QED  BY <1>1, <1>2, <1>6, <1>7, <1>8, <1>9 DEF LoggerInit, LoggerIInv

(* A call of write() is one step from a logger whose time_ may just have   *)
(* been set.                                                               *)
LEMMA PutStep ==
  ASSUME LoggerIInv,
         NEW l, Sound(l, logged), Held(l) = Held(logger), l.ok, Put(l)
  PROVE  /\ LoggerIInv'
         /\ logger'.time_ = l.time_
         /\ logger'.overwritten # l.overwritten => l.time_ \in DOMAIN l.rotated
<1> DEFINE line == logged + 1
           result == IF rotator_ = "none" /\ "thread" \in broken
                     THEN [l EXCEPT !.ok = FALSE] ELSE Write(l, line)
<1>1. /\ line \in Lines /\ line \in 0 .. MaxLines /\ logged' = line /\ logged \in Nat
      /\ 1 .. line = (1 .. logged) \union {line}
  BY FileLoggerAssumption DEF Put, LoggerIInv, Lines
<1>2. logger' = Caught(result)
  BY <1>1 DEF Put
<1>3. reported' = IF result.ok THEN reported ELSE reported \union {line}
  BY <1>1 DEF Put
<1> HIDE DEF line
<1>4. Sound(l, line) /\ \A i \in Held(l) : i < line
  <2>1. l \in Loggers /\ Held(l) \subseteq Nat
    BY LinesOfLogger DEF Sound
  <2>2. \A i \in Held(l) : i < line /\ i <= line
    BY <1>1, <2>1 DEF Sound, line
  <2> QED  BY <2>2 DEF Sound
<1>5. /\ Sound(result, line) /\ Held(l) \subseteq Held(result)
      /\ result.ok => line \in Held(result)
      /\ result.time_ = l.time_
      /\ result.overwritten # l.overwritten => l.time_ \in DOMAIN l.rotated
  <2>1. CASE rotator_ = "none" /\ "thread" \in broken
    <3> DEFINE k == [l EXCEPT !.ok = FALSE]
    <3>1. result = k
      BY <2>1
    <3>2. /\ k \in Loggers /\ ~k.ok /\ k.time_ = l.time_ /\ k.file = l.file
          /\ k.output_ = l.output_ /\ k.aside = l.aside /\ k.rotated = l.rotated
          /\ k.overwritten = l.overwritten
      BY DEF Sound, Loggers
    <3> HIDE DEF k, result
    <3>3. /\ k.output_ = "file" => k.file # Missing
          /\ k.time_ = 0 \/ \A m \in DOMAIN l.rotated : m <= k.time_
      BY <3>2 DEF Sound
    <3>4. Sound(k, line) /\ Held(k) = Held(l)
      BY <1>4, <3>2, <3>3, SoundAgain
    <3> QED  BY <3>1, <3>2, <3>4
  <2>2. CASE ~(rotator_ = "none" /\ "thread" \in broken)
    BY <1>1, <1>4, <2>2, WriteKeeps
  <2> QED  BY <2>1, <2>2
<1> HIDE DEF result
<1> DEFINE caught == Caught(result)
<1>6. /\ Sound(caught, line) /\ Held(caught) = Held(result) /\ caught.ok
      /\ caught.overwritten = result.overwritten /\ caught.time_ = l.time_
  BY <1>5, CaughtKeeps
<1> HIDE DEF caught
<1>7. logger' = caught
  BY <1>2 DEF caught
<1>8. reported' \subseteq Lines /\ 1 .. line \subseteq Held(caught) \union reported'
  BY <1>1, <1>3, <1>5, <1>6 DEF LoggerIInv
<1>9. /\ up' \in BOOLEAN /\ rotator_' \in {"none", "set", "off"}
      /\ broken' \subseteq Kinds
  BY DEF Put, LoggerIInv
<1>10. LoggerIInv'
  BY <1>1, <1>6, <1>7, <1>8, <1>9 DEF LoggerIInv
<1> QED  BY <1>5, <1>6, <1>7, <1>10

(* log() and raw_log().                                                    *)
LEMMA LogStep ==
  ASSUME LoggerIInv, Log \/ RawLog
  PROVE  LoggerIInv' /\ Replaces
<1>1. Sound(logger, logged) /\ logger.ok /\ logger \in Loggers
  BY DEF LoggerIInv, Sound
<1>2. CASE RawLog
  <2>1. PICK l : l = logger
    OBVIOUS
  <2>2. Put(l)
    BY <1>2, <2>1 DEF RawLog
  <2>3. Sound(l, logged) /\ Held(l) = Held(logger) /\ l.ok
    BY <1>1, <2>1
  <2>4. /\ LoggerIInv' /\ logger'.time_ = l.time_
        /\ logger'.overwritten # l.overwritten => l.time_ \in DOMAIN l.rotated
    BY <2>2, <2>3, PutStep
  <2> QED  BY <1>2, <2>1, <2>4 DEF Replaces
<1>3. CASE Log
  <2>1. PICK age \in logger.age .. period_ : Put(SetTime(logger, age))
    BY <1>3 DEF Log
  <2>2. age \in 0 .. period_
    BY <1>1, <2>1, FileLoggerAssumption DEF Loggers
  <2>3. PICK l : l = SetTime(logger, age)
    OBVIOUS
  <2>4. Put(l)
    BY <2>1, <2>3
  <2>5. /\ Sound(l, logged) /\ Held(l) = Held(logger)
        /\ l.time_ \notin DOMAIN l.rotated /\ l.overwritten = logger.overwritten
    BY <1>1, <2>2, <2>3, SetTimeKeeps
  <2>6. l.ok
    BY <1>1, <2>3 DEF SetTime, Loggers
  <2>7. LoggerIInv' /\ logger'.overwritten = l.overwritten
    BY <2>4, <2>5, <2>6, PutStep
  <2> QED  BY <2>5, <2>7 DEF Replaces
<1> QED  BY <1>2, <1>3

(* Steps that leave the lines where they are. *)
LEMMA SameLines ==
  ASSUME LoggerIInv, NEW l, logger' = l, Sound(l, logged), Held(l) = Held(logger),
         l.ok, up' \in BOOLEAN, rotator_' \in {"none", "set", "off"},
         broken' \subseteq Kinds, UNCHANGED <<logged, reported>>
  PROVE  LoggerIInv'
<1>1. Sound(l, logged') /\ Held(l) = Held(logger)
  OBVIOUS
<1>2. 1 .. logged' \subseteq Held(l) \union reported'
  BY DEF LoggerIInv
<1> QED  BY <1>1, <1>2 DEF LoggerIInv

(* A line that comes to nothing, and the timer's event.                    *)
LEMMA NotifyStep ==
  ASSUME LoggerIInv, LogNothing \/ Notify
  PROVE  LoggerIInv' /\ Replaces
<1>1. Sound(logger, logged) /\ logger.ok /\ logger \in Loggers
  BY DEF LoggerIInv, Sound
<1>2. logger.age .. period_ \subseteq 0 .. period_
  BY <1>1, FileLoggerAssumption DEF Loggers
<1>3. CASE LogNothing
  <2>1. PICK age \in logger.age .. period_ : logger' = SetTime(logger, age)
    BY <1>3 DEF LogNothing
  <2>2. PICK l : l = SetTime(logger, age)
    OBVIOUS
  <2>3. /\ Sound(l, logged) /\ Held(l) = Held(logger)
        /\ l.overwritten = logger.overwritten
    BY <1>1, <1>2, <2>1, <2>2, SetTimeKeeps
  <2>4. l.ok
    BY <1>1, <2>2 DEF SetTime, Loggers
  <2>5. logger' = l
    BY <2>1, <2>2
  <2>6. /\ up' \in BOOLEAN /\ rotator_' \in {"none", "set", "off"}
        /\ broken' \subseteq Kinds /\ UNCHANGED <<logged, reported>>
    BY <1>3 DEF LogNothing, LoggerIInv
  <2>7. LoggerIInv'
    BY <2>3, <2>4, <2>5, <2>6, SameLines
  <2> QED  BY <2>3, <2>5, <2>7 DEF Replaces
<1>4. CASE Notify
  <2>1. PICK age \in logger.age .. period_ :
          /\ logger' = Caught(Looked(logger, age))
          /\ rotator_' \in {"set", "off"}
    BY <1>4 DEF Notify
  <2>2. PICK l : l = Looked(logger, age)
    OBVIOUS
  <2>3. /\ Sound(l, logged) /\ Held(l) = Held(logger)
        /\ l.overwritten = logger.overwritten
    BY <1>1, <1>2, <2>1, <2>2, LookedKeeps
  <2>4. PICK c : c = Caught(l)
    OBVIOUS
  <2>5. /\ Sound(c, logged) /\ Held(c) = Held(logger) /\ c.ok
        /\ c.overwritten = logger.overwritten
    BY <2>3, <2>4, CaughtKeeps
  <2>6. logger' = c
    BY <2>1, <2>2, <2>4
  <2>7. /\ up' \in BOOLEAN /\ rotator_' \in {"none", "set", "off"}
        /\ broken' \subseteq Kinds /\ UNCHANGED <<logged, reported>>
    BY <1>4, <2>1 DEF Notify, LoggerIInv
  <2>8. LoggerIInv'
    BY <2>5, <2>6, <2>7, SameLines
  <2> QED  BY <2>5, <2>6, <2>8 DEF Replaces
<1> QED  BY <1>3, <1>4

(* A start, which finds the files there are.                               *)
LEMMA ConstructStep ==
  ASSUME LoggerIInv, Construct
  PROVE  LoggerIInv' /\ Replaces
<1>1. Sound(logger, logged) /\ logger.ok /\ logger \in Loggers
  BY DEF LoggerIInv, Sound
<1>2. period_ \in 0 .. period_
  BY FileLoggerAssumption
<1>3. PICK blank : blank = [logger EXCEPT !.time_ = 0]
  OBVIOUS
<1>4. /\ blank \in Loggers /\ blank.time_ = 0 /\ blank.file = logger.file
      /\ blank.output_ = logger.output_ /\ blank.aside = logger.aside
      /\ blank.rotated = logger.rotated /\ blank.overwritten = logger.overwritten
  BY <1>1, <1>3 DEF Loggers
<1>5. blank.output_ = "file" => blank.file # Missing
  BY <1>1, <1>4 DEF Sound
<1>6. Sound(blank, logged) /\ Held(blank) = Held(logger)
  BY <1>1, <1>4, <1>5, SoundAgain
<1>7. PICK looked : looked = Looked(blank, period_)
  OBVIOUS
<1>8. /\ Sound(looked, logged) /\ Held(looked) = Held(logger)
      /\ looked.overwritten = logger.overwritten
  BY <1>2, <1>4, <1>6, <1>7, LookedKeeps
<1>9. PICK opened : opened = IF looked.ok /\ looked.output_ = "closed"
                             THEN Open(looked) ELSE looked
  OBVIOUS
<1>10. /\ Sound(opened, logged) /\ Held(opened) = Held(logger)
       /\ opened.overwritten = logger.overwritten
  <2>1. looked \in Loggers
    BY <1>8 DEF Sound
  <2>2. /\ Sound(Open(looked), logged) /\ Held(Open(looked)) = Held(logger)
        /\ Open(looked).overwritten = logger.overwritten
    BY <1>8, <2>1, OpenKeeps, OpenIs
  <2> QED  BY <1>8, <1>9, <2>2
<1>11. PICK l : l = IF opened.ok THEN opened
                    ELSE [Caught(opened) EXCEPT !.output_ = "closed"]
  OBVIOUS
<1>12. Sound(l, logged) /\ Held(l) = Held(logger) /\ l.ok /\ l.overwritten = logger.overwritten
  <2>1. CASE opened.ok
    BY <1>10, <1>11, <2>1
  <2>2. CASE ~opened.ok
    <3>1. PICK c : c = Caught(opened)
      OBVIOUS
    <3>2. /\ Sound(c, logged) /\ Held(c) = Held(logger) /\ c.ok
          /\ c.overwritten = logger.overwritten
      BY <1>10, <3>1, CaughtKeeps
    <3>3. l = [c EXCEPT !.output_ = "closed"]
      BY <1>11, <2>2, <3>1
    <3>4. /\ l \in Loggers /\ l.time_ = c.time_ /\ l.file = c.file
          /\ l.output_ = "closed" /\ l.aside = c.aside /\ l.ok = c.ok
          /\ l.rotated = c.rotated /\ l.overwritten = c.overwritten
      BY <3>2, <3>3 DEF Loggers, Sound
    <3>5. /\ l.output_ = "file" => l.file # Missing
          /\ l.time_ = 0 \/ \A m \in DOMAIN c.rotated : m <= l.time_
      BY <3>2, <3>4 DEF Sound
    <3>6. Sound(l, logged) /\ Held(l) = Held(c)
      BY <3>2, <3>4, <3>5, SoundAgain
    <3> QED  BY <3>2, <3>4, <3>6
  <2> QED  BY <2>1, <2>2
<1>13. /\ logger' = l /\ up' = opened.ok
       /\ rotator_' = "none" /\ UNCHANGED <<broken, logged, reported>>
  BY <1>3, <1>7, <1>9, <1>11 DEF Construct
<1>14. opened.ok \in BOOLEAN
  BY <1>10 DEF Sound, Loggers
<1>15. LoggerIInv'
  <2>1. up' \in BOOLEAN
    BY <1>13, <1>14
  <2>2. rotator_' \in {"none", "set", "off"} /\ broken' \subseteq Kinds
    BY <1>13 DEF LoggerIInv
  <2>3. UNCHANGED <<logged, reported>>
    BY <1>13
  <2>4. logger' = l
    BY <1>13
  <2> QED  BY <1>12, <2>1, <2>2, <2>3, <2>4, SameLines
<1> QED  BY <1>12, <1>13, <1>15 DEF Replaces

(* An end, and what others do.                                             *)
LEMMA WorldStep ==
  ASSUME LoggerIInv,
         StopRotator \/ End \/ Break \/ Repair \/ MoveAway
  PROVE  LoggerIInv' /\ Replaces
<1>1. Sound(logger, logged) /\ logger.ok /\ logger \in Loggers
  BY DEF LoggerIInv, Sound
<1>2. /\ up' \in BOOLEAN /\ rotator_' \in {"none", "set", "off"}
      /\ broken' \subseteq Kinds /\ UNCHANGED <<logged, reported>>
  BY DEF LoggerIInv, StopRotator, End, Break, Repair, MoveAway
<1>3. CASE StopRotator \/ Break \/ Repair
  <2>1. PICK l : l = logger
    OBVIOUS
  <2>2. logger' = l /\ Sound(l, logged) /\ Held(l) = Held(logger) /\ l.ok
    BY <1>1, <1>3, <2>1 DEF StopRotator, Break, Repair
  <2> QED  BY <1>2, <2>1, <2>2, SameLines DEF Replaces
<1>4. CASE End
  <2>1. PICK l : l = [logger EXCEPT !.output_ = "closed", !.stat_ = 0, !.time_ = 0,
                                    !.age = 0]
    OBVIOUS
  <2>2. 0 \in 0 .. period_ /\ 0 \in Nat
    BY FileLoggerAssumption
  <2>3. l \in Loggers
    BY <1>1, <2>1, <2>2, Zenon DEF Loggers
  <2>4. /\ l.time_ = 0 /\ l.file = logger.file /\ l.output_ = "closed"
        /\ l.aside = logger.aside /\ l.rotated = logger.rotated
        /\ l.overwritten = logger.overwritten /\ l.ok = logger.ok
    BY <1>1, <2>1 DEF Loggers
  <2>5. l.output_ = "file" => l.file # Missing
    BY <2>4
  <2>6. Sound(l, logged) /\ Held(l) = Held(logger)
    BY <1>1, <2>3, <2>4, <2>5, SoundAgain
  <2>7. logger' = l /\ l.ok
    BY <1>1, <1>4, <2>1, <2>4 DEF End
  <2> QED  BY <1>2, <2>4, <2>6, <2>7, SameLines DEF Replaces
<1>5. CASE MoveAway
  <2> DEFINE out == IF logger.output_ = "file" THEN "aside" ELSE logger.output_
             both == logger.aside \o logger.file
  <2>1. PICK l : l = [logger EXCEPT !.aside = both, !.file = Missing, !.output_ = out]
    OBVIOUS
  <2>2. logger' = l /\ logger.file # Missing
    BY <1>5, <2>1 DEF MoveAway
  <2>3. logger.file \in Seq(Lines) /\ logger.aside \in Seq(Lines)
    BY <1>1, <2>2 DEF Loggers
  <2>4. both \in Seq(Lines) /\ Range(both) = Range(logger.aside) \union Range(logger.file)
    <3> DEFINE s == logger.aside
               t == logger.file
    <3>1. /\ both \in Seq(Lines) /\ Len(both) = Len(s) + Len(t)
          /\ \A i \in 1 .. Len(s) + Len(t) :
               both[i] = IF i <= Len(s) THEN s[i] ELSE t[i - Len(s)]
      BY <2>3, ConcatProperties
    <3>2. /\ Len(s) \in Nat /\ Len(t) \in Nat
          /\ DOMAIN s = 1 .. Len(s) /\ DOMAIN t = 1 .. Len(t)
      BY <2>3, LenProperties
    <3>3. DOMAIN both = 1 .. Len(s) + Len(t)
      BY <3>1, LenProperties
    <3> HIDE DEF both, s, t
    <3>4. \A i \in DOMAIN both : both[i] \in Range(s) \union Range(t)
      <4>1. ASSUME NEW i \in DOMAIN both PROVE both[i] \in Range(s) \union Range(t)
        <5>1. CASE i <= Len(s)
          BY <3>1, <3>2, <3>3, <5>1 DEF Range
        <5>2. CASE ~(i <= Len(s))
          <6>1. i - Len(s) \in DOMAIN t
            BY <3>2, <3>3, <5>2
          <6> QED  BY <3>1, <3>3, <5>2, <6>1 DEF Range
        <5> QED  BY <5>1, <5>2
      <4> QED  BY <4>1
    <3>5. \A i \in DOMAIN s : s[i] \in Range(both)
      <4>1. \A i \in DOMAIN s : i \in DOMAIN both /\ both[i] = s[i]
        BY <3>1, <3>2, <3>3
      <4> QED  BY <4>1 DEF Range
    <3>6. \A i \in DOMAIN t : t[i] \in Range(both)
      <4>1. \A i \in DOMAIN t : i + Len(s) \in DOMAIN both /\ both[i + Len(s)] = t[i]
        BY <3>1, <3>2, <3>3
      <4> QED  BY <4>1 DEF Range
    <3>7. Range(both) = Range(s) \union Range(t)
      BY <3>4, <3>5, <3>6 DEF Range
    <3> QED  BY <3>1, <3>7 DEF s, t
  <2>5. out \in {"closed", "aside"}
    BY <1>1 DEF Loggers
  <2> HIDE DEF both, out
  <2>6. /\ l \in Loggers /\ l.output_ # "file" /\ l.time_ = logger.time_
        /\ l.file = Missing /\ l.aside = both /\ l.ok = logger.ok
        /\ l.rotated = logger.rotated /\ l.overwritten = logger.overwritten
    <3>1. l \in Loggers
      BY <1>1, <2>1, <2>4, <2>5, Zenon DEF Loggers
    <3> QED  BY <1>1, <2>1, <2>5, <3>1 DEF Loggers
  <2>7. InFile(l) = {} /\ InFile(logger) = Range(logger.file)
    BY <2>2, <2>6 DEF InFile
  <2>8. \A m : InRotated(l, m) = InRotated(logger, m)
    BY <2>6 DEF InRotated
  <2>9. Held(l) = Held(logger)
    BY <2>4, <2>6, <2>7, <2>8 DEF Held
  <2>10. Ordered(l)
    BY <1>1, <2>6, <2>7, <2>8 DEF Ordered, Sound
  <2>11. Sound(l, logged)
    BY <1>1, <2>6, <2>9, <2>10 DEF Sound
  <2> QED  BY <1>1, <1>2, <2>2, <2>6, <2>9, <2>11, SameLines DEF Replaces
<1> QED  BY <1>3, <1>4, <1>5

(* Every step keeps the invariant.                                         *)
LEMMA LoggerSteps ==
  ASSUME LoggerIInv, [LoggerNext]_loggerVars
  PROVE  LoggerIInv' /\ [Replaces]_loggerVars
<1>1. CASE UNCHANGED loggerVars
  <2>1. PICK l : l = logger
    OBVIOUS
  <2>2. /\ logger' = l /\ Sound(l, logged) /\ Held(l) = Held(logger) /\ l.ok
        /\ up' \in BOOLEAN /\ rotator_' \in {"none", "set", "off"}
        /\ broken' \subseteq Kinds /\ UNCHANGED <<logged, reported>>
    BY <1>1, <2>1 DEF loggerVars, LoggerIInv
  <2>3. LoggerIInv'
    BY <2>2, SameLines
  <2> QED  BY <1>1, <2>3
<1>2. CASE LoggerNext
  BY <1>2, LogStep, NotifyStep, ConstructStep, WorldStep DEF LoggerNext
<1> QED  BY <1>1, <1>2

(* FileLogger: in every behaviour all of the above holds. *)
THEOREM LoggerInvariance == LoggerSpec => []LoggerIInv
<1>1. LoggerInit => LoggerIInv
  BY LoggerStarts
<1>2. LoggerIInv /\ [LoggerNext]_loggerVars => LoggerIInv'
  BY LoggerSteps
<1> QED  BY <1>1, <1>2, PTL DEF LoggerSpec

(* No line is lost but with a report, or with a file that was overwritten. *)
THEOREM LinesAreKept == LoggerSpec => []NothingLost
<1>1. ASSUME LoggerIInv PROVE NothingLost
  <2>1. Sound(logger, logged) /\ logger \in Loggers
    BY <1>1 DEF LoggerIInv, Sound
  <2>2. LoggerTypeOK
    BY <1>1, <2>1, LinesOfLogger DEF LoggerIInv, LoggerTypeOK, Loggers
  <2>3. Held(logger) \subseteq Written \union logger.overwritten
    BY DEF Held, Written, InFile, InRotated
  <2>4. Lines \intersect (1 .. logged) \subseteq Written \union reported \union logger.overwritten
    BY <1>1, <2>3 DEF LoggerIInv
  <2>5. \A m, n \in DOMAIN logger.rotated :
          0 < m /\ m < n => \A i \in Range(logger.rotated[m]),
                               j \in Range(logger.rotated[n]) : i < j
    BY <2>1 DEF Sound, Ordered, InRotated
  <2> QED  BY <2>2, <2>4, <2>5 DEF NothingLost
<1> QED  BY <1>1, LoggerInvariance, PTL

(* A rotated file is replaced only under a time_ that was not set anew. *)
THEOREM RotatedFilesAreKept == LoggerSpec => RotatedFilesStay
<1>1. LoggerIInv /\ [LoggerNext]_loggerVars => [Replaces]_loggerVars
  BY LoggerSteps
<1> QED  BY <1>1, LoggerInvariance, PTL DEF LoggerSpec, RotatedFilesStay, Replaces

(* Only a step of raw_log() replaces one: log(), notify(), starts and what *)
(* others do to the file never lose lines that were rotated.               *)
THEOREM OnlyRawLogReplaces ==
  LoggerSpec => [][logger'.overwritten # logger.overwritten => RawLog]_loggerVars
<1>1. LoggerIInv /\ [LoggerNext]_loggerVars => [Replaces]_loggerVars
  BY LoggerSteps
<1> QED  BY <1>1, LoggerInvariance, PTL DEF LoggerSpec, Replaces
=============================================================================
