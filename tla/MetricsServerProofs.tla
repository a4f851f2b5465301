------------------------ MODULE MetricsServerProofs ------------------------
(***************************************************************************)
(* Proofs about Histogram and MetricsServer: what the members of the       *)
(* histogram count while calls of observe are under way, what a page can   *)
(* show, and that the server leaves nothing behind.                        *)
(***************************************************************************)
EXTENDS MetricsServer, CountingLemmas

-----------------------------------------------------------------------------
(***************************************************************************)
(* The inductive invariant: the histogram                                  *)
(***************************************************************************)
Counting == {t \in Observers : pc[t] = "count"}
Finished(b) == {n \in DOMAIN log : log[n] <= b}
Passed(b) == {t \in Observers : Added(t, b)}
Quiescent == \A t \in Observers : pc[t] = "idle"

(* The loop of observe starts at the first bucket of the duration. *)
LoopInv == \A t \in Observers : pc[t] = "bucket" => seconds[t] <= bucket[t]

(* Finished calls are in every member, calls under way in those that they  *)
(* have passed.                                                            *)
BucketsInv ==
  \A b \in Buckets : bucket_counts_[b] = Cardinality(Finished(b)) + Cardinality(Passed(b))
CountInv == count_ = Len(log)
SumInv == sum_ = SumOf(log, 1..Len(log)) + SumOf(seconds, Counting)

(* A page is being written exactly while its thread holds the mutex. *)
PageShape ==
  /\ page \in [Scrapers -> Seq(Nat)]
  /\ \A s \in Scrapers :
       IF mtx_ = s THEN Len(page[s]) < CountLine ELSE Len(page[s]) \in {0, CountLine}

(* What has been read was there, and still is. *)
PageBelow ==
  \A s \in Scrapers :
    /\ \A i \in Buckets : i <= Len(page[s]) => page[s][i] <= bucket_counts_[i]
    /\ Len(page[s]) = CountLine => page[s][CountLine] <= Len(log)

(* Nothing has changed since the beginning of a scrape that is quiet so    *)
(* far.                                                                    *)
QuietInv ==
  \A s \in Scrapers : mtx_ = s /\ quiet[s] = TRUE =>
    /\ Quiescent
    /\ \A i \in Buckets : i <= Len(page[s]) => page[s][i] = bucket_counts_[i]
    /\ Len(page[s]) = SumLine => page[s][SumLine] = sum_

HInv ==
  /\ HistogramTypeOK /\ PageShape /\ LoopInv /\ BucketsInv /\ CountInv /\ SumInv
  /\ PageBelow /\ TornByOnePerObserver /\ QuietInv /\ QuietScrapeConsistent

-----------------------------------------------------------------------------
(***************************************************************************)
(* The inductive invariant: the server                                     *)
(***************************************************************************)
(* What is open in each phase of start and stop. *)
OwnerInv ==
  /\ main = "idle" => server_fd_ = listening /\ (running_ = FALSE => spc = "none" /\ listening = NoFd)
  /\ main # "idle" => running_ = FALSE
  /\ main = "close" => server_fd_ = listening
  /\ main \in {"forget", "join"} => listening = NoFd
  /\ main = "join" => server_fd_ = NoFd

(* The connections: those waiting in the backlog, each once, the one that  *)
(* is served, and nothing else is open.                                    *)
Queued(c) == \E n \in 1..Len(backlog) : backlog[n] = c
PeerInv ==
  /\ backlog \in Seq(Peers)
  /\ \A i, j \in 1..Len(backlog) : backlog[i] = backlog[j] => i = j
  /\ \A c \in Peers : peer[c].state \in {"open", "answered"} <=> Queued(c) \/ cfd = c
  /\ \A c \in Peers : ~(Queued(c) /\ cfd = c)
  /\ \A c \in Peers : peer[c].state = "new" => peer[c] = New

(* Connections are numbered in the order in which they are made. *)
NumberInv == \E k \in 0..MaxPeers : \A c \in Peers : peer[c] # New <=> c <= k

(* The serving thread holds the mutex and a page only between its request  *)
(* and its answer.                                                         *)
ServeInv ==
  /\ mtx_ = Server <=> spc = "serialize"
  /\ spc \in {"lock", "serialize"} => response = "page"
  /\ spc \notin {"lock", "serialize", "send"} => response = "none"
  /\ response # "none" => Here.read = TRUE
  /\ spc # "serialize" =>
       Len(page[Server]) = IF spc = "send" /\ response = "page" THEN CountLine ELSE 0

(* What a peer has asked to see is in the part of the page that is read. *)
FreshInv ==
  /\ \A c \in Peers : peer[c].before <= Len(log)
  /\ spc \in {"serialize", "send"} /\ response = "page" =>
       /\ Len(page[Server]) >= Inf => page[Server][Inf] >= Here.before
       /\ Len(page[Server]) = CountLine => page[Server][CountLine] >= Here.before

SInv == TypeOK /\ OwnerInv /\ PeerInv /\ NumberInv /\ ServeInv /\ FreshInv
IInv == HInv /\ SInv
-----------------------------------------------------------------------------
(***************************************************************************)
(* The steps of the histogram                                              *)
(***************************************************************************)
Observing == \E t \in Observers : Observe(t) \/ ObserveStep(t)
Scraping == \E s \in Scrapers : Scrape(s) \/ ScrapeStep(s) \/ Discard(s)

(* Whatever the server does, its effect on the metrics is one of these. *)
LEMMA HistogramSteps ==
  [Next]_vars => Observing \/ Scraping \/ UNCHANGED metrics
<1> SUFFICES ASSUME [Next]_vars PROVE Observing \/ Scraping \/ UNCHANGED metrics
  OBVIOUS
<1>1. CASE start \/ StartThrows
  BY <1>1 DEF start, StartThrows
<1>2. CASE stop \/ StopStep
  BY <1>2 DEF stop, StopStep, StopCloses, StopForgets, StopJoins, OwnerOnly
<1>3. CASE ServeStep \/ Lock
  <2>1. CASE Lock \/ Serialize
    BY <2>1, MetricsServerAssumption DEF Lock, Serialize, Scraping
  <2>2. CASE Send
    BY <2>2, MetricsServerAssumption DEF Send, Scraping
  <2>3. CASE LoadRunning \/ LoadFd \/ Accept \/ AcceptFails \/ Receive \/ ReceiveEnds \/ Close
    BY <2>3 DEF LoadRunning, LoadFd, Accept, AcceptFails, Receive, ReceiveEnds, Close
  <2>4. QED  BY <1>3, <2>1, <2>2, <2>3 DEF ServeStep
<1>4. CASE Others
  BY <1>4 DEF Others, Observing, Scraping
<1>5. ASSUME NEW c \in Peers, Connect(c) \/ Ask(c) \/ HangUp(c) \/ Reset(c)
      PROVE  UNCHANGED metrics
  BY <1>5 DEF Connect, Ask, HangUp, Reset, PeerOnly
<1>6. CASE UNCHANGED vars
  BY <1>6 DEF vars
<1>7. QED
  BY <1>1, <1>2, <1>3, <1>4, <1>5, <1>6 DEF Next

(* The constants of the page. *)
LEMMA Lines ==
  /\ NumBuckets \in Nat /\ Inf \in Nat /\ Inf \in Buckets /\ 1 \in Buckets
  /\ SumLine \in Nat /\ CountLine \in Nat /\ SumLine = Inf + 1 /\ CountLine = Inf + 2
  /\ Inf >= 1 /\ (\A b \in Buckets : b \in Nat /\ 1 <= b /\ b <= Inf)
  /\ (\A b \in Nat : 1 <= b /\ b <= Inf => b \in Buckets)
  BY HistogramAssumption DEF Inf, Buckets, SumLine, CountLine

(* A line is added to a page. *)
LEMMA PageGrows ==
  ASSUME HistogramTypeOK, PageShape, NEW s \in Scrapers, NEW v \in Nat,
         page' = [page EXCEPT ![s] = Append(@, v)]
  PROVE  /\ page' \in [Scrapers -> Seq(Nat)]
         /\ \A r \in Scrapers \ {s} : page'[r] = page[r]
         /\ Len(page[s]) \in Nat /\ Len(page'[s]) = Len(page[s]) + 1
         /\ page'[s][Len(page[s]) + 1] = v
         /\ \A i \in 1..Len(page[s]) : page'[s][i] = page[s][i] /\ page[s][i] \in Nat
<1>1. page[s] \in Seq(Nat) /\ page'[s] = Append(page[s], v)
  BY DEF PageShape
<1>2. QED
  BY <1>1, AppendProperties, ElementOfSeq DEF PageShape

\* Observing and rendering keep the histogram's types and the shape of the
\* half-built pages.
LEMMA HistogramTypeStep ==
  ASSUME HInv, Observing \/ Scraping \/ UNCHANGED metrics
  PROVE  HistogramTypeOK' /\ PageShape'
<1> USE DEF HInv
<1>1. CASE UNCHANGED metrics
  BY <1>1 DEF HistogramTypeOK, PageShape, metrics, histogram, observing, scraping
<1>2. ASSUME NEW t \in Observers, Observe(t)
      PROVE  HistogramTypeOK' /\ PageShape'
  BY <1>2 DEF HistogramTypeOK, PageShape, Observe, histogram, scraping
<1>3. ASSUME NEW t \in Observers, ObserveBucket(t) \/ ObserveInf(t)
      PROVE  HistogramTypeOK' /\ PageShape'
  <2>1. /\ bucket_counts_' \in [Buckets -> Nat]
        /\ UNCHANGED <<sum_, count_, seconds, log, begun, mtx_, page, quiet>>
    BY <1>3, Lines DEF HistogramTypeOK, ObserveBucket, ObserveInf, Count, scraping
  <2>2. bucket' \in [Observers -> Buckets]
    <3>1. bucket[t] \in 1..Inf
      BY DEF HistogramTypeOK, Buckets
    <3>2. bucket[t] < Inf => bucket[t] + 1 \in Buckets
      BY <3>1, Lines DEF Buckets
    <3>3. QED  BY <1>3, <3>2 DEF HistogramTypeOK, ObserveBucket, ObserveInf
  <2>3. pc' \in [Observers -> {"idle", "bucket", "sum", "count"}]
    BY <1>3 DEF HistogramTypeOK, ObserveBucket, ObserveInf
  <2>4. QED  BY <2>1, <2>2, <2>3 DEF HistogramTypeOK, PageShape
<1>4. ASSUME NEW t \in Observers, ObserveSum(t)
      PROVE  HistogramTypeOK' /\ PageShape'
  <2>1. sum_ \in Nat /\ seconds[t] \in Nat /\ sum_' = sum_ + seconds[t]
    BY <1>4, Lines DEF HistogramTypeOK, ObserveSum
  <2>2. QED  BY <1>4, <2>1 DEF HistogramTypeOK, PageShape, ObserveSum, scraping
<1>5. ASSUME NEW t \in Observers, ObserveCount(t)
      PROVE  HistogramTypeOK' /\ PageShape'
  <2>1. log' \in Seq(Buckets)
    BY <1>5, AppendProperties DEF HistogramTypeOK, ObserveCount
  <2>2. QED  BY <1>5, <2>1, Lines DEF HistogramTypeOK, PageShape, ObserveCount, scraping
<1>6. ASSUME NEW s \in Scrapers, Scrape(s)
      PROVE  HistogramTypeOK' /\ PageShape'
  <2>1. /\ UNCHANGED <<bucket_counts_, sum_, count_, pc, bucket, seconds, log, begun, page>>
        /\ mtx_ = Nobody /\ mtx_' = s /\ page[s] = << >>
        /\ quiet' \in [Scrapers -> BOOLEAN]
    BY <1>6 DEF HistogramTypeOK, Scrape, histogram, observing
  <2>2. \A r \in Scrapers : mtx_ # r
    BY <2>1, HistogramAssumption
  <2>3. QED  BY <2>1, <2>2, Lines DEF HistogramTypeOK, PageShape
<1>7. ASSUME NEW s \in Scrapers, ScrapeStep(s)
      PROVE  HistogramTypeOK' /\ PageShape'
  <2>1. PICK v \in Nat : page' = [page EXCEPT ![s] = Append(@, v)]
    BY <1>7 DEF HistogramTypeOK, ScrapeStep, ReadBucket, ReadSum, ReadCount, ReadLine
  <2>2. /\ UNCHANGED <<bucket_counts_, sum_, count_, pc, bucket, seconds, log, begun, quiet>>
        /\ mtx_ = s
    BY <1>7 DEF ScrapeStep, ReadBucket, ReadSum, ReadCount, ReadLine, histogram, observing
  <2>3. \/ mtx_' = s /\ Len(page[s]) + 1 < CountLine
        \/ mtx_' = Nobody /\ Len(page[s]) + 1 = CountLine
    BY <1>7, Lines DEF ScrapeStep, ReadBucket, ReadSum, ReadCount, ReadLine
  <2>4. mtx_' \in Scrapers \cup {Nobody} /\ \A r \in Scrapers : mtx_' = r => r = s
    BY <2>3, HistogramAssumption
  <2>5. PageShape'
    BY <2>1, <2>2, <2>3, <2>4, PageGrows, Lines, HistogramAssumption DEF PageShape
  <2>6. \A r \in Scrapers : page'[r] \in Seq(Nat) /\ Len(page'[r]) <= CountLine
    BY <2>5, Lines DEF PageShape
  <2>7. QED  BY <2>2, <2>4, <2>5, <2>6 DEF HistogramTypeOK
<1>8. ASSUME NEW s \in Scrapers, Discard(s)
      PROVE  HistogramTypeOK' /\ PageShape'
  <2>1. << >> \in Seq(Nat) /\ Len(<< >>) = 0
    BY EmptySeq
  <2>2. mtx_ # s
    BY <1>8, Lines DEF Discard, PageShape
  <2>3. page' \in [Scrapers -> Seq(Nat)] /\ page'[s] = << >>
        /\ \A r \in Scrapers \ {s} : page'[r] = page[r]
    BY <1>8, <2>1 DEF Discard, PageShape
  <2>4. /\ UNCHANGED <<bucket_counts_, sum_, count_, pc, bucket, seconds, log, begun, mtx_>>
        /\ quiet' \in [Scrapers -> BOOLEAN]
    BY <1>8 DEF HistogramTypeOK, Discard, histogram, observing
  <2>5. PageShape'
    BY <2>1, <2>2, <2>3, <2>4, Lines DEF PageShape
  <2>6. \A r \in Scrapers : page'[r] \in Seq(Nat) /\ Len(page'[r]) <= CountLine
    BY <2>5, Lines DEF PageShape
  <2>7. QED  BY <2>4, <2>5, <2>6 DEF HistogramTypeOK
<1>9. QED
  BY <1>1, <1>2, <1>3, <1>4, <1>5, <1>6, <1>7, <1>8 DEF Observing, ObserveStep, Scraping

-----------------------------------------------------------------------------
(***************************************************************************)
(* observe()                                                               *)
(***************************************************************************)
LEMMA LoopStep ==
  ASSUME HInv, Observing \/ Scraping \/ UNCHANGED metrics
  PROVE  LoopInv'
<1> USE DEF HInv
<1>1. CASE UNCHANGED metrics \/ Scraping
  <2>1. UNCHANGED <<pc, bucket, seconds>>
    BY <1>1 DEF metrics, Scraping, observing, Scrape, ScrapeStep, ReadBucket, ReadSum,
                ReadCount, ReadLine, Discard
  <2>2. QED  BY <2>1 DEF LoopInv
<1>2. ASSUME NEW t \in Observers, Observe(t) \/ ObserveStep(t)
      PROVE  LoopInv'
  <2> SUFFICES ASSUME NEW u \in Observers, pc'[u] = "bucket" PROVE seconds'[u] <= bucket'[u]
    BY DEF LoopInv
  <2>1. seconds[u] \in Nat /\ bucket[u] \in Nat
    BY Lines DEF HistogramTypeOK
  <2>2. CASE Observe(t)
    BY <2>1, <2>2, Lines DEF Observe, HistogramTypeOK, LoopInv
  <2>3. CASE ObserveBucket(t)
    BY <2>1, <2>3 DEF ObserveBucket, HistogramTypeOK, LoopInv
  <2>4. CASE ObserveInf(t) \/ ObserveSum(t) \/ ObserveCount(t)
    BY <2>1, <2>4 DEF ObserveInf, ObserveSum, ObserveCount, HistogramTypeOK, LoopInv
  <2>5. QED  BY <1>2, <2>2, <2>3, <2>4 DEF ObserveStep
<1>3. QED
  BY <1>1, <1>2 DEF Observing

(* What a step of observer t does not change. *)
LEMMA OtherObservers ==
  ASSUME HInv, NEW t \in Observers, Observe(t) \/ ObserveStep(t), NEW b \in Buckets
  PROVE  \A u \in Observers \ {t} : u \in Passed(b) <=> u \in Passed(b)'
<1>1. \A u \in Observers \ {t} :
        pc'[u] = pc[u] /\ bucket'[u] = bucket[u] /\ seconds'[u] = seconds[u]
  BY DEF HInv, HistogramTypeOK, Observe, ObserveStep, ObserveBucket, ObserveInf, ObserveSum,
         ObserveCount
<1>2. QED
  BY <1>1 DEF Passed, Added

(* Finished calls: a bucket holds a part of them, the last bucket all. *)
LEMMA FinishedType ==
  ASSUME HInv
  PROVE  /\ Len(log) \in Nat /\ DOMAIN log = 1..Len(log)
         /\ \A b \in Buckets : IsFiniteSet(Finished(b)) /\ Cardinality(Finished(b)) \in Nat
         /\ Cardinality(Finished(Inf)) = Len(log)
         /\ \A i, j \in Buckets :
              i <= j => Cardinality(Finished(i)) <= Cardinality(Finished(j))
         /\ \A n \in 1..Len(log) : log[n] \in Nat
<1>1. /\ Len(log) \in Nat /\ DOMAIN log = 1..Len(log)
      /\ \A n \in 1..Len(log) : log[n] \in Buckets
  BY ElementOfSeq, LenProperties DEF HInv, HistogramTypeOK
<1>2. IsFiniteSet(1..Len(log)) /\ Cardinality(1..Len(log)) = Len(log)
  BY <1>1, FS_Interval
<1>3. \A b \in Buckets : IsFiniteSet(Finished(b)) /\ Cardinality(Finished(b)) \in Nat
  BY <1>1, <1>2, CountType DEF Finished
<1>4. Finished(Inf) = 1..Len(log)
  BY <1>1, Lines DEF Finished
<1>5. ASSUME NEW i \in Buckets, NEW j \in Buckets, i <= j
      PROVE  Cardinality(Finished(i)) <= Cardinality(Finished(j))
  <2>1. Finished(i) \subseteq Finished(j)
    <3> SUFFICES ASSUME NEW n \in 1..Len(log), log[n] <= i PROVE log[n] <= j
      BY <1>1 DEF Finished
    <3>1. log[n] \in Nat /\ i \in Nat /\ j \in Nat
      BY <1>1, Lines
    <3>2. QED  BY <1>5, <3>1
  <2>2. QED  BY <1>3, <2>1, FS_Subset
<1>6. QED
  BY <1>1, <1>2, <1>3, <1>4, <1>5, Lines

\* observe() keeps every bucket equal to what the finished and the passing
\* observations put there, and count_ to the log.
LEMMA BucketsStep ==
  ASSUME HInv, Observing \/ Scraping \/ UNCHANGED metrics
  PROVE  BucketsInv' /\ CountInv'
<1> USE DEF HInv
<1>1. CASE UNCHANGED metrics \/ Scraping
  <2>1. UNCHANGED <<pc, bucket, seconds, bucket_counts_, count_, log>>
    BY <1>1 DEF metrics, Scraping, observing, histogram, Scrape, ScrapeStep, ReadBucket,
                ReadSum, ReadCount, ReadLine, Discard
  <2>2. QED  BY <2>1 DEF BucketsInv, CountInv, Finished, Passed, Added
<1>2. ASSUME NEW t \in Observers, Observe(t) \/ ObserveStep(t)
      PROVE  BucketsInv' /\ CountInv'
  <2>1. ASSUME NEW b \in Buckets
        PROVE  bucket_counts_'[b] = Cardinality(Finished(b)') + Cardinality(Passed(b)')
    <3> DEFINE m == Cardinality(Passed(b))
               m2 == Cardinality(Passed(b)')
               k == Cardinality(Finished(b))
               k2 == Cardinality(Finished(b)')
               v == bucket_counts_[b]
    <3>1. v = k + m /\ k \in Nat /\ v \in Nat
      BY FinishedType DEF BucketsInv, HistogramTypeOK
    <3>2. /\ m \in Nat /\ m2 \in Nat
          /\ (t \in Passed(b) <=> t \in Passed(b)') => m2 = m
          /\ t \notin Passed(b) /\ t \in Passed(b)' => m2 = m + 1
          /\ t \in Passed(b) /\ t \notin Passed(b)' => m2 = m - 1
      <4>1. Passed(b) \in SUBSET Observers /\ Passed(b)' \in SUBSET Observers
        BY DEF Passed
      <4>2. QED  BY <1>2, <4>1, OtherObservers, CountUpdate, HistogramAssumption
    <3>3. log' = log => k2 = k
      BY DEF Finished
    <3>4. /\ seconds[t] \in Nat /\ bucket[t] \in Nat /\ b \in Nat /\ b <= Inf
          /\ seconds[t] <= Inf /\ bucket[t] <= Inf
      BY Lines DEF HistogramTypeOK
    <3>5. CASE Observe(t)
      <4>1. t \notin Passed(b) /\ t \notin Passed(b)'
        BY <3>5, <3>4, Lines DEF Observe, HistogramTypeOK, Passed, Added
      <4>2. bucket_counts_'[b] = v /\ log' = log
        BY <3>5 DEF Observe, histogram
      <4>3. QED  BY <3>1, <3>2, <3>3, <4>1, <4>2
    <3>6. CASE ObserveBucket(t)
      <4>1. b # bucket[t] => (t \in Passed(b) <=> t \in Passed(b)') /\ bucket_counts_'[b] = v
        BY <3>4, <3>6, Lines DEF ObserveBucket, Count, HistogramTypeOK, Passed, Added
      <4>2. b = bucket[t] =>
              t \notin Passed(b) /\ t \in Passed(b)' /\ bucket_counts_'[b] = v + 1
        BY <3>4, <3>6, Lines DEF ObserveBucket, Count, HistogramTypeOK, LoopInv, Passed, Added
      <4>3. log' = log
        BY <3>6 DEF ObserveBucket
      <4> HIDE DEF m, m2, k, k2, v
      <4>4. k2 = k
        BY <3>3, <4>3
      <4>5. QED  BY <3>1, <3>2, <4>1, <4>2, <4>4 DEF m2, k2
    <3>7. CASE ObserveInf(t)
      <4>1. b # Inf => (t \in Passed(b) <=> t \in Passed(b)') /\ bucket_counts_'[b] = v
        BY <3>4, <3>7, Lines DEF ObserveInf, Count, HistogramTypeOK, Passed, Added
      <4>2. b = Inf =>
              t \notin Passed(b) /\ t \in Passed(b)' /\ bucket_counts_'[b] = v + 1
        BY <3>4, <3>7, Lines DEF ObserveInf, Count, HistogramTypeOK, Passed, Added
      <4>3. log' = log
        BY <3>7 DEF ObserveInf
      <4> HIDE DEF m, m2, k, k2, v
      <4>4. k2 = k
        BY <3>3, <4>3
      <4>5. QED  BY <3>1, <3>2, <4>1, <4>2, <4>4 DEF m2, k2
    <3>8. CASE ObserveSum(t)
      <4>1. t \in Passed(b) <=> t \in Passed(b)'
        BY <3>8 DEF ObserveSum, HistogramTypeOK, Passed, Added
      <4>2. bucket_counts_'[b] = v /\ log' = log
        BY <3>8 DEF ObserveSum
      <4>3. QED  BY <3>1, <3>2, <3>3, <4>1, <4>2
    <3>9. CASE ObserveCount(t)
      <4>1. t \notin Passed(b)' /\ bucket_counts_'[b] = v
            /\ log' = Append(log, seconds[t])
        BY <3>9 DEF ObserveCount, HistogramTypeOK, Passed, Added
      <4>2. t \in Passed(b) <=> seconds[t] <= b
        BY <3>9 DEF ObserveCount, HistogramTypeOK, Passed, Added
      <4>3. /\ Len(log) \in Nat /\ DOMAIN log = 1..Len(log)
            /\ DOMAIN log' = 1..(Len(log) + 1)
            /\ \A n \in 1..Len(log) : log'[n] = log[n]
            /\ log'[Len(log) + 1] = seconds[t]
        BY <4>1, AppendProperties, LenProperties, HistogramTypeStep, FinishedType
        DEF HistogramTypeOK
      <4>4. Finished(b)' =
              Finished(b) \cup (IF seconds[t] <= b THEN {Len(log) + 1} ELSE {})
        <5>1. \A n : n \in 1..(Len(log) + 1) <=> n \in 1..Len(log) \/ n = Len(log) + 1
          BY <4>3
        <5>2. QED  BY <4>3, <5>1 DEF Finished
      <4>5. IsFiniteSet(Finished(b)) /\ Len(log) + 1 \notin Finished(b)
        BY <4>3, FinishedType DEF Finished
      <4>6. k2 = IF seconds[t] <= b THEN k + 1 ELSE k
        BY <4>4, <4>5, CountJoin
      <4> HIDE DEF m, m2, k, k2, v
      <4>7. QED  BY <3>1, <3>2, <4>1, <4>2, <4>6 DEF m2, k2
    <3>10. QED
      BY <1>2, <3>5, <3>6, <3>7, <3>8, <3>9 DEF ObserveStep
  <2>2. CountInv'
    <3>1. CASE ObserveCount(t)
      BY <3>1, AppendProperties DEF ObserveCount, CountInv, HistogramTypeOK
    <3>2. CASE ~ObserveCount(t)
      BY <1>2, <3>2 DEF ObserveStep, Observe, ObserveBucket, ObserveInf, ObserveSum,
                        CountInv, histogram
    <3>3. QED  BY <3>1, <3>2
  <2>3. QED  BY <2>1, <2>2 DEF BucketsInv
<1>3. QED
  BY <1>1, <1>2 DEF Observing

(* The observers that are at one step of observe form a finite set, and    *)
(* durations are natural numbers.                                          *)
LEMMA CountingType ==
  ASSUME HInv
  PROVE  /\ IsFiniteSet(Counting) /\ \A t \in Observers : seconds[t] \in Nat
         /\ SumOf(seconds, Counting) \in Nat /\ SumOf(log, 1..Len(log)) \in Nat
         /\ log \in Seq(Nat)
<1>1. IsFiniteSet(Counting) /\ Counting \subseteq Observers
  BY HistogramAssumption, CountType DEF Counting
<1>2. \A t \in Observers : seconds[t] \in Nat
  BY Lines DEF HInv, HistogramTypeOK
<1>3. Len(log) \in Nat /\ \A n \in 1..Len(log) : log[n] \in Nat
  BY FinishedType
<1>4. log \in Seq(Nat)
  <2>1. \A b \in Buckets : b \in Nat
    BY Lines
  <2>2. QED  BY <2>1 DEF HInv, HistogramTypeOK
<1>5. IsFiniteSet(1..Len(log))
  BY <1>3, FS_Interval
<1>6. SumOf(seconds, Counting) \in Nat
  BY <1>1, <1>2, SumType
<1>7. SumOf(log, 1..Len(log)) \in Nat
  BY <1>3, <1>5, SumType
<1>8. QED
  BY <1>1, <1>2, <1>4, <1>6, <1>7

\* observe() keeps sum_ equal to the logged values and those not yet counted.
LEMMA SumStep ==
  ASSUME HInv, Observing \/ Scraping \/ UNCHANGED metrics
  PROVE  SumInv'
<1> USE DEF HInv
<1>1. CASE UNCHANGED metrics \/ Scraping
  <2>1. UNCHANGED <<pc, seconds, sum_, log>>
    BY <1>1 DEF metrics, Scraping, observing, histogram, Scrape, ScrapeStep, ReadBucket,
                ReadSum, ReadCount, ReadLine, Discard
  <2>2. QED  BY <2>1 DEF SumInv, Counting
<1>2. ASSUME NEW t \in Observers, Observe(t) \/ ObserveStep(t)
      PROVE  SumInv'
  <2> DEFINE a == SumOf(log, 1..Len(log))
             c == SumOf(seconds, Counting)
  <2>1. sum_ = a + c /\ a \in Nat /\ c \in Nat /\ seconds[t] \in Nat
    BY CountingType DEF SumInv
  <2>2. CASE Observe(t)
    <3>1. sum_' = sum_ /\ log' = log /\ Counting' = Counting /\ t \notin Counting
          /\ \A u \in Observers \ {t} : seconds'[u] = seconds[u]
      BY <2>2 DEF Observe, HistogramTypeOK, Counting, histogram
    <3>2. \A u \in Counting : seconds'[u] = seconds[u]
      BY <3>1 DEF Counting
    <3>3. SumOf(seconds', Counting) = c
      BY <3>2, CountingType, SumSame
    <3>4. QED  BY <3>1, <3>3, <2>1 DEF SumInv
  <2>3. CASE ObserveBucket(t) \/ ObserveInf(t)
    <3>1. sum_' = sum_ /\ log' = log /\ Counting' = Counting /\ seconds' = seconds
      BY <2>3 DEF ObserveBucket, ObserveInf, HistogramTypeOK, Counting
    <3>2. QED  BY <3>1 DEF SumInv
  <2>4. CASE ObserveSum(t)
    <3>1. sum_' = sum_ + seconds[t] /\ log' = log /\ Counting' = Counting \cup {t}
          /\ t \notin Counting /\ seconds' = seconds
      BY <2>4 DEF ObserveSum, HistogramTypeOK, Counting
    <3>2. \A u \in Counting \cup {t} : seconds[u] \in Nat
      BY CountingType DEF Counting
    <3>3. SumOf(seconds, Counting \cup {t}) = seconds[t] + c
      BY <3>1, <3>2, CountingType, SumJoin
    <3>4. sum_' = a + (seconds[t] + c)
      BY <2>1, <3>1
    <3>5. QED  BY <3>1, <3>3, <3>4 DEF SumInv
  <2>5. CASE ObserveCount(t)
    <3>1. sum_' = sum_ /\ log' = Append(log, seconds[t]) /\ Counting' = Counting \ {t}
          /\ t \in Counting /\ \A u \in Observers \ {t} : seconds'[u] = seconds[u]
      BY <2>5 DEF ObserveCount, HistogramTypeOK, Counting
    <3> DEFINE R == Counting \ {t}
               r == SumOf(seconds, R)
    <3>2. \A u \in Counting : seconds[u] \in Nat
      BY CountingType DEF Counting
    <3>3. c = seconds[t] + r
      <4>1. t \in Counting /\ IsFiniteSet(Counting)
        BY <3>1, CountingType
      <4>2. SumOf(seconds, Counting) = seconds[t] + SumOf(seconds, Counting \ {t})
        <5> HIDE DEF c, r, R, a
        <5>1. QED  BY <4>1, <3>2, SumTake
      <4>3. QED  BY <4>2
    <3>4. IsFiniteSet(R) /\ \A u \in R : seconds'[u] = seconds[u] /\ seconds[u] \in Nat
      BY <3>1, <3>2, CountingType, FS_Subset DEF Counting
    <3>5. SumOf(seconds', R) = r /\ r \in Nat
      BY <3>4, SumSame, SumType
    <3>6. SumOf(log', 1..Len(log')) = a + seconds[t]
      BY <3>1, <2>1, CountingType, SumAppend
    <3> HIDE DEF a, c, r
    <3>7. a + c = (a + seconds[t]) + r
      BY <2>1, <3>3, <3>5
    <3>8. QED  BY <2>1, <3>1, <3>5, <3>6, <3>7 DEF SumInv
  <2>6. QED
    BY <1>2, <2>2, <2>3, <2>4, <2>5 DEF ObserveStep
<1>3. QED
  BY <1>1, <1>2 DEF Observing

-----------------------------------------------------------------------------
(***************************************************************************)
(* serialize()                                                             *)
(***************************************************************************)
(* Observers only add, and leave the pages alone. *)
LEMMA Grows ==
  ASSUME HInv, Observing
  PROVE  /\ \A b \in Buckets : bucket_counts_[b] <= bucket_counts_'[b]
         /\ page' = page /\ mtx_' = mtx_
         /\ Len(log) \in Nat /\ Len(log') \in Nat /\ Len(log) <= Len(log')
         /\ \A n \in 1..Len(log) : log'[n] = log[n]
<1> PICK t \in Observers : Observe(t) \/ ObserveStep(t)
  BY DEF Observing
<1> USE DEF HInv
<1>1. page' = page /\ mtx_' = mtx_
  BY DEF ObserveStep, Observe, ObserveBucket, ObserveInf, ObserveSum, ObserveCount, scraping
<1>2. ASSUME NEW b \in Buckets PROVE bucket_counts_[b] <= bucket_counts_'[b]
  <2>1. bucket_counts_[b] \in Nat
    BY DEF HistogramTypeOK
  <2>2. bucket_counts_'[b] = bucket_counts_[b] \/ bucket_counts_'[b] = bucket_counts_[b] + 1
    BY Lines DEF HistogramTypeOK, ObserveStep, Observe, ObserveBucket, ObserveInf,
                 ObserveSum, ObserveCount, Count, histogram
  <2>3. QED  BY <2>1, <2>2
<1>3. log' = log \/ log' = Append(log, seconds[t])
  BY DEF ObserveStep, Observe, ObserveBucket, ObserveInf, ObserveSum, ObserveCount
<1>4. /\ Len(log) \in Nat /\ Len(log') \in Nat /\ Len(log) <= Len(log')
      /\ \A n \in 1..Len(log) : log'[n] = log[n]
  <2>1. log \in Seq(Buckets) /\ Len(log) \in Nat /\ seconds[t] \in Buckets
    BY LenProperties DEF HistogramTypeOK
  <2>2. CASE log' = log
    BY <2>1, <2>2
  <2>3. CASE log' = Append(log, seconds[t])
    BY <2>1, <2>3, AppendProperties
  <2>4. QED  BY <1>3, <2>2, <2>3
<1>5. QED
  BY <1>1, <1>2, <1>4

(* A scrape changes neither the histogram nor what observers have done. *)
LEMMA ScrapingFrame ==
  ASSUME Scraping
  PROVE  UNCHANGED <<bucket_counts_, sum_, count_, pc, bucket, seconds, log, begun>>
  BY DEF Scraping, Scrape, ScrapeStep, ReadBucket, ReadSum, ReadCount, ReadLine, Discard,
         histogram, observing

(* Which line is read, and what it says. *)
LEMMA LineRead ==
  ASSUME HInv, NEW s \in Scrapers, ScrapeStep(s)
  PROVE  \E n \in 1..CountLine, v \in Nat :
           /\ mtx_ = s /\ n = Len(page[s]) + 1 /\ quiet' = quiet
           /\ mtx_' = (IF n = CountLine THEN Nobody ELSE s)
           /\ page' = [page EXCEPT ![s] = Append(@, v)]
           /\ n \in Buckets => v = bucket_counts_[n]
           /\ n = SumLine => v = sum_
           /\ n = CountLine => v = count_
<1> USE DEF HInv
<1>1. CASE ReadBucket(s)
  <2>1. PICK n \in Buckets : ReadLine(s, n) /\ mtx_' = mtx_
               /\ page' = [page EXCEPT ![s] = Append(@, bucket_counts_[n])]
    BY <1>1 DEF ReadBucket
  <2>2. n \in 1..CountLine /\ n # CountLine /\ n # SumLine /\ bucket_counts_[n] \in Nat
    BY Lines DEF HistogramTypeOK
  <2>3. QED  BY <2>1, <2>2 DEF ReadLine
<1>2. CASE ReadSum(s)
  <2>1. SumLine \in 1..CountLine /\ SumLine # CountLine /\ SumLine \notin Buckets
        /\ sum_ \in Nat
    BY Lines DEF HistogramTypeOK
  <2>2. QED  BY <1>2, <2>1 DEF ReadSum, ReadLine
<1>3. CASE ReadCount(s)
  <2>1. CountLine \in 1..CountLine /\ SumLine # CountLine /\ CountLine \notin Buckets
        /\ count_ \in Nat
    BY Lines DEF HistogramTypeOK
  <2>2. QED  BY <1>3, <2>1 DEF ReadCount, ReadLine
<1>4. QED
  BY <1>1, <1>2, <1>3 DEF ScrapeStep

(* Buckets that are read one after the other, and +Inf and count_, are     *)
(* never further apart than the calls under way.                           *)
LEMMA BucketsApart ==
  ASSUME HInv
  PROVE  /\ Cardinality(Observers) \in Nat
         /\ \A i, j \in Buckets :
              i <= j => bucket_counts_[i] <= bucket_counts_[j] + Cardinality(Observers)
         /\ bucket_counts_[Inf] <= count_ + Cardinality(Observers)
         /\ bucket_counts_[Inf] >= count_
<1> DEFINE O == Cardinality(Observers)
<1>1. \A b \in Buckets :
        /\ Cardinality(Passed(b)) \in Nat /\ Cardinality(Passed(b)) <= O
        /\ Cardinality(Finished(b)) \in Nat
        /\ bucket_counts_[b] = Cardinality(Finished(b)) + Cardinality(Passed(b))
  <2> SUFFICES ASSUME NEW b \in Buckets
               PROVE  Cardinality(Passed(b)) \in Nat /\ Cardinality(Passed(b)) <= O
    BY FinishedType DEF HInv, BucketsInv
  <2>1. Passed(b) \subseteq Observers
    BY DEF Passed
  <2>2. QED  BY <2>1, HistogramAssumption, CountType, FS_Subset
<1>2. O \in Nat
  BY HistogramAssumption, FS_CardinalityType
<1> HIDE DEF O
<1>3. ASSUME NEW i \in Buckets, NEW j \in Buckets, i <= j
      PROVE  bucket_counts_[i] <= bucket_counts_[j] + O
  <2>1. Cardinality(Finished(i)) <= Cardinality(Finished(j))
    BY <1>3, FinishedType
  <2>2. QED  BY <1>1, <1>2, <2>1
<1>4. count_ = Cardinality(Finished(Inf))
  BY FinishedType DEF HInv, CountInv
<1>5. bucket_counts_[Inf] <= count_ + O /\ bucket_counts_[Inf] >= count_
  BY <1>1, <1>2, <1>4, Lines
<1>6. QED
  BY <1>2, <1>3, <1>5 DEF O

\* A line already on a page never exceeds the counter it was read from:
\* counters only grow.
LEMMA PageBelowStep ==
  ASSUME HInv, Observing \/ Scraping \/ UNCHANGED metrics
  PROVE  PageBelow'
<1> USE DEF HInv
<1>1. CASE UNCHANGED metrics
  BY <1>1 DEF metrics, histogram, observing, scraping, PageBelow
<1>2. CASE Observing
  <2> SUFFICES ASSUME NEW s \in Scrapers
               PROVE  /\ \A i \in Buckets : i <= Len(page[s]) => page[s][i] <= bucket_counts_'[i]
                      /\ Len(page[s]) = CountLine => page[s][CountLine] <= Len(log')
    BY <1>2, Grows DEF PageBelow
  <2>1. page[s] \in Seq(Nat) /\ Len(page[s]) \in Nat
    BY LenProperties DEF PageShape
  <2>2. ASSUME NEW i \in Buckets, i <= Len(page[s]) PROVE page[s][i] <= bucket_counts_'[i]
    <3>1. i \in 1..Len(page[s])
      BY <2>1, <2>2, Lines
    <3>2. page[s][i] \in Nat /\ bucket_counts_[i] \in Nat /\ bucket_counts_'[i] \in Nat
      BY <1>2, <2>1, <3>1, ElementOfSeq, HistogramTypeStep DEF HistogramTypeOK
    <3>3. page[s][i] <= bucket_counts_[i] /\ bucket_counts_[i] <= bucket_counts_'[i]
      BY <1>2, <2>2, Grows DEF PageBelow
    <3>4. QED  BY <3>2, <3>3
  <2>3. ASSUME Len(page[s]) = CountLine PROVE page[s][CountLine] <= Len(log')
    <3>1. page[s][CountLine] \in Nat
      BY <2>1, <2>3, ElementOfSeq, Lines
    <3>2. QED  BY <1>2, <2>3, <3>1, Grows DEF PageBelow
  <2>4. QED  BY <2>2, <2>3
<1>3. ASSUME NEW s \in Scrapers, Scrape(s) PROVE PageBelow'
  BY <1>3 DEF Scrape, histogram, observing, PageBelow
<1>4. ASSUME NEW s \in Scrapers, ScrapeStep(s) PROVE PageBelow'
  <2>1. PICK n \in 1..CountLine, v \in Nat :
           /\ n = Len(page[s]) + 1
           /\ page' = [page EXCEPT ![s] = Append(@, v)]
           /\ n \in Buckets => v = bucket_counts_[n]
           /\ n = CountLine => v = count_
    BY <1>4, LineRead
  <2>2. UNCHANGED <<bucket_counts_, log>>
    BY <1>4, ScrapingFrame DEF Scraping
  <2>3. /\ \A r \in Scrapers \ {s} : page'[r] = page[r]
        /\ Len(page[s]) \in Nat /\ Len(page'[s]) = n /\ page'[s][n] = v
        /\ \A i \in 1..Len(page[s]) : page'[s][i] = page[s][i]
    BY <2>1, PageGrows
  <2>4. ASSUME NEW i \in Buckets, i <= n PROVE page'[s][i] <= bucket_counts_[i]
    <3>1. bucket_counts_[i] \in Nat /\ (i \in 1..Len(page[s]) \/ i = n)
      BY <2>1, <2>3, <2>4, Lines DEF HistogramTypeOK
    <3>2. CASE i \in 1..Len(page[s])
      BY <2>3, <3>2 DEF PageBelow
    <3>3. CASE i = n
      BY <2>1, <2>3, <3>1, <3>3
    <3>4. QED  BY <3>1, <3>2, <3>3
  <2>5. n = CountLine => page'[s][CountLine] <= Len(log)
    BY <2>1, <2>3, FinishedType DEF CountInv
  <2>6. QED  BY <2>2, <2>3, <2>4, <2>5 DEF PageBelow
<1>5. ASSUME NEW s \in Scrapers, Discard(s) PROVE PageBelow'
  <2>1. page'[s] = << >> /\ \A r \in Scrapers \ {s} : page'[r] = page[r]
    BY <1>5 DEF Discard, PageShape
  <2>2. UNCHANGED <<bucket_counts_, log>>
    BY <1>5, ScrapingFrame DEF Scraping
  <2>3. QED  BY <2>1, <2>2, Lines, EmptySeq DEF PageBelow
<1>6. QED
  BY <1>1, <1>2, <1>3, <1>4, <1>5 DEF Scraping

\* Two lines of a page disagree by at most one observation per observer.
LEMMA TornStep ==
  ASSUME HInv, Observing \/ Scraping \/ UNCHANGED metrics
  PROVE  TornByOnePerObserver'
<1> USE DEF HInv
<1>1. CASE UNCHANGED metrics \/ Observing
  <2>1. page' = page
    BY <1>1, Grows DEF metrics, scraping
  <2>2. QED  BY <2>1 DEF TornByOnePerObserver
<1>2. ASSUME NEW s \in Scrapers, Scrape(s) PROVE TornByOnePerObserver'
  BY <1>2 DEF Scrape, TornByOnePerObserver
<1>3. ASSUME NEW s \in Scrapers, ScrapeStep(s) PROVE TornByOnePerObserver'
  <2>1. PICK n \in 1..CountLine, v \in Nat :
           /\ n = Len(page[s]) + 1
           /\ page' = [page EXCEPT ![s] = Append(@, v)]
           /\ n \in Buckets => v = bucket_counts_[n]
           /\ n = CountLine => v = count_
    BY <1>3, LineRead
  <2>2. /\ \A r \in Scrapers \ {s} : page'[r] = page[r]
        /\ Len(page[s]) \in Nat /\ Len(page'[s]) = n /\ page'[s][n] = v
        /\ \A i \in 1..Len(page[s]) : page'[s][i] = page[s][i] /\ page[s][i] \in Nat
    BY <2>1, PageGrows
  <2> DEFINE O == Cardinality(Observers)
  <2>3. O \in Nat
    BY BucketsApart
  <2>4. \A i \in Buckets : i < n =>
          i \in 1..Len(page[s]) /\ page'[s][i] = page[s][i] /\ page[s][i] \in Nat
          /\ page[s][i] <= bucket_counts_[i] /\ bucket_counts_[i] \in Nat
    <3> SUFFICES ASSUME NEW i \in Buckets, i < n
                 PROVE  i \in 1..Len(page[s]) /\ page'[s][i] = page[s][i] /\ page[s][i] \in Nat
                        /\ page[s][i] <= bucket_counts_[i] /\ bucket_counts_[i] \in Nat
      OBVIOUS
    <3>1. i \in Nat /\ 1 <= i
      BY Lines
    <3>2. i \in 1..Len(page[s])
      BY <2>1, <2>2, <3>1
    <3>3. bucket_counts_[i] \in Nat
      BY DEF HistogramTypeOK
    <3>4. page[s][i] <= bucket_counts_[i]
      BY <3>2 DEF PageBelow
    <3>5. QED  BY <2>2, <3>2, <3>3, <3>4
  <2>5. ASSUME NEW i \in Buckets, NEW j \in Buckets, i < j, j <= n
        PROVE  page'[s][i] <= page'[s][j] + O
    <3>1. i < n
      BY <2>5, Lines
    <3>2. CASE j < n
      <4>1. page[s][i] <= page[s][j] + O
        BY <2>2, <2>4, <2>5, <3>2, Lines DEF TornByOnePerObserver
      <4>2. QED  BY <2>4, <3>1, <3>2, <4>1
    <3>3. CASE j = n
      <4>1. bucket_counts_[i] <= bucket_counts_[j] + O
        BY <2>5, BucketsApart, Lines
      <4>2. page'[s][j] = bucket_counts_[j] /\ bucket_counts_[j] \in Nat
        BY <2>1, <2>2, <3>3 DEF HistogramTypeOK
      <4> HIDE DEF O
      <4>3. QED  BY <2>3, <2>4, <3>1, <4>1, <4>2
    <3>4. QED  BY <2>5, <3>2, <3>3, Lines
  <2>6. ASSUME n = CountLine PROVE page'[s][Inf] <= page'[s][CountLine] + O
    <3>1. Inf \in Buckets /\ Inf < n
      BY <2>6, Lines
    <3>2. bucket_counts_[Inf] <= count_ + O /\ count_ \in Nat
      BY BucketsApart DEF HistogramTypeOK
    <3>3. page'[s][CountLine] = count_
      BY <2>1, <2>2, <2>6
    <3> HIDE DEF O
    <3>4. QED  BY <2>3, <2>4, <3>1, <3>2, <3>3
  <2>7. QED  BY <2>2, <2>5, <2>6 DEF TornByOnePerObserver
<1>4. ASSUME NEW s \in Scrapers, Discard(s) PROVE TornByOnePerObserver'
  <2>1. page'[s] = << >> /\ \A r \in Scrapers \ {s} : page'[r] = page[r]
    BY <1>4 DEF Discard, PageShape
  <2>2. QED  BY <2>1, Lines, EmptySeq DEF TornByOnePerObserver
<1>5. QED
  BY <1>1, <1>2, <1>3, <1>4 DEF Scraping

\* A scrape that is quiet so far has on its page what the counters still
\* hold.
LEMMA QuietStep ==
  ASSUME HInv, Observing \/ Scraping \/ UNCHANGED metrics
  PROVE  QuietInv'
<1> USE DEF HInv
<1>1. CASE UNCHANGED metrics
  BY <1>1 DEF metrics, histogram, observing, scraping, QuietInv, Quiescent
<1>2. ASSUME NEW t \in Observers, Observe(t) PROVE QuietInv'
  <2>1. \A s \in Scrapers : mtx_' = s => quiet'[s] = FALSE
    BY <1>2 DEF Observe, scraping
  <2>2. QED  BY <2>1 DEF QuietInv
<1>3. ASSUME NEW t \in Observers, ObserveStep(t) PROVE QuietInv'
  <2>1. ~Quiescent /\ quiet' = quiet /\ mtx_' = mtx_
    BY <1>3 DEF ObserveStep, ObserveBucket, ObserveInf, ObserveSum, ObserveCount, Quiescent,
                scraping
  <2>2. QED  BY <2>1 DEF QuietInv
<1>4. ASSUME NEW s \in Scrapers, Scrape(s) PROVE QuietInv'
  <2>1. /\ mtx_' = s /\ page' = page /\ page[s] = << >>
        /\ quiet'[s] = Quiescent /\ Quiescent' = Quiescent
    BY <1>4 DEF Scrape, Quiescent, observing, HistogramTypeOK
  <2>2. QED  BY <2>1, Lines, EmptySeq DEF QuietInv
<1>5. ASSUME NEW s \in Scrapers, ScrapeStep(s) PROVE QuietInv'
  <2>1. PICK n \in 1..CountLine, v \in Nat :
           /\ mtx_ = s /\ n = Len(page[s]) + 1 /\ quiet' = quiet
           /\ mtx_' = (IF n = CountLine THEN Nobody ELSE s)
           /\ page' = [page EXCEPT ![s] = Append(@, v)]
           /\ n \in Buckets => v = bucket_counts_[n]
           /\ n = SumLine => v = sum_
    BY <1>5, LineRead
  <2>2. UNCHANGED <<bucket_counts_, sum_, pc>>
    BY <1>5, ScrapingFrame DEF Scraping
  <2>3. /\ Len(page[s]) \in Nat /\ Len(page'[s]) = n /\ page'[s][n] = v
        /\ \A i \in 1..Len(page[s]) : page'[s][i] = page[s][i]
    BY <2>1, PageGrows
  <2> SUFFICES ASSUME NEW r \in Scrapers, mtx_' = r, quiet'[r] = TRUE
               PROVE  /\ Quiescent'
                      /\ \A i \in Buckets : i <= Len(page'[r]) =>
                           page'[r][i] = bucket_counts_'[i]
                      /\ Len(page'[r]) = SumLine => page'[r][SumLine] = sum_'
    BY DEF QuietInv
  <2>4. r = s /\ quiet[s] = TRUE
    BY <2>1, HistogramAssumption
  <2>5. Quiescent /\ \A i \in Buckets : i <= Len(page[s]) => page[s][i] = bucket_counts_[i]
    BY <2>1, <2>4 DEF QuietInv
  <2>6. ASSUME NEW i \in Buckets, i <= n PROVE page'[s][i] = bucket_counts_[i]
    <3>1. i \in 1..Len(page[s]) \/ i = n
      BY <2>1, <2>3, <2>6, Lines
    <3>2. QED  BY <2>1, <2>3, <2>5, <3>1
  <2>7. n = SumLine => page'[s][SumLine] = sum_
    BY <2>1, <2>3
  <2>8. QED  BY <2>2, <2>3, <2>4, <2>5, <2>6, <2>7 DEF Quiescent
<1>6. ASSUME NEW s \in Scrapers, Discard(s) PROVE QuietInv'
  <2>1. /\ mtx_' = mtx_ /\ mtx_ # s
        /\ \A r \in Scrapers \ {s} : page'[r] = page[r] /\ quiet'[r] = quiet[r]
    BY <1>6, Lines DEF Discard, PageShape, HistogramTypeOK
  <2>2. UNCHANGED <<bucket_counts_, sum_, pc>>
    BY <1>6, ScrapingFrame DEF Scraping
  <2>3. QED  BY <2>1, <2>2 DEF QuietInv, Quiescent
<1>7. QED
  BY <1>1, <1>2, <1>3, <1>4, <1>5, <1>6 DEF Observing, Scraping

(* The fold of the properties is the sum of the proofs. *)
LEMMA FoldIsSum ==
  ASSUME NEW s
  PROVE  FoldSeq(+, 0, s) = SumOf(s, DOMAIN s)
  BY DEF FoldSeq, FoldFunction, FoldFunctionOnSet, MapThenFoldSet, SumOf, Sums, Chosen

(* sum_ when no call is between its last two updates. *)
LEMMA SumExact ==
  ASSUME HInv, Counting = {}
  PROVE  sum_ = FoldSeq(+, 0, log)
<1>1. SumOf(seconds, Counting) = 0
  BY FS_EmptySet, SumUnfold
<1>2. FoldSeq(+, 0, log) = SumOf(log, 1..Len(log))
  BY FoldIsSum, FinishedType
<1>3. SumOf(log, 1..Len(log)) \in Nat
  BY CountingType
<1>4. sum_ = SumOf(log, 1..Len(log)) + 0
  BY <1>1 DEF HInv, SumInv
<1>5. SumOf(log, 1..Len(log)) + 0 = SumOf(log, 1..Len(log))
  BY <1>3
<1>6. QED
  BY <1>2, <1>4, <1>5

(* With no call under way the members agree with each other. *)
LEMMA AtRest ==
  ASSUME HInv, Quiescent
  PROVE  /\ \A b \in Buckets : bucket_counts_[b] = Cardinality(Finished(b))
         /\ bucket_counts_[Inf] = count_ /\ count_ = Len(log)
         /\ sum_ = FoldSeq(+, 0, log)
<1>1. ASSUME NEW b \in Buckets PROVE bucket_counts_[b] = Cardinality(Finished(b))
  <2>1. Passed(b) = {}
    BY DEF Quiescent, Passed, Added
  <2>2. Cardinality(Passed(b)) = 0 /\ Cardinality(Finished(b)) \in Nat
    BY <2>1, FS_EmptySet, FinishedType
  <2>3. QED  BY <2>2 DEF HInv, BucketsInv
<1>2. Counting = {}
  BY DEF Quiescent, Counting
<1>3. bucket_counts_[Inf] = count_ /\ count_ = Len(log)
  BY <1>1, FinishedType, Lines DEF HInv, CountInv
<1>4. QED
  BY <1>1, <1>2, <1>3, SumExact

(* A complete page and the first observations to finish. *)
Consistent(p, seen) ==
  /\ \A b \in Buckets : p[b] = Cardinality({n \in DOMAIN seen : seen[n] <= b})
  /\ p[Inf] = p[CountLine]
  /\ p[SumLine] = SumOf(seen, DOMAIN seen)
QuietPages ==
  \A s \in Scrapers : Len(page[s]) = CountLine /\ quiet[s] =>
    Consistent(page[s], SubSeq(log, 1, page[s][CountLine]))

\* The property the run checks, restated without LET for the provers.
LEMMA QuietPagesSame ==
  QuietScrapeConsistent <=> QuietPages
<1>1. \A s \in Scrapers :
        FoldSeq(+, 0, SubSeq(log, 1, page[s][CountLine]))
          = SumOf(SubSeq(log, 1, page[s][CountLine]), DOMAIN SubSeq(log, 1, page[s][CountLine]))
  BY FoldIsSum
<1>2. QED
  BY <1>1, Zenon DEF QuietScrapeConsistent, QuietPages, Consistent

\* A page that no observe overlapped is consistent with a prefix of the log.
LEMMA QuietScrapeStep ==
  ASSUME HInv, Observing \/ Scraping \/ UNCHANGED metrics
  PROVE  QuietPages'
<1> USE DEF HInv
<1>1. \A s \in Scrapers : Len(page[s]) = CountLine /\ quiet[s] = TRUE =>
        Consistent(page[s], SubSeq(log, 1, page[s][CountLine]))
  BY QuietPagesSame DEF QuietPages
<1> SUFFICES ASSUME NEW s \in Scrapers, Len(page'[s]) = CountLine, quiet'[s] = TRUE
             PROVE  Consistent(page'[s], SubSeq(log', 1, page'[s][CountLine]))
  <2>1. \A s \in Scrapers : quiet'[s] => quiet'[s] = TRUE
    BY HistogramTypeStep DEF HistogramTypeOK
  <2>2. QED  BY <2>1 DEF QuietPages
<1>2. CASE UNCHANGED metrics
  BY <1>1, <1>2 DEF metrics, observing, scraping
<1>3. CASE Observing
  <2>1. page' = page /\ quiet[s] = TRUE
    BY <1>3, Grows DEF Observing, Observe, ObserveStep, ObserveBucket, ObserveInf,
                       ObserveSum, ObserveCount, HistogramTypeOK
  <2> DEFINE k == page[s][CountLine]
  <2>2. k \in Nat /\ k <= Len(log)
    BY <2>1, ElementOfSeq, Lines DEF PageShape, PageBelow
  <2>3. SubSeq(log', 1, k) = SubSeq(log, 1, k)
    <3>1. /\ Len(log) \in Nat /\ Len(log') \in Nat /\ Len(log) <= Len(log')
          /\ \A n \in 1..Len(log) : log'[n] = log[n]
      BY <1>3, Grows
    <3>2. \A n \in 1..k : n \in 1..Len(log) /\ n \in 1..Len(log') /\ log'[n] = log[n]
      BY <2>2, <3>1
    <3>3. log \in Seq(Buckets) /\ log' \in Seq(Buckets)
      BY <1>3, HistogramTypeStep DEF HistogramTypeOK
    <3> HIDE DEF k
    <3>4. QED  BY <2>2, <3>2, <3>3
  <2>4. QED  BY <1>1, <2>1, <2>3
<1>4. ASSUME NEW r \in Scrapers, Scrape(r)
      PROVE  Consistent(page'[s], SubSeq(log', 1, page'[s][CountLine]))
  <2>1. page' = page /\ log' = log /\ page[r] = << >>
    BY <1>4 DEF Scrape, observing
  <2>2. s # r /\ quiet[s] = TRUE
    BY <1>4, <2>1, Lines, EmptySeq DEF Scrape, HistogramTypeOK
  <2>3. QED  BY <1>1, <2>1, <2>2
<1>5. ASSUME NEW r \in Scrapers, ScrapeStep(r)
      PROVE  Consistent(page'[s], SubSeq(log', 1, page'[s][CountLine]))
  <2>1. PICK n \in 1..CountLine, v \in Nat :
           /\ mtx_ = r /\ n = Len(page[r]) + 1 /\ quiet' = quiet
           /\ page' = [page EXCEPT ![r] = Append(@, v)]
           /\ n = CountLine => v = count_
    BY <1>5, LineRead
  <2>2. log' = log
    BY <1>5, ScrapingFrame DEF Scraping
  <2>3. /\ \A q \in Scrapers \ {r} : page'[q] = page[q]
        /\ Len(page[r]) \in Nat /\ Len(page'[r]) = n /\ page'[r][n] = v
        /\ \A i \in 1..Len(page[r]) : page'[r][i] = page[r][i]
    BY <2>1, PageGrows
  <2>4. CASE s # r
    BY <1>1, <2>1, <2>2, <2>3, <2>4
  <2>5. CASE s = r
    <3>1. n = CountLine /\ v = count_ /\ Len(page[s]) = SumLine /\ page'[s][CountLine] = v
      BY <2>1, <2>3, <2>5, Lines
    <3>2. Quiescent /\ page[s][SumLine] = sum_
          /\ \A i \in Buckets : i <= SumLine => page[s][i] = bucket_counts_[i]
      BY <2>1, <2>5, <3>1 DEF QuietInv
    <3>3. page'[s][SumLine] = sum_ /\ \A i \in Buckets : page'[s][i] = bucket_counts_[i]
      <4>1. SumLine \in 1..SumLine /\ \A i \in Buckets : i \in 1..SumLine /\ i <= SumLine
        BY Lines
      <4>2. QED  BY <2>3, <2>5, <3>1, <3>2, <4>1
    <3>4. /\ \A b \in Buckets : bucket_counts_[b] = Cardinality(Finished(b))
          /\ bucket_counts_[Inf] = count_ /\ count_ = Len(log)
          /\ sum_ = SumOf(log, DOMAIN log)
      BY <3>2, AtRest, FoldIsSum
    <3>5. SubSeq(log', 1, page'[s][CountLine]) = log
      BY <2>2, <3>1, <3>4, SubSeqFull DEF HistogramTypeOK
    <3>6. QED  BY <3>1, <3>3, <3>4, <3>5, Lines DEF Consistent, Finished
  <2>6. QED  BY <2>4, <2>5
<1>6. ASSUME NEW r \in Scrapers, Discard(r)
      PROVE  Consistent(page'[s], SubSeq(log', 1, page'[s][CountLine]))
  <2>1. page'[r] = << >> /\ log' = log
        /\ \A q \in Scrapers \ {r} : page'[q] = page[q] /\ quiet'[q] = quiet[q]
    BY <1>6 DEF Discard, PageShape, HistogramTypeOK, observing
  <2>2. s # r
    BY <2>1, Lines, EmptySeq
  <2>3. QED  BY <1>1, <2>1, <2>2
<1>7. QED
  BY <1>2, <1>3, <1>4, <1>5, <1>6 DEF Scraping

\* The histogram's half of the inductive invariant is inductive.
LEMMA HistogramStep ==
  HInv /\ [Next]_vars => HInv'
<1> SUFFICES ASSUME HInv, [Next]_vars PROVE HInv'
  OBVIOUS
<1>1. Observing \/ Scraping \/ UNCHANGED metrics
  BY HistogramSteps
<1>2. HistogramTypeOK' /\ PageShape' /\ LoopInv' /\ BucketsInv' /\ CountInv'
  BY <1>1, HistogramTypeStep, LoopStep, BucketsStep
<1>3. SumInv' /\ PageBelow' /\ TornByOnePerObserver'
  BY <1>1, SumStep, PageBelowStep, TornStep
<1>4. QuietInv' /\ QuietScrapeConsistent'
  <2>1. QuietInv' /\ QuietPages'
    BY <1>1, QuietStep, QuietScrapeStep
  <2>2. QuietScrapeConsistent'
    BY <2>1, QuietPagesSame, PTL
  <2>3. QED  BY <2>1, <2>2
<1>5. QED
  BY <1>2, <1>3, <1>4 DEF HInv

\* The histogram's half of the inductive invariant holds initially.
LEMMA HistogramStart ==
  Init => HInv
<1> SUFFICES ASSUME Init PROVE HInv
  OBVIOUS
<1> USE DEF Init, HistogramInit
<1>1. << >> \in Seq(Nat) /\ << >> \in Seq(Buckets) /\ Len(<< >>) = 0
  BY EmptySeq
<1>2. HistogramTypeOK /\ PageShape
  BY <1>1, Lines, HistogramAssumption DEF HistogramTypeOK, PageShape
<1>3. LoopInv /\ CountInv
  BY <1>1 DEF LoopInv, CountInv
<1>4. BucketsInv
  <2>1. \A b \in Buckets : Finished(b) = {} /\ Passed(b) = {}
    BY DEF Finished, Passed, Added
  <2>2. Cardinality({}) = 0
    BY FS_EmptySet
  <2>3. \A b \in Buckets : bucket_counts_[b] = 0
    OBVIOUS
  <2>4. ASSUME NEW b \in Buckets
        PROVE  bucket_counts_[b] = Cardinality(Finished(b)) + Cardinality(Passed(b))
    <3>1. Cardinality(Finished(b)) = 0 /\ Cardinality(Passed(b)) = 0
      BY <2>1, <2>2
    <3>2. QED  BY <2>3, <3>1
  <2>5. QED  BY <2>4 DEF BucketsInv
<1>5. SumInv
  <2>1. Counting = {} /\ 1..Len(log) = {}
    BY <1>1 DEF Counting
  <2>2. SumOf(seconds, {}) = 0 /\ SumOf(log, {}) = 0
    BY FS_EmptySet, SumUnfold
  <2>3. QED  BY <2>1, <2>2 DEF SumInv
<1>6. PageBelow /\ TornByOnePerObserver /\ QuietScrapeConsistent
  <2>1. \A s \in Scrapers : Len(page[s]) = 0
    BY <1>1
  <2>2. CountLine # 0 /\ \A i \in Buckets : ~(i <= 0)
    BY Lines
  <2>3. PageBelow
    BY <2>1, <2>2 DEF PageBelow
  <2>4. TornByOnePerObserver
    BY <2>1, <2>2 DEF TornByOnePerObserver
  <2>5. QuietScrapeConsistent
    BY <2>1, <2>2 DEF QuietScrapeConsistent
  <2>6. QED  BY <2>3, <2>4, <2>5
<1>7. QuietInv
  BY HistogramAssumption DEF QuietInv
<1>8. QED
  BY <1>2, <1>3, <1>4, <1>5, <1>6, <1>7 DEF HInv

-----------------------------------------------------------------------------
(***************************************************************************)
(* The owner of the server                                                 *)
(***************************************************************************)
OwnerStep == start \/ StartThrows \/ stop \/ StopStep
PeerStep == \E c \in Peers : Connect(c) \/ Ask(c) \/ HangUp(c) \/ Reset(c)

(* Who makes a step, and what he leaves alone. *)
LEMMA ServerSteps ==
  ASSUME [Next]_vars
  PROVE  \/ OwnerStep /\ UNCHANGED <<metrics, sfd, cfd, response, killed>>
         \/ (ServeStep \/ Lock) /\ UNCHANGED <<running_, server_fd_, main, starts, listening>>
         \/ PeerStep /\ UNCHANGED <<metrics, running_, server_fd_, main, starts, spc, sfd, cfd,
                                    response, listening, killed>>
         \/ Others /\ UNCHANGED <<running_, server_fd_, main, starts, spc, sfd, cfd, response,
                                  listening, backlog, peer, killed>>
         \/ UNCHANGED vars
<1>1. CASE OwnerStep
  BY <1>1 DEF OwnerStep, start, StartThrows, stop, StopStep, StopCloses, StopForgets,
              StopJoins, OwnerOnly, serving
<1>2. CASE ServeStep \/ Lock
  BY <1>2 DEF ServeStep, Lock, LoadRunning, LoadFd, Accept, AcceptFails, Receive,
              ReceiveEnds, Serialize, Send, Close, Serve, owner
<1>3. CASE PeerStep
  BY <1>3 DEF PeerStep, Connect, Ask, HangUp, Reset, PeerOnly, owner, serving
<1>4. CASE Others
  BY <1>4 DEF Others, serverVars, owner, serving
<1>5. QED
  BY <1>1, <1>2, <1>3, <1>4 DEF Next, OwnerStep, PeerStep

(* accept() gives up the connection at the head of the backlog. *)
Aborts ==
  /\ backlog # << >> /\ spc = "accept"
  /\ backlog' = Tail(backlog) /\ cfd' = cfd
  /\ peer' = [peer EXCEPT ![Head(backlog)] = Done]

(* The steps that change the connections. *)
LEMMA PeerSteps ==
  ASSUME [Next]_vars
  PROVE  \/ UNCHANGED <<backlog, peer, cfd>> \/ Aborts
         \/ StopCloses \/ Accept \/ Receive \/ Send \/ Close \/ PeerStep
<1>1. CASE OwnerStep
  BY <1>1 DEF OwnerStep, start, StartThrows, stop, StopStep, StopForgets, StopJoins,
              OwnerOnly, serving
<1>2. CASE ServeStep \/ Lock
  <2>1. CASE AcceptFails
    BY <2>1 DEF AcceptFails, Serve, Aborts
  <2>2. CASE LoadRunning \/ LoadFd \/ ReceiveEnds \/ Serialize \/ Lock
    BY <2>2 DEF LoadRunning, LoadFd, ReceiveEnds, Serialize, Lock
  <2>3. QED  BY <1>2, <2>1, <2>2 DEF ServeStep
<1>3. CASE Others \/ UNCHANGED vars
  BY <1>3 DEF Others, serverVars, serving, vars
<1>4. QED
  BY <1>1, <1>2, <1>3, ServerSteps

\* start() and stop() keep running_, server_fd_ and the listening socket in
\* agreement.
LEMMA OwnerStepInv ==
  ASSUME IInv, [Next]_vars
  PROVE  OwnerInv'
<1> USE DEF IInv, SInv
<1>1. CASE OwnerStep
  <2>1. NoFd # starts + 1 /\ running_ \in BOOLEAN
    BY MetricsServerAssumption DEF TypeOK, NoFd
  <2>2. CASE start \/ StartThrows
    BY <2>1, <2>2 DEF start, StartThrows, setup_socket, OwnerInv, serving
  <2>3. CASE stop
    BY <2>1, <2>3 DEF stop, OwnerOnly, OwnerInv
  <2>4. CASE StopCloses \/ StopForgets
    BY <2>4 DEF StopCloses, StopForgets, OwnerOnly, OwnerInv
  <2>5. CASE StopJoins
    BY <2>5 DEF StopJoins, OwnerOnly, OwnerInv
  <2>6. QED  BY <1>1, <2>2, <2>3, <2>4, <2>5 DEF OwnerStep, StopStep
<1>2. CASE ServeStep \/ Lock
  <2>1. spc # "none"
    BY <1>2 DEF ServeStep, Lock, LoadRunning, LoadFd, Accept, AcceptFails, Receive,
                ReceiveEnds, Serialize, Send, Close, Serve
  <2>2. UNCHANGED <<running_, server_fd_, main, listening>>
    BY <1>2 DEF ServeStep, Lock, LoadRunning, LoadFd, Accept, AcceptFails, Receive,
                ReceiveEnds, Serialize, Send, Close, Serve, owner
  <2>3. QED  BY <2>1, <2>2 DEF OwnerInv
<1>3. CASE UNCHANGED <<running_, server_fd_, main, spc, listening>>
  BY <1>3 DEF OwnerInv
<1>4. QED
  BY <1>1, <1>2, <1>3, ServerSteps DEF vars, owner, serving

-----------------------------------------------------------------------------
(***************************************************************************)
(* The connections                                                         *)
(***************************************************************************)
PeerType ==
  [state : {"new", "open", "answered", "done"}, request : Requests \cup {"none"},
   read : BOOLEAN, fin : BOOLEAN, rst : BOOLEAN, before : Nat]

\* What the type invariant says of a connection, spelled out for the provers.
LEMMA PeerFacts ==
  ASSUME IInv
  PROVE  /\ peer \in [Peers -> PeerType] /\ New \in PeerType /\ Done \in PeerType
         /\ New.state = "new" /\ Done.state = "done" /\ New.before = 0 /\ Done.before = 0
         /\ 0 \notin Peers /\ backlog \in Seq(Peers) /\ Len(backlog) \in Nat
         /\ \A c \in Peers : c \in ToSet(backlog) <=> Queued(c)
         /\ \A c \in Peers : c \in Nat
<1>1. peer \in [Peers -> PeerType] /\ backlog \in Seq(Peers)
  BY DEF IInv, SInv, TypeOK, PeerType, PeerInv
<1>2. /\ New \in PeerType /\ Done \in PeerType
      /\ New.state = "new" /\ Done.state = "done" /\ New.before = 0 /\ Done.before = 0
  BY DEF New, Done, PeerType, Requests
<1>3. 0 \notin Peers /\ \A c \in Peers : c \in Nat
  BY MetricsServerAssumption DEF Peers
<1>4. DOMAIN backlog = 1..Len(backlog) /\ Len(backlog) \in Nat
  BY <1>1, LenProperties
<1>5. \A c \in Peers : c \in ToSet(backlog) <=> Queued(c)
  BY <1>4 DEF ToSet, Queued
<1>6. QED
  BY <1>1, <1>2, <1>3, <1>4, <1>5

(* The connection that is served is open. *)
LEMMA ServedIsOpen ==
  ASSUME IInv, spc \in {"recv", "lock", "serialize", "send", "close"}
  PROVE  /\ cfd \in Peers /\ peer[cfd].state \in {"open", "answered"} /\ ~Queued(cfd)
  BY DEF IInv, SInv, TypeOK, PeerInv

(* The head leaves the backlog, where it was once. *)
LEMMA BacklogTail ==
  ASSUME IInv, backlog # << >>, backlog' = Tail(backlog)
  PROVE  /\ Head(backlog) \in Peers
         /\ backlog' \in Seq(Peers)
         /\ \A i, j \in 1..Len(backlog') : backlog'[i] = backlog'[j] => i = j
         /\ \A c \in Peers : Queued(c) <=> Queued(c)' \/ c = Head(backlog)
         /\ \A c \in Peers : Queued(c)' => c # Head(backlog)
<1> USE DEF IInv, SInv
<1>1. backlog \in Seq(Peers)
  BY PeerFacts
<1>2. /\ backlog' \in Seq(Peers) /\ Len(backlog') = Len(backlog) - 1
      /\ Len(backlog) \in Nat /\ Len(backlog) >= 1
      /\ Head(backlog) = backlog[1] /\ Head(backlog) \in Peers
      /\ \A i \in 1..Len(backlog') : backlog'[i] = backlog[i + 1]
  BY <1>1, HeadTailProperties, EmptySeq, LenProperties
<1>3. \A c \in Peers : Queued(c) <=> Queued(c)' \/ c = Head(backlog)
  <2> SUFFICES ASSUME NEW c \in Peers PROVE Queued(c) <=> Queued(c)' \/ c = Head(backlog)
    OBVIOUS
  <2>1. (\E i \in 1..Len(backlog) : backlog[i] = c)
          <=> (\E i \in 1..Len(Tail(backlog)) : Tail(backlog)[i] = c) \/ c = Head(backlog)
    BY <1>1, ElementsTail
  <2>2. QED  BY <2>1 DEF Queued
<1>4. /\ \A i \in 1..Len(backlog') : i + 1 \in 1..Len(backlog) /\ i + 1 # 1 /\ i \in Nat
      /\ 1 \in 1..Len(backlog)
  BY <1>2
<1>5. \A k, l \in 1..Len(backlog) : backlog[k] = backlog[l] => k = l
  BY DEF PeerInv
<1>6. \A i, j \in 1..Len(backlog') : backlog'[i] = backlog'[j] => i = j
  <2> SUFFICES ASSUME NEW i \in 1..Len(backlog'), NEW j \in 1..Len(backlog'),
                      backlog'[i] = backlog'[j]
               PROVE  i = j
    OBVIOUS
  <2>1. backlog[i + 1] = backlog[j + 1]
    BY <1>2
  <2>2. i + 1 = j + 1
    BY <1>4, <1>5, <2>1
  <2>3. QED  BY <1>4, <2>2
<1>7. \A c \in Peers : Queued(c)' => c # Head(backlog)
  <2> SUFFICES ASSUME NEW i \in 1..Len(backlog'), backlog'[i] = backlog[1] PROVE FALSE
    BY <1>2 DEF Queued
  <2>1. backlog[i + 1] = backlog[1] /\ i + 1 \in 1..Len(backlog) /\ i + 1 # 1
    BY <1>2, <1>4
  <2>2. QED  BY <1>4, <1>5, <2>1
<1>8. QED
  BY <1>2, <1>3, <1>6, <1>7

(* The number of connections made so far is the number of the last one. *)
LEMMA NextPeer ==
  ASSUME IInv, NEW c \in Peers, c = connections + 1
  PROVE  \A d \in Peers : peer[d] # New <=> d < c
<1>1. PICK k \in 0..MaxPeers : \A d \in Peers : peer[d] # New <=> d <= k
  BY DEF IInv, SInv, NumberInv
<1>2. {d \in Peers : peer[d] # New} = 1..k
  BY <1>1, MetricsServerAssumption DEF Peers
<1>3. connections = k
  <2>1. Cardinality(1..k) = k
    BY <1>1, FS_Interval, MetricsServerAssumption
  <2>2. QED  BY <1>2, <2>1 DEF connections
<1>4. QED
  BY <1>1, <1>3, MetricsServerAssumption DEF Peers

(* The effect of a step on the records of the connections. *)
LEMMA PeerRecords ==
  ASSUME IInv, [Next]_vars
  PROVE  peer' \in [Peers -> PeerType]
<1>1. CASE UNCHANGED <<backlog, peer, cfd>>
  BY <1>1, PeerFacts
<1>2. CASE StopCloses
  BY <1>2, PeerFacts DEF StopCloses
<1>3. CASE Accept \/ Aborts
  BY <1>3, PeerFacts DEF Accept, Aborts
<1>4. CASE Receive \/ Send \/ Close
  <2>1. cfd \in Peers /\ peer[cfd] \in PeerType
    BY <1>4, ServedIsOpen, PeerFacts DEF Receive, Send, Close
  <2>2. /\ [peer[cfd] EXCEPT !.request = "none", !.read = TRUE] \in PeerType
        /\ [peer[cfd] EXCEPT !.state = "answered"] \in PeerType
    BY <2>1 DEF PeerType
  <2>3. \/ peer' = peer
        \/ peer' = [peer EXCEPT ![cfd] = [peer[cfd] EXCEPT !.request = "none", !.read = TRUE]]
        \/ peer' = [peer EXCEPT ![cfd] = [peer[cfd] EXCEPT !.state = "answered"]]
        \/ peer' = [peer EXCEPT ![cfd] = Done]
    BY <1>4, <2>1, PeerFacts DEF Receive, Send, Close
  <2>4. QED
    BY <2>1, <2>2, <2>3, PeerFacts
<1>5. ASSUME NEW c \in Peers, Connect(c) \/ Ask(c) \/ HangUp(c) \/ Reset(c)
      PROVE  peer' \in [Peers -> PeerType]
  <2>1. peer[c] \in PeerType /\ Len(log) \in Nat
    BY PeerFacts, FinishedType DEF IInv
  <2>2. CASE Connect(c)
    BY <2>1, <2>2, PeerFacts DEF Connect, PeerType
  <2>3. CASE Ask(c)
    <3>1. PICK r \in Requests :
            peer' = [peer EXCEPT ![c] = [peer[c] EXCEPT !.request = r, !.before = Len(log)]]
      BY <2>3, PeerFacts DEF Ask
    <3>2. [peer[c] EXCEPT !.request = r, !.before = Len(log)] \in PeerType
      BY <2>1 DEF PeerType
    <3>3. QED  BY <3>1, <3>2, PeerFacts
  <2>4. CASE HangUp(c) \/ Reset(c)
    <3>1. /\ [peer[c] EXCEPT !.fin = TRUE] \in PeerType
          /\ [peer[c] EXCEPT !.rst = TRUE] \in PeerType
      BY <2>1 DEF PeerType
    <3>2. \/ peer' = [peer EXCEPT ![c] = [peer[c] EXCEPT !.fin = TRUE]]
          \/ peer' = [peer EXCEPT ![c] = [peer[c] EXCEPT !.rst = TRUE]]
      BY <2>4, PeerFacts DEF HangUp, Reset
    <3>3. QED  BY <3>1, <3>2, PeerFacts
  <2>5. QED  BY <1>5, <2>2, <2>3, <2>4
<1>6. QED
  BY <1>1, <1>2, <1>3, <1>4, <1>5, PeerSteps DEF PeerStep

(* Most steps open and close no connection. *)
InUse(c) == peer[c].state \in {"open", "answered"}
SameStates ==
  /\ UNCHANGED <<backlog, cfd>>
  /\ \A c \in Peers : /\ InUse(c)' <=> InUse(c)
                      /\ peer'[c].state = "new" <=> peer[c].state = "new"
                      /\ peer[c].state = "new" => peer'[c] = peer[c]

\* Only connect, accept, close and stop's close of the listener change a
\* connection's state.
LEMMA StatesStep ==
  ASSUME IInv, [Next]_vars
  PROVE  SameStates \/ StopCloses \/ Accept \/ Aborts \/ Close \/ \E c \in Peers : Connect(c)
<1>1. CASE UNCHANGED <<backlog, peer, cfd>>
  BY <1>1 DEF SameStates, InUse
<1>2. CASE Receive
  <2>1. cfd \in Peers /\ peer[cfd].state \in {"open", "answered"}
    BY <1>2, ServedIsOpen DEF Receive
  <2>2. /\ peer'[cfd].state = peer[cfd].state
        /\ \A d \in Peers \ {cfd} : peer'[d] = peer[d]
    BY <1>2, <2>1, PeerFacts DEF Receive, PeerType
  <2>3. QED  BY <1>2, <2>1, <2>2 DEF Receive, SameStates, InUse
<1>3. CASE Send
  <2>1. cfd \in Peers /\ peer[cfd].state \in {"open", "answered"}
    BY <1>3, ServedIsOpen DEF Send
  <2>2. /\ peer'[cfd].state \in {"open", "answered"}
        /\ \A d \in Peers \ {cfd} : peer'[d] = peer[d]
    BY <1>3, <2>1, PeerFacts DEF Send, PeerType
  <2>3. QED  BY <1>3, <2>1, <2>2 DEF Send, SameStates, InUse
<1>4. ASSUME NEW c \in Peers, Ask(c) \/ HangUp(c) \/ Reset(c)
      PROVE  SameStates
  <2>1. peer[c].state = "open" /\ UNCHANGED <<backlog, cfd>>
    BY <1>4 DEF Ask, HangUp, Reset, Waiting, PeerOnly, serving
  <2>2. /\ peer'[c].state = peer[c].state
        /\ \A d \in Peers \ {c} : peer'[d] = peer[d]
    <3>0. peer \in [Peers -> PeerType]
      BY PeerFacts
    <3>1. CASE Ask(c)
      <4>1. PICK rq : peer' = [peer EXCEPT ![c].request = rq, ![c].before = Len(log)]
        BY <3>1 DEF Ask
      <4>2. QED  BY <3>0, <4>1 DEF PeerType
    <3>2. CASE HangUp(c)
      BY <3>0, <3>2 DEF HangUp, PeerType
    <3>3. CASE Reset(c)
      BY <3>0, <3>3 DEF Reset, PeerType
    <3>4. QED  BY <1>4, <3>1, <3>2, <3>3
  <2>3. QED  BY <2>1, <2>2 DEF SameStates, InUse
<1>5. QED
  BY <1>1, <1>2, <1>3, <1>4, PeerSteps DEF PeerStep

\* Every step keeps an open connection in the backlog, once, or with the
\* serving thread.
LEMMA PeerInvStep ==
  ASSUME IInv, [Next]_vars
  PROVE  PeerInv'
<1> USE DEF IInv, SInv
<1>1. CASE SameStates
  <2>1. \A c \in Peers : Queued(c)' <=> Queued(c)
    BY <1>1 DEF SameStates, Queued
  <2>2. QED  BY <1>1, <2>1 DEF SameStates, PeerInv, InUse
<1>2. CASE StopCloses
  <2>1. /\ backlog' = << >> /\ cfd' = cfd
        /\ \A c \in Peers : peer'[c] = IF Queued(c) THEN Done ELSE peer[c]
    BY <1>2, PeerFacts DEF StopCloses, OwnerOnly
  <2>2. << >> \in Seq(Peers) /\ Len(backlog') = 0 /\ \A c \in Peers : ~Queued(c)'
    BY <2>1, EmptySeq DEF Queued
  <2>3. ASSUME NEW c \in Peers
        PROVE  /\ peer'[c].state \in {"open", "answered"} <=> cfd' = c
               /\ peer'[c].state = "new" => peer'[c] = New
    <3>1. CASE Queued(c)
      BY <2>1, <3>1, PeerFacts DEF PeerInv
    <3>2. CASE ~Queued(c)
      BY <2>1, <3>2 DEF PeerInv
    <3>3. QED  BY <3>1, <3>2
  <2>4. QED  BY <2>1, <2>2, <2>3 DEF PeerInv
<1>3. CASE Accept
  <2>1. /\ backlog # << >> /\ backlog' = Tail(backlog) /\ peer' = peer
        /\ cfd = 0 /\ cfd' = Head(backlog)
    BY <1>3 DEF Accept, Serve, TypeOK
  <2>2. \A c \in Peers : peer[c].state \in {"open", "answered"} <=> Queued(c)' \/ cfd' = c
    BY <2>1, BacklogTail, PeerFacts DEF PeerInv
  <2>3. QED  BY <2>1, <2>2, BacklogTail DEF PeerInv
<1>4. CASE Close
  <2>1. cfd \in Peers /\ ~Queued(cfd)
    BY <1>4, ServedIsOpen DEF Close
  <2>2. /\ backlog' = backlog /\ cfd' = 0 /\ peer'[cfd] = Done
        /\ \A d \in Peers \ {cfd} : peer'[d] = peer[d]
    BY <1>4, <2>1, PeerFacts DEF Close
  <2>3. \A c \in Peers : Queued(c)' <=> Queued(c)
    BY <2>2 DEF Queued
  <2>4. QED  BY <2>1, <2>2, <2>3, PeerFacts DEF PeerInv
<1>5. ASSUME NEW c \in Peers, Connect(c) PROVE PeerInv'
  <2>1. peer[c] = New
    BY <1>5, NextPeer, PeerFacts DEF Connect
  <2>2. /\ backlog' = Append(backlog, c) /\ cfd' = cfd /\ peer'[c].state = "open"
        /\ \A d \in Peers \ {c} : peer'[d] = peer[d]
    BY <1>5, PeerFacts DEF Connect, PeerOnly, serving, PeerType
  <2>3. ~Queued(c) /\ cfd # c
    BY <2>1, PeerFacts DEF PeerInv
  <2>4. /\ backlog' \in Seq(Peers) /\ Len(backlog') = Len(backlog) + 1 /\ Len(backlog) \in Nat
        /\ backlog'[Len(backlog) + 1] = c
        /\ \A i \in 1..Len(backlog) : backlog'[i] = backlog[i] /\ backlog[i] # c
    BY <2>2, <2>3, PeerFacts, AppendProperties DEF Queued
  <2>5. \A d \in Peers : Queued(d)' <=> Queued(d) \/ d = c
    BY <2>2, PeerFacts, ElementsAppend DEF Queued
  <2>6. \A i, j \in 1..Len(backlog') : backlog'[i] = backlog'[j] => i = j
    <3>1. \A i \in 1..Len(backlog') : i \in 1..Len(backlog) \/ i = Len(backlog) + 1
      BY <2>4
    <3>2. QED  BY <2>4, <3>1 DEF PeerInv
  <2>7. \A d \in Peers : peer'[d].state \in {"open", "answered"} <=> Queued(d)' \/ cfd' = d
    BY <2>1, <2>2, <2>3, <2>5 DEF PeerInv
  <2>8. QED  BY <2>2, <2>3, <2>4, <2>5, <2>6, <2>7 DEF PeerInv
<1>6. CASE Aborts
  <2>1. /\ backlog # << >> /\ backlog' = Tail(backlog) /\ cfd = 0 /\ cfd' = 0
        /\ Head(backlog) \in Peers /\ peer'[Head(backlog)] = Done
        /\ \A d \in Peers \ {Head(backlog)} : peer'[d] = peer[d]
    BY <1>6, BacklogTail, PeerFacts DEF Aborts, TypeOK
  <2>2. \A c \in Peers : peer'[c].state \in {"open", "answered"} <=> Queued(c)' \/ cfd' = c
    BY <2>1, BacklogTail, PeerFacts DEF PeerInv
  <2>3. \A c \in Peers : peer'[c].state = "new" => peer'[c] = New
    BY <2>1, PeerFacts DEF PeerInv
  <2>4. QED  BY <2>1, <2>2, <2>3, BacklogTail, PeerFacts DEF PeerInv
<1>7. QED
  BY <1>1, <1>2, <1>3, <1>4, <1>5, <1>6, StatesStep

\* Every step keeps the connections numbered in the order in which they are
\* made.
LEMMA NumberStep ==
  ASSUME IInv, [Next]_vars
  PROVE  NumberInv'
<1> USE DEF IInv, SInv
<1>1. PICK k \in 0..MaxPeers : \A d \in Peers : peer[d] # New <=> d <= k
  BY DEF NumberInv
<1>2. \A d \in Peers : peer[d].state = "new" <=> peer[d] = New
  BY PeerFacts DEF PeerInv
<1>3. \A d \in Peers : peer'[d].state = "new" <=> peer'[d] = New
  BY PeerInvStep, PeerFacts DEF PeerInv
<1>4. CASE \A d \in Peers : peer'[d].state = "new" <=> peer[d].state = "new"
  BY <1>1, <1>2, <1>3, <1>4 DEF NumberInv
<1>5. CASE SameStates \/ StopCloses \/ Accept \/ Aborts \/ Close
  <2>1. CASE SameStates
    BY <2>1, <1>4 DEF SameStates
  <2>2. CASE StopCloses
    <3>1. \A d \in Peers : Queued(d) => peer[d].state # "new"
      BY DEF PeerInv
    <3>2. \A d \in Peers : peer'[d] = IF Queued(d) THEN Done ELSE peer[d]
      BY <2>2, PeerFacts DEF StopCloses
    <3>3. QED  BY <1>4, <3>1, <3>2, PeerFacts
  <2>3. CASE Accept
    BY <2>3, <1>4 DEF Accept
  <2>4. CASE Close
    <3>1. cfd \in Peers /\ peer[cfd].state \in {"open", "answered"}
      BY <2>4, ServedIsOpen DEF Close
    <3>2. peer'[cfd] = Done /\ \A d \in Peers \ {cfd} : peer'[d] = peer[d]
      BY <2>4, <3>1, PeerFacts DEF Close
    <3>3. QED  BY <1>4, <3>1, <3>2, PeerFacts
  <2>5. CASE Aborts
    <3>1. /\ Head(backlog) \in Peers /\ peer[Head(backlog)].state # "new"
          /\ peer'[Head(backlog)] = Done
          /\ \A d \in Peers \ {Head(backlog)} : peer'[d] = peer[d]
      BY <2>5, BacklogTail, PeerFacts DEF Aborts, PeerInv
    <3>2. QED  BY <1>4, <3>1, PeerFacts
  <2>6. QED  BY <1>5, <2>1, <2>2, <2>3, <2>4, <2>5
<1>6. ASSUME NEW c \in Peers, Connect(c) PROVE NumberInv'
  <2>1. \A d \in Peers : peer[d] # New <=> d < c
    BY <1>6, NextPeer DEF Connect
  <2>2. /\ peer'[c].state = "open"
        /\ \A d \in Peers \ {c} : peer'[d] = peer[d]
    BY <1>6, PeerFacts DEF Connect, PeerType
  <2>3. \A d \in Peers : peer'[d] # New <=> d <= c
    BY <2>1, <2>2, PeerFacts
  <2>4. c \in 0..MaxPeers
    BY DEF Peers
  <2>5. QED  BY <2>3, <2>4 DEF NumberInv
<1>7. QED
  BY <1>5, <1>6, StatesStep

-----------------------------------------------------------------------------
(***************************************************************************)
(* The serving thread                                                      *)
(***************************************************************************)
Serving == {"recv", "lock", "serialize", "send", "close"}

(* The server keeps the shape of its state, the histogram that of its own. *)
LEMMA ServerTypeStep ==
  ASSUME IInv, [Next]_vars
  PROVE  TypeOK'
<1> USE DEF IInv, SInv
<1>1. HistogramTypeOK'
  BY HistogramStep DEF HInv
<1>2. peer' \in [Peers -> PeerType]
  BY PeerRecords
<1>3. ToSet(backlog') \subseteq Peers
  <2>1. backlog' \in Seq(Peers)
    BY PeerInvStep DEF PeerInv
  <2>2. QED  BY <2>1, LenProperties, ElementOfSeq DEF ToSet
<1>4. running_' \in BOOLEAN /\ main' \in {"idle", "close", "forget", "join"}
      /\ starts' \in 0..MaxStarts
  <2>1. starts < MaxStarts => starts + 1 \in 0..MaxStarts
    BY MetricsServerAssumption DEF TypeOK
  <2>2. CASE OwnerStep
    BY <2>1, <2>2 DEF OwnerStep, start, StartThrows, stop, StopStep, StopCloses,
                      StopForgets, StopJoins, OwnerOnly, TypeOK
  <2>3. QED  BY <2>2, ServerSteps DEF TypeOK, vars, owner
<1>5. {server_fd_', sfd', listening'} \subseteq {NoFd} \cup 1..MaxStarts
  <2>1. starts < MaxStarts => starts + 1 \in 1..MaxStarts
    BY MetricsServerAssumption DEF TypeOK
  <2>2. CASE OwnerStep
    BY <2>1, <2>2 DEF OwnerStep, start, StartThrows, setup_socket, stop, StopStep,
                      StopCloses, StopForgets, StopJoins, OwnerOnly, serving, TypeOK
  <2>3. CASE ServeStep \/ Lock
    <3>1. sfd' \in {sfd, server_fd_, NoFd}
      BY <2>3 DEF ServeStep, Lock, LoadRunning, LoadFd, Accept, AcceptFails, Receive,
                  ReceiveEnds, Serialize, Send, Close
    <3>2. UNCHANGED <<server_fd_, listening>>
      BY <2>3 DEF ServeStep, Lock, LoadRunning, LoadFd, Accept, AcceptFails, Receive,
                  ReceiveEnds, Serialize, Send, Close, Serve
    <3>3. QED  BY <3>1, <3>2 DEF TypeOK
  <2>4. QED  BY <2>2, <2>3, ServerSteps DEF TypeOK, vars, serving
<1>6. /\ spc' \in {"none", "loop", "load_fd", "accept", "exited"} \cup Serving
      /\ IF spc' \in Serving THEN cfd' \in Peers ELSE cfd' = 0
  <2>1. /\ spc \in {"none", "loop", "load_fd", "accept", "exited"} \cup Serving
        /\ IF spc \in Serving THEN cfd \in Peers ELSE cfd = 0
    BY DEF TypeOK, Serving
  <2>2. CASE OwnerStep
    BY <2>1, <2>2 DEF OwnerStep, start, StartThrows, stop, StopStep, StopCloses,
                      StopForgets, StopJoins, OwnerOnly, serving, Serving
  <2>3. CASE Accept
    <3>1. Head(backlog) \in Peers
      BY <2>3, PeerFacts, HeadTailProperties DEF Accept
    <3>2. QED  BY <2>3, <3>1 DEF Accept, Serve, Serving
  <2>4. CASE LoadRunning \/ LoadFd \/ AcceptFails
    BY <2>1, <2>4 DEF LoadRunning, LoadFd, AcceptFails, Serve, Serving
  <2>5. CASE Receive \/ ReceiveEnds \/ Lock \/ Serialize
    BY <2>1, <2>5 DEF Receive, ReceiveEnds, Lock, Serialize, Serve, Serving
  <2>6. CASE Send \/ Close
    BY <2>1, <2>6 DEF Send, Close, Serve, Serving
  <2>7. CASE UNCHANGED <<spc, cfd>>
    BY <2>1, <2>7
  <2>8. QED
    BY <2>2, <2>3, <2>4, <2>5, <2>6, <2>7, ServerSteps DEF ServeStep, vars, serving
<1>7. response' \in {"none", "page", "ok", "404"} /\ killed' \in BOOLEAN
  <2>1. CASE Receive
    BY <2>1 DEF Receive, TypeOK
  <2>2. CASE Send
    BY <2>2 DEF Send, TypeOK
  <2>3. CASE UNCHANGED <<response, killed>>
    BY <2>3 DEF TypeOK
  <2>4. CASE LoadRunning \/ LoadFd \/ Accept \/ AcceptFails \/ ReceiveEnds \/ Serialize
             \/ Close \/ Lock
    BY <2>4 DEF LoadRunning, LoadFd, Accept, AcceptFails, ReceiveEnds, Serialize, Close,
                Lock, TypeOK
  <2>5. QED  BY <2>1, <2>2, <2>3, <2>4, ServerSteps DEF ServeStep, vars, serving
<1>8. QED
  BY <1>1, <1>2, <1>3, <1>4, <1>5, <1>6, <1>7 DEF TypeOK, PeerType, Serving

(* What a step of another thread leaves of the server's page. *)
LEMMA OthersLeavePage ==
  ASSUME IInv, Others
  PROVE  page'[Server] = page[Server] /\ (mtx_' = Server <=> mtx_ = Server)
<1> USE DEF IInv, HInv
<1>1. CASE Observing
  BY <1>1, Grows
<1>2. ASSUME NEW s \in Scrapers \ {Server}, Scrape(s)
      PROVE  page'[Server] = page[Server] /\ (mtx_' = Server <=> mtx_ = Server)
  BY <1>2, HistogramAssumption, MetricsServerAssumption DEF Scrape
<1>3. ASSUME NEW s \in Scrapers \ {Server}, ScrapeStep(s)
      PROVE  page'[Server] = page[Server] /\ (mtx_' = Server <=> mtx_ = Server)
  BY <1>3, LineRead, HistogramAssumption, MetricsServerAssumption DEF PageShape
<1>4. ASSUME NEW s \in Scrapers \ {Server}, Discard(s)
      PROVE  page'[Server] = page[Server] /\ (mtx_' = Server <=> mtx_ = Server)
  BY <1>4, MetricsServerAssumption DEF Discard, PageShape
<1>5. QED
  BY <1>1, <1>2, <1>3, <1>4 DEF Others, Observing

(* The request that is being answered stays as it was read, and so does    *)
(* what it asks for.                                                       *)
LEMMA RequestKept ==
  ASSUME IInv, [Next]_vars, response # "none", spc' # "close"
  PROVE  /\ cfd' = cfd /\ cfd \in Peers /\ peer[cfd].read = TRUE
         /\ peer'[cfd].read = TRUE /\ peer'[cfd].before = peer[cfd].before
<1> USE DEF IInv, SInv
<1>1. spc \in {"lock", "serialize", "send"} /\ peer[cfd].read = TRUE
  BY DEF ServeInv, Here, TypeOK
<1>2. cfd \in Peers /\ ~Queued(cfd) /\ peer[cfd].state # "new"
  BY <1>1, ServedIsOpen
<1>3. CASE UNCHANGED <<backlog, peer, cfd>>
  BY <1>1, <1>2, <1>3
<1>4. CASE StopCloses
  BY <1>1, <1>2, <1>4, PeerFacts DEF StopCloses, OwnerOnly
<1>5. CASE Accept \/ Aborts \/ Receive \/ Send \/ Close
  BY <1>1, <1>5 DEF Accept, Aborts, Receive, Send, Close, Serve
<1>6. ASSUME NEW c \in Peers, Connect(c) \/ Ask(c) \/ HangUp(c) \/ Reset(c)
      PROVE  /\ cfd' = cfd /\ peer'[cfd].read = TRUE
             /\ peer'[cfd].before = peer[cfd].before
  <2>1. cfd' = cfd
    BY <1>6 DEF Connect, Ask, HangUp, Reset, PeerOnly, serving
  <2>2. CASE c # cfd
    <3>1. peer'[cfd] = peer[cfd]
      BY <1>2, <1>6, <2>2, PeerFacts DEF Connect, Ask, HangUp, Reset
    <3>2. QED  BY <1>1, <2>1, <3>1
  <2>3. CASE c = cfd
    <3>1. ~Ask(c)
      BY <1>1, <2>3 DEF Ask
    <3>2. peer'[c].read = peer[c].read /\ peer'[c].before = peer[c].before
      BY <1>6, <3>1, PeerFacts DEF Connect, HangUp, Reset, PeerType
    <3>3. QED  BY <1>1, <2>1, <2>3, <3>2
  <2>4. QED  BY <2>2, <2>3
<1>7. QED
  BY <1>1, <1>2, <1>3, <1>4, <1>5, <1>6, PeerSteps DEF PeerStep

\* The serving thread holds the mutex and a page only between its request and
\* its answer.
LEMMA ServeInvStep ==
  ASSUME IInv, [Next]_vars
  PROVE  ServeInv'
<1> USE DEF IInv, SInv
<1>1. /\ page[Server] \in Seq(Nat) /\ Nobody # Server
      /\ CountLine # 0 /\ CountLine = SumLine + 1 /\ SumLine \in Nat
  BY HistogramAssumption, MetricsServerAssumption, Lines DEF HInv, PageShape
<1>2. response # "none" /\ spc' # "close" => peer'[cfd'].read = TRUE
  BY RequestKept
<1>3. CASE UNCHANGED <<spc, response, mtx_>> /\ page'[Server] = page[Server]
  <2>1. spc = "close" => response = "none"
    BY DEF ServeInv
  <2>2. QED  BY <1>2, <1>3, <2>1 DEF ServeInv, Here
<1>4. CASE OwnerStep
  <2>1. UNCHANGED <<response, mtx_, page>>
    BY <1>4 DEF OwnerStep, start, StartThrows, stop, StopStep, StopCloses, StopForgets,
                StopJoins, OwnerOnly, serving, metrics, scraping
  <2>2. spc' = spc \/ (spc \in {"none", "exited"} /\ spc' \in {"loop", "none"})
    BY <1>4 DEF OwnerStep, start, StartThrows, stop, StopStep, StopCloses, StopForgets,
                StopJoins, OwnerOnly, serving
  <2>3. CASE spc' = spc
    BY <1>3, <2>1, <2>3
  <2>4. CASE spc \in {"none", "exited"} /\ spc' \in {"loop", "none"}
    BY <2>1, <2>4 DEF ServeInv
  <2>5. QED  BY <2>2, <2>3, <2>4
<1>5. CASE LoadRunning \/ LoadFd \/ Accept \/ AcceptFails \/ ReceiveEnds \/ Close
  <2>1. /\ UNCHANGED <<response, mtx_, page>>
        /\ spc \notin {"lock", "serialize", "send"}
        /\ spc' \notin {"lock", "serialize", "send"}
    BY <1>5 DEF LoadRunning, LoadFd, Accept, AcceptFails, ReceiveEnds, Close, Serve,
                metrics, scraping
  <2>2. QED  BY <2>1 DEF ServeInv
<1>6. CASE Receive
  <2>1. cfd \in Peers /\ peer \in [Peers -> PeerType]
    BY <1>6, ServedIsOpen, PeerFacts DEF Receive
  <2>2. peer'[cfd'].read = TRUE
    BY <1>6, <2>1 DEF Receive, PeerType
  <2>3. /\ spc = "recv" /\ UNCHANGED <<mtx_, page>>
        /\ spc' = IF response' = "page" THEN "lock" ELSE "send"
    BY <1>6 DEF Receive, Serve, metrics, scraping
  <2>4. QED  BY <2>2, <2>3 DEF ServeInv, Here
<1>7. CASE Lock
  <2>1. /\ spc = "lock" /\ spc' = "serialize" /\ response' = response /\ mtx_' = Server
    BY <1>7 DEF Lock, Serve, Scrape
  <2>2. QED  BY <1>2, <2>1 DEF ServeInv, Here
<1>8. CASE Serialize
  <2>1. PICK n \in 1..CountLine, v \in Nat :
           /\ n = Len(page[Server]) + 1
           /\ mtx_' = (IF n = CountLine THEN Nobody ELSE Server)
           /\ page' = [page EXCEPT ![Server] = Append(@, v)]
    BY <1>8, LineRead, MetricsServerAssumption DEF Serialize
  <2>2. Len(page[Server]) \in Nat /\ Len(page'[Server]) = n
    BY <2>1, PageGrows, MetricsServerAssumption DEF HInv
  <2>3. /\ spc = "serialize" /\ response' = response
        /\ spc' = IF Len(page[Server]) = SumLine THEN "send" ELSE "serialize"
    BY <1>8 DEF Serialize, Serve
  <2>4. Len(page[Server]) = SumLine <=> n = CountLine
    BY <1>1, <2>1, <2>2
  <2>5. response = "page"
    BY <2>3 DEF ServeInv
  <2>6. CASE n = CountLine
    BY <1>1, <1>2, <2>1, <2>2, <2>3, <2>4, <2>5, <2>6 DEF ServeInv, Here
  <2>7. CASE n # CountLine
    BY <1>1, <1>2, <2>1, <2>2, <2>3, <2>4, <2>5, <2>7 DEF ServeInv, Here
  <2>8. QED  BY <2>6, <2>7
<1>9. CASE Send
  <2>1. spc = "send" /\ spc' = "close" /\ response' = "none"
    BY <1>9 DEF Send, Serve
  <2>2. mtx_' = mtx_ /\ Len(page'[Server]) = 0
    <3>1. CASE response = "page"
      BY <1>9, <3>1, EmptySeq, MetricsServerAssumption DEF Send, Discard, HInv, PageShape
    <3>2. CASE response # "page"
      BY <1>9, <2>1, <3>2 DEF Send, metrics, scraping, ServeInv
    <3>3. QED  BY <3>1, <3>2
  <2>3. QED  BY <2>1, <2>2 DEF ServeInv
<1>10. CASE Others
  <2>1. UNCHANGED <<spc, response, cfd, peer>>
    BY <1>10 DEF Others, serverVars, serving
  <2>2. page'[Server] = page[Server] /\ (mtx_' = Server <=> mtx_ = Server)
    BY <1>10, OthersLeavePage
  <2>3. QED  BY <2>1, <2>2 DEF ServeInv, Here
<1>11. QED
  BY <1>3, <1>4, <1>5, <1>6, <1>7, <1>8, <1>9, <1>10, ServerSteps
  DEF ServeStep, vars, serving, metrics, scraping

\* Every step keeps the page under way no older than the connection it
\* answers.
LEMMA FreshStep ==
  ASSUME IInv, [Next]_vars
  PROVE  FreshInv'
<1> USE DEF IInv, SInv
<1>1. Len(log) \in Nat /\ Len(log') \in Nat /\ Len(log) <= Len(log')
  <2>1. CASE Observing
    BY <2>1, Grows
  <2>2. CASE Scraping \/ UNCHANGED metrics
    BY <2>2, ScrapingFrame, FinishedType DEF metrics, observing
  <2>3. QED  BY <2>1, <2>2, HistogramSteps
<1>2. ASSUME NEW d \in Peers PROVE peer'[d].before <= Len(log')
  <2>1. peer[d].before \in Nat /\ peer[d].before <= Len(log)
    BY PeerFacts DEF PeerType, FreshInv
  <2>2. peer'[d].before \in {peer[d].before, 0, Len(log)}
    <3>1. CASE UNCHANGED <<backlog, peer, cfd>>
      BY <3>1
    <3>2. CASE StopCloses
      BY <3>2, PeerFacts DEF StopCloses
    <3>3. CASE Accept \/ Aborts
      BY <3>3, PeerFacts DEF Accept, Aborts
    <3>4. CASE Receive \/ Send \/ Close
      <4>1. cfd \in Peers
        BY <3>4, ServedIsOpen DEF Receive, Send, Close
      <4>2. QED  BY <3>4, <4>1, PeerFacts DEF Receive, Send, Close, PeerType
    <3>5. ASSUME NEW c \in Peers, Connect(c) \/ Ask(c) \/ HangUp(c) \/ Reset(c)
          PROVE  peer'[d].before \in {peer[d].before, 0, Len(log)}
      <4>1. CASE Connect(c)
        BY <4>1, PeerFacts DEF Connect, PeerType
      <4>2. CASE Ask(c)
        BY <4>2, PeerFacts DEF Ask, PeerType
      <4>3. CASE HangUp(c)
        BY <4>3, PeerFacts DEF HangUp, PeerType
      <4>4. CASE Reset(c)
        BY <4>4, PeerFacts DEF Reset, PeerType
      <4>5. QED  BY <3>5, <4>1, <4>2, <4>3, <4>4
    <3>6. QED  BY <3>1, <3>2, <3>3, <3>4, <3>5, PeerSteps DEF PeerStep
  <2>3. QED  BY <1>1, <2>1, <2>2
<1> DEFINE Shows(p, n) ==
             (Len(p) >= Inf => p[Inf] >= n) /\ (Len(p) = CountLine => p[CountLine] >= n)
<1>3. ASSUME spc' \in {"serialize", "send"}, response' = "page"
      PROVE  Shows(page'[Server], peer'[cfd'].before)
  <2>1. CASE UNCHANGED <<spc, response>> /\ page'[Server] = page[Server]
    <3>1. peer'[cfd'].before = peer[cfd].before
      BY <1>3, <2>1, RequestKept
    <3>2. QED  BY <1>3, <2>1, <3>1 DEF FreshInv, Here
  <2>2. CASE Lock
    <3>1. page' = page /\ Len(page[Server]) = 0
      BY <2>2, EmptySeq DEF Lock, Scrape
    <3>2. QED  BY <3>1, Lines
  <2>3. CASE Serialize
    <3>1. PICK n \in 1..CountLine, v \in Nat :
             /\ n = Len(page[Server]) + 1
             /\ page' = [page EXCEPT ![Server] = Append(@, v)]
             /\ n \in Buckets => v = bucket_counts_[n]
             /\ n = CountLine => v = count_
      BY <2>3, LineRead, MetricsServerAssumption DEF Serialize
    <3>2. /\ Len(page[Server]) \in Nat /\ Len(page'[Server]) = n /\ page'[Server][n] = v
          /\ \A i \in 1..Len(page[Server]) : page'[Server][i] = page[Server][i]
      BY <3>1, PageGrows, MetricsServerAssumption DEF HInv
    <3>3. spc = "serialize" /\ response = "page"
      BY <1>3, <2>3 DEF Serialize, Serve
    <3>4. peer'[cfd'].before = peer[cfd].before /\ cfd \in Peers
      BY <1>3, <3>3, RequestKept
    <3>5. peer[cfd].before \in Nat /\ peer[cfd].before <= count_ /\ count_ \in Nat
      BY <3>4, PeerFacts DEF FreshInv, HInv, CountInv, HistogramTypeOK, PeerType
    <3>6. bucket_counts_[Inf] \in Nat /\ bucket_counts_[Inf] >= peer[cfd].before
      <4>1. bucket_counts_[Inf] \in Nat
        BY Lines DEF HInv, HistogramTypeOK
      <4>2. bucket_counts_[Inf] >= count_
        BY BucketsApart
      <4>3. QED  BY <3>5, <4>1, <4>2
    <3>7. n >= Inf => page'[Server][Inf] >= peer[cfd].before
      <4>1. CASE n = Inf
        BY <3>1, <3>2, <3>6, <4>1, Lines
      <4>2. CASE n > Inf
        <5>1. Inf \in 1..Len(page[Server]) /\ Len(page[Server]) >= Inf
          BY <3>1, <3>2, <4>2, Lines
        <5>2. QED  BY <3>2, <3>3, <5>1 DEF FreshInv, Here
      <4>3. QED  BY <4>1, <4>2, Lines
    <3>8. n = CountLine => page'[Server][CountLine] >= peer[cfd].before
      BY <3>1, <3>2, <3>5
    <3>9. QED  BY <3>2, <3>4, <3>7, <3>8
  <2>4. CASE LoadRunning \/ LoadFd \/ Accept \/ AcceptFails \/ Receive \/ ReceiveEnds
             \/ Send \/ Close
    BY <1>3, <2>4 DEF LoadRunning, LoadFd, Accept, AcceptFails, Receive, ReceiveEnds, Send,
                      Close, Serve
  <2>5. CASE OwnerStep
    <3>1. UNCHANGED <<response, page>>
      BY <2>5 DEF OwnerStep, start, StartThrows, stop, StopStep, StopCloses, StopForgets,
                  StopJoins, OwnerOnly, serving, metrics, scraping
    <3>2. spc' = spc
      BY <1>3, <2>5 DEF OwnerStep, start, StartThrows, stop, StopStep, StopCloses,
                        StopForgets, StopJoins, OwnerOnly, serving
    <3>3. QED  BY <2>1, <3>1, <3>2
  <2>6. CASE Others
    BY <2>1, <2>6, OthersLeavePage DEF Others, serverVars, serving
  <2>7. QED
    BY <2>1, <2>2, <2>3, <2>4, <2>5, <2>6, ServerSteps
    DEF ServeStep, vars, serving, metrics, scraping
<1>4. QED
  BY <1>2, <1>3 DEF FreshInv, Here

\* The server's half of the inductive invariant holds initially.
LEMMA ServerStart ==
  Init => SInv
<1> SUFFICES ASSUME Init PROVE SInv
  OBVIOUS
<1>1. HInv
  BY HistogramStart
<1> USE DEF Init
<1>2. << >> \in Seq(Peers) /\ Len(<< >>) = 0 /\ 0 \notin Peers
  BY EmptySeq, MetricsServerAssumption DEF Peers
<1>3. New \in PeerType /\ New.state = "new" /\ New.before = 0
  BY DEF New, PeerType, Requests
<1>4. TypeOK
  <2>1. HistogramTypeOK /\ ToSet(backlog) \subseteq Peers
    BY <1>1 DEF HInv, ToSet
  <2>2. peer \in [Peers -> PeerType]
    BY <1>3
  <2>3. starts \in 0..MaxStarts
    BY MetricsServerAssumption
  <2>4. QED  BY <2>1, <2>2, <2>3 DEF TypeOK, PeerType
<1>5. OwnerInv
  BY DEF OwnerInv
<1>6. PeerInv
  BY <1>2, <1>3 DEF PeerInv, Queued
<1>7. NumberInv
  <2>1. 0 \in 0..MaxPeers /\ \A c \in Peers : peer[c] = New /\ ~(c <= 0)
    BY MetricsServerAssumption DEF Peers
  <2>2. QED  BY <2>1 DEF NumberInv
<1>8. ServeInv
  BY <1>2, HistogramAssumption, MetricsServerAssumption DEF ServeInv, HistogramInit
<1>9. FreshInv
  BY <1>2, <1>3 DEF FreshInv, HistogramInit
<1>10. QED
  BY <1>4, <1>5, <1>6, <1>7, <1>8, <1>9 DEF SInv

-----------------------------------------------------------------------------
(***************************************************************************)
(* The theorems                                                            *)
(***************************************************************************)

(* The invariant holds in every state of every execution of the code of    *)
(* metrics.h and metrics_server.h.                                         *)
THEOREM Invariance == Spec => []IInv
<1>1. Init => IInv
  BY HistogramStart, ServerStart DEF IInv
<1>2. IInv /\ [Next]_vars => IInv'
  <2> SUFFICES ASSUME IInv, [Next]_vars PROVE IInv'
    OBVIOUS
  <2>1. HInv'
    BY HistogramStep DEF IInv
  <2>2. TypeOK' /\ OwnerInv' /\ PeerInv'
    BY ServerTypeStep, OwnerStepInv, PeerInvStep
  <2>3. NumberInv' /\ ServeInv' /\ FreshInv'
    BY NumberStep, ServeInvStep, FreshStep
  <2>4. QED  BY <2>1, <2>2, <2>3 DEF IInv, SInv
<1>3. QED
  BY <1>1, <1>2, PTL DEF Spec

(* The loop of observe stays inside bucket_counts_ (metrics.h:108-111) for *)
(* every number of buckets, and the server has a connection exactly while  *)
(* it serves one (metrics_server.h:136-145).                               *)
THEOREM TypeCorrect == Spec => []TypeOK
<1>1. IInv => TypeOK
  BY DEF IInv, SInv
<1>2. QED
  BY Invariance, <1>1, PTL

(* Concurrent calls of observe (metrics.h:107-114) lose no update and add  *)
(* none: every member counts the finished calls and those that have passed *)
(* it, for any number of buckets and threads.                              *)
THEOREM ObservationsAreExact == Spec => []HistogramExact
<1>1. ASSUME IInv PROVE HistogramExact
  <2>1. \A b \in Buckets :
          bucket_counts_[b] = Cardinality({n \in DOMAIN log : log[n] <= b})
                                + Cardinality({t \in Observers : Added(t, b)})
    BY <1>1 DEF IInv, HInv, BucketsInv, Finished, Passed
  <2>2. count_ = Len(log)
    BY <1>1 DEF IInv, HInv, CountInv
  <2>3. ASSUME \A t \in Observers : pc[t] # "count" PROVE sum_ = FoldSeq(+, 0, log)
    <3>1. Counting = {}
      BY <2>3 DEF Counting
    <3>2. QED  BY <1>1, <3>1, SumExact DEF IInv
  <2>4. QED  BY <2>1, <2>2, <2>3, Zenon DEF HistogramExact
<1>2. QED
  BY Invariance, <1>1, PTL

(* What a scrape shows (metrics.h:121-134) is off by one observation per   *)
(* observing thread at most, and not at all if none overlapped it.         *)
THEOREM PagesAreConsistent == Spec => []PageConsistent
<1>1. IInv => PageConsistent
  BY DEF IInv, HInv, PageConsistent
<1>2. QED
  BY Invariance, <1>1, PTL

(* The page that a peer is sent (metrics_server.h:158-171) is complete and *)
(* counts everything that was observed before its request arrived.         *)
THEOREM PagesAreFresh == Spec => []PageIsFresh
<1>1. ASSUME IInv PROVE PageIsFresh
  <2> SUFFICES ASSUME spc = "send", response = "page"
               PROVE  /\ Len(page[Server]) = CountLine
                      /\ page[Server][CountLine] \in Here.before .. Len(log)
                      /\ page[Server][Inf] >= Here.before
    BY DEF PageIsFresh
  <2>1. Len(page[Server]) = CountLine /\ page[Server] \in Seq(Nat)
    BY <1>1, MetricsServerAssumption DEF IInv, SInv, ServeInv, HInv, PageShape
  <2>2. page[Server][CountLine] >= Here.before /\ page[Server][Inf] >= Here.before
    BY <1>1, <2>1, Lines DEF IInv, SInv, FreshInv
  <2>3. page[Server][CountLine] <= Len(log) /\ page[Server][CountLine] \in Nat
    BY <1>1, <2>1, MetricsServerAssumption, ElementOfSeq, Lines DEF IInv, HInv, PageBelow
  <2>4. cfd \in Peers /\ Here.before \in Nat
    BY <1>1, ServedIsOpen, PeerFacts DEF Here, PeerType
  <2>5. Len(log) \in Nat
    BY <1>1, FinishedType DEF IInv
  <2>6. QED  BY <2>1, <2>2, <2>3, <2>4, <2>5
<1>2. QED
  BY Invariance, <1>1, PTL

(* Neither a start() that throws (metrics_server.h:73-79) nor a stop()     *)
(* leaves a thread or a socket behind, and no peer makes the loop forget a *)
(* connection (metrics_server.h:144-145).                                  *)
THEOREM NothingIsLeftBehind == Spec => []NothingLeftBehind
<1>1. ASSUME IInv PROVE StoppedIsClean
  <2>1. running_ \in BOOLEAN
    BY <1>1 DEF IInv, SInv, TypeOK
  <2>2. QED  BY <1>1, <2>1 DEF IInv, SInv, OwnerInv, StoppedIsClean
<1>2. ASSUME IInv PROVE NoConnectionForgotten
  <2> SUFFICES ASSUME NEW c \in Peers, peer[c].state \in {"open", "answered"}
               PROVE  Cardinality({n \in DOMAIN backlog : backlog[n] = c})
                        + (IF cfd = c THEN 1 ELSE 0) = 1
    BY DEF NoConnectionForgotten
  <2> DEFINE At == {n \in DOMAIN backlog : backlog[n] = c}
  <2>1. DOMAIN backlog = 1..Len(backlog)
    BY <1>2, PeerFacts, LenProperties
  <2>2. \A m, n \in At : m = n
    BY <1>2, <2>1 DEF IInv, SInv, PeerInv
  <2>3. At = {} <=> ~Queued(c)
    BY <2>1 DEF Queued
  <2>4. (Queued(c) \/ cfd = c) /\ ~(Queued(c) /\ cfd = c)
    BY <1>2 DEF IInv, SInv, PeerInv
  <2> HIDE DEF At
  <2>5. Cardinality(At) \in {0, 1} /\ (Cardinality(At) = 0 <=> At = {})
    BY <2>2, CountAtMostOne
  <2>6. Cardinality(At) + (IF cfd = c THEN 1 ELSE 0) = 1
    BY <2>3, <2>4, <2>5
  <2>7. QED  BY <2>6 DEF At
<1>3. IInv => NothingLeftBehind
  BY <1>1, <1>2 DEF NothingLeftBehind
<1>4. QED
  BY Invariance, <1>3, PTL

=============================================================================
