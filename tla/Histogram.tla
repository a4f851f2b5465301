----------------------------- MODULE Histogram -----------------------------
(***************************************************************************)
(* Histogram of include/metrics.h, observed by several threads and scraped *)
(* by MetricsRegistry::serialize at the same time.                         *)
(*                                                                         *)
(* observe() is not atomic: it adds one to every bucket whose bound is     *)
(* large enough, one after the other, then to the +Inf bucket, to sum_ and *)
(* to count_.  serialize() loads the same members one after the other.     *)
(* Every update and every load is a step.  MetricsServer composes these    *)
(* actions with the thread that serves the page.                           *)
(*                                                                         *)
(* The bounds are sorted, so a duration is represented by the first bucket *)
(* it falls into, 1 .. NumBuckets + 1, where NumBuckets + 1 is +Inf; it    *)
(* contributes that number to sum_.                                        *)
(***************************************************************************)
EXTENDS Integers, Sequences, FiniteSets, SequencesExt

CONSTANTS
  Observers,     \* threads that call observe
  Scrapers,      \* threads that call MetricsRegistry::serialize
  NumBuckets,    \* buckets_.size()
  Nobody         \* the owner of a free mutex

ASSUME HistogramAssumption ==
  NumBuckets \in Nat /\ IsFiniteSet(Observers) /\ Nobody \notin Scrapers

Inf == NumBuckets + 1
Buckets == 1..Inf

(* The lines of the page: the buckets in their order, _sum and _count. *)
SumLine == Inf + 1
CountLine == Inf + 2

VARIABLES
  bucket_counts_, sum_, count_,
  mtx_,      \* the scraper that holds the mutex of the registry, or Nobody
  pc,        \* pc[t]: the next step of observer t
  bucket,    \* bucket[t]: the bucket that its loop has come to
  seconds,   \* seconds[t]: the parameter of its observe
  page,      \* page[s]: what the serialize that s is in, or has just left, has read
  log,       \* history: the durations of the finished calls of observe
  begun,     \* history: number of calls of observe begun
  quiet      \* history, quiet[s]: no observe has overlapped page[s] so far

histogram == <<bucket_counts_, sum_, count_>>
observing == <<pc, bucket, seconds, log, begun>>
scraping == <<mtx_, page>>
metrics == <<histogram, observing, scraping, quiet>>

HistogramInit ==
  /\ bucket_counts_ = [b \in Buckets |-> 0] /\ sum_ = 0 /\ count_ = 0
  /\ mtx_ = Nobody
  /\ pc = [t \in Observers |-> "idle"]
  /\ bucket = [t \in Observers |-> 1] /\ seconds = [t \in Observers |-> 1]
  /\ page = [s \in Scrapers |-> << >>] /\ quiet = [s \in Scrapers |-> TRUE]
  /\ log = << >> /\ begun = 0

-----------------------------------------------------------------------------
(* observe(seconds): the loop skips the bounds below the duration. *)
Observe(t) ==
  /\ pc[t] = "idle"
  /\ begun' = begun + 1
  /\ pc' = [pc EXCEPT ![t] = "bucket"]
  /\ \E s \in Buckets :
       /\ seconds' = [seconds EXCEPT ![t] = s]
       /\ bucket' = [bucket EXCEPT ![t] = s]
  /\ quiet' = [s \in Scrapers |-> quiet[s] /\ mtx_ # s]
  /\ UNCHANGED <<histogram, log, scraping>>

Count(t, b) == bucket_counts_' = [bucket_counts_ EXCEPT ![b] = @ + 1]

(* Mutant: the loop runs to num_buckets_ inclusive. *)
MutantObserveBucket(t) ==
  /\ pc[t] = "bucket" /\ bucket[t] <= Inf
  /\ Count(t, bucket[t])
  /\ bucket' = [bucket EXCEPT ![t] = @ + 1]
  /\ UNCHANGED <<sum_, count_, pc, seconds, log, begun, scraping, quiet>>

ObserveBucket(t) ==
  /\ pc[t] = "bucket" /\ bucket[t] < Inf
  /\ Count(t, bucket[t])
  /\ bucket' = [bucket EXCEPT ![t] = @ + 1]
  /\ UNCHANGED <<sum_, count_, pc, seconds, log, begun, scraping, quiet>>

(* Mutant: the +Inf bucket gets only what no other bucket holds. *)
MutantObserveInf(t) ==
  /\ pc[t] = "bucket" /\ bucket[t] = Inf
  /\ IF seconds[t] = Inf THEN Count(t, Inf) ELSE UNCHANGED bucket_counts_
  /\ pc' = [pc EXCEPT ![t] = "sum"]
  /\ UNCHANGED <<sum_, count_, bucket, seconds, log, begun, scraping, quiet>>

ObserveInf(t) ==
  /\ pc[t] = "bucket" /\ bucket[t] = Inf
  /\ Count(t, Inf)
  /\ pc' = [pc EXCEPT ![t] = "sum"]
  /\ UNCHANGED <<sum_, count_, bucket, seconds, log, begun, scraping, quiet>>

(* sum_ += seconds under sum_mtx_ *)
ObserveSum(t) ==
  /\ pc[t] = "sum"
  /\ sum_' = sum_ + seconds[t]
  /\ pc' = [pc EXCEPT ![t] = "count"]
  /\ UNCHANGED <<bucket_counts_, count_, bucket, seconds, log, begun, scraping, quiet>>

(* Mutant: count_ is not increased. *)
MutantObserveCount(t) ==
  /\ pc[t] = "count"
  /\ log' = Append(log, seconds[t])
  /\ pc' = [pc EXCEPT ![t] = "idle"]
  /\ bucket' = [bucket EXCEPT ![t] = 1]
  /\ seconds' = [seconds EXCEPT ![t] = 1]
  /\ UNCHANGED <<histogram, begun, scraping, quiet>>

ObserveCount(t) ==
  /\ pc[t] = "count"
  /\ count_' = count_ + 1
  /\ log' = Append(log, seconds[t])
  /\ pc' = [pc EXCEPT ![t] = "idle"]
  /\ bucket' = [bucket EXCEPT ![t] = 1]
  /\ seconds' = [seconds EXCEPT ![t] = 1]
  /\ UNCHANGED <<bucket_counts_, sum_, begun, scraping, quiet>>

-----------------------------------------------------------------------------
(* serialize() holds the registry's mutex, so scrapes exclude each other,  *)
(* but observers do not take it.                                           *)
Scrape(s) ==
  /\ mtx_ = Nobody /\ page[s] = << >>
  /\ mtx_' = s
  /\ quiet' = [quiet EXCEPT ![s] = \A t \in Observers : pc[t] = "idle"]
  /\ UNCHANGED <<histogram, observing, page>>

ReadLine(s, n) ==
  /\ mtx_ = s /\ Len(page[s]) + 1 = n
  /\ UNCHANGED <<histogram, observing, quiet>>

(* Mutant: the buckets are read from +Inf down. *)
MutantReadBucket(s) ==
  \E n \in Buckets :
    /\ ReadLine(s, n)
    /\ page' = [page EXCEPT ![s] = <<bucket_counts_[Inf + 1 - n]>> \o @]
    /\ UNCHANGED mtx_

ReadBucket(s) ==
  \E n \in Buckets :
    /\ ReadLine(s, n)
    /\ page' = [page EXCEPT ![s] = Append(@, bucket_counts_[n])]
    /\ UNCHANGED mtx_

ReadSum(s) ==
  /\ ReadLine(s, SumLine)
  /\ page' = [page EXCEPT ![s] = Append(@, sum_)]
  /\ UNCHANGED mtx_

(* The last line, and the mutex is released. *)
ReadCount(s) ==
  /\ ReadLine(s, CountLine)
  /\ page' = [page EXCEPT ![s] = Append(@, count_)]
  /\ mtx_' = Nobody

(* The string is printed or sent, and gone. *)
Discard(s) ==
  /\ Len(page[s]) = CountLine
  /\ page' = [page EXCEPT ![s] = << >>] /\ quiet' = [quiet EXCEPT ![s] = TRUE]
  /\ UNCHANGED <<histogram, observing, mtx_>>

ObserveStep(t) ==
  ObserveBucket(t) \/ ObserveInf(t) \/ ObserveSum(t) \/ ObserveCount(t)
ScrapeStep(s) == ReadBucket(s) \/ ReadSum(s) \/ ReadCount(s)

-----------------------------------------------------------------------------
(***************************************************************************)
(* Correctness                                                             *)
(***************************************************************************)

(* The shape of the state; in particular the loop of observe stays inside  *)
(* the num_buckets_ elements of bucket_counts_ (metrics.h:108-111).        *)
HistogramTypeOK ==
  /\ bucket_counts_ \in [Buckets -> Nat] /\ sum_ \in Nat /\ count_ \in Nat
  /\ mtx_ \in Scrapers \cup {Nobody}
  /\ pc \in [Observers -> {"idle", "bucket", "sum", "count"}]
  /\ bucket \in [Observers -> Buckets] /\ seconds \in [Observers -> Buckets]
  /\ \A s \in Scrapers : page[s] \in Seq(Nat) /\ Len(page[s]) <= CountLine
  /\ log \in Seq(Buckets) /\ begun \in Nat /\ quiet \in [Scrapers -> BOOLEAN]

(* t has added its duration to bucket b and is still inside observe. *)
Added(t, b) ==
  \/ pc[t] = "bucket" /\ seconds[t] <= b /\ b < bucket[t]
  \/ pc[t] \in {"sum", "count"} /\ seconds[t] <= b

(* The histogram is cumulative and exact up to the calls under way         *)
(* (metrics.h:107-114): bucket b counts every finished duration not above  *)
(* its bound and the unfinished ones that have passed it; count_ and sum_  *)
(* count exactly the finished ones and those that have passed them.        *)
HistogramExact ==
  /\ \A b \in Buckets :
       bucket_counts_[b] = Cardinality({n \in DOMAIN log : log[n] <= b})
                             + Cardinality({t \in Observers : Added(t, b)})
  /\ count_ = Len(log)
  /\ (\A t \in Observers : pc[t] # "count") => sum_ = FoldSeq(+, 0, log)

(* A scrape that overlaps observers is torn, but by no more than one per   *)
(* observer (metrics.h:125-132): a bucket read later never misses more     *)
(* observations of an earlier bucket than there are observers, nor does    *)
(* count_ of the +Inf bucket.                                              *)
TornByOnePerObserver ==
  \A s \in Scrapers :
    /\ \A i, j \in Buckets :
         i < j /\ j <= Len(page[s]) => page[s][i] <= page[s][j] + Cardinality(Observers)
    /\ Len(page[s]) = CountLine =>
         page[s][Inf] <= page[s][CountLine] + Cardinality(Observers)

(* A page that no observe overlapped (metrics.h:169-176) is one consistent *)
(* histogram: its buckets are cumulative, +Inf and _count agree, and so do *)
(* they with the observations that had finished.                           *)
QuietScrapeConsistent ==
  \A s \in Scrapers :
    LET p == page[s]
        seen == SubSeq(log, 1, p[CountLine])   \* the first ones to finish
    IN  Len(p) = CountLine /\ quiet[s] =>
          /\ \A b \in Buckets : p[b] = Cardinality({n \in DOMAIN seen : seen[n] <= b})
          /\ p[Inf] = p[CountLine]
          /\ p[SumLine] = FoldSeq(+, 0, seen)

(* What a scrape shows (metrics.h:121-134) is a histogram, up to the       *)
(* observations that were under way while it was made.                     *)
PageConsistent == TornByOnePerObserver /\ QuietScrapeConsistent
=============================================================================
