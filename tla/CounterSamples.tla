---------------------------- MODULE CounterSamples ----------------------------
(***************************************************************************)
(* The counter history of a node: the table node_counter_samples of        *)
(* storage/sqlite_store.py, its retention, and the series and deltas that  *)
(* api/counter_series.py, api/http_api.py and network_health.py read.      *)
(*                                                                         *)
(* A discovery run fetches the counters of a device, records a sample      *)
(* under the time of the recording, and at its end prunes the table: rows  *)
(* are kept as they are for FullFor, as averages of a bucket for           *)
(* ArchiveFor, and then dropped.  Values are in thousandths, as averages   *)
(* are rounded to three places.                                            *)
(***************************************************************************)
EXTENDS Integers, FiniteSetsExt

CONSTANTS
  Key,         \* names of counters
  Optional,    \* ... a device may leave out
  Run,         \* discovery runs that may be under way at a time
  Bucket,      \* 5 minutes, in ticks
  FullFor,     \* retention.full_resolution_days, in ticks
  ArchiveFor,  \* retention.sampled_archive_days, in ticks
  Limit,       \* rows a query returns
  MaxCount,    \* bound: values of a counter
  MaxSamples,  \* bound: samples
  MaxTime      \* bound: ticks

ASSUME CounterAssumption ==
  /\ {Bucket, Limit} \subseteq Nat \ {0}
  /\ {FullFor, ArchiveFor, MaxCount, MaxSamples, MaxTime} \subseteq Nat
  /\ Bucket <= FullFor
  /\ Optional \subseteq Key

VARIABLES
  count,     \* the counters of the device
  run,       \* where a run stands, and what it fetched
  rich,      \* the counters in the answer that was persisted last
  samples,   \* the rows of the device: its counters by observed_at
  now,
  newest,    \* history: the sample recorded last
  broken,    \* history: counters that fell, or were missing, from sample to sample
  recorded   \* history: the times of all samples

counterVars == <<count, run, rich, samples, newest, broken, recorded>>

IsPayload(p) == DOMAIN p \subseteq Key /\ p \in [DOMAIN p -> Nat]

NoRun   == [pc |-> "idle", payload |-> << >>]

CounterInit ==
  /\ count = [k \in Key |-> 0]
  /\ run = [r \in Run |-> NoRun]
  /\ rich = << >> /\ samples = << >> /\ newest = << >> /\ broken = {} /\ recorded = {}
-----------------------------------------------------------------------------
(* prune_counter_samples *)

BucketOf(t) == t - (t % Bucket)

RoundedMean(sum, n) == (2 * sum + n) \div (2 * n)

Kept     == {t \in DOMAIN samples : t >= now - ArchiveFor}
Archived == {t \in Kept : t < now - FullFor}
Packed   == {b \in {BucketOf(t) : t \in Archived} :
               Cardinality({t \in Archived : BucketOf(t) = b}) > 1}

KeysOf(rows, T) == UNION {DOMAIN rows[t] : t \in T}
Having(rows, T, k) == {t \in T : k \in DOMAIN rows[t]}
Total(rows, T, k) == LET H == Having(rows, T, k) IN SumFunctionOnSet([t \in H |-> rows[t][k]], H)

\* Broken: the sum is divided by the number of all rows that are archived.
AverageOfAll(rows, T) == [k \in KeysOf(rows, T) |-> RoundedMean(Total(rows, T, k), Cardinality(Archived))]

\* The sum is divided by the number of rows, those without the key included.
Average(rows, T) == [k \in KeysOf(rows, T) |-> RoundedMean(Total(rows, T, k), Cardinality(T))]

\* Broken: the average is written before the rows of its bucket are deleted.
PrunedLast == [t \in {t \in Kept : BucketOf(t) \notin Packed} |-> samples[t]]

\* The average takes the place of all rows of its bucket, also of rows that
\* are not archived yet and have no part in it.
Pruned ==
  LET loose == {t \in Kept : BucketOf(t) \notin Packed}
  IN [t \in loose \cup Packed |->
        IF t \in Packed THEN Average(samples, {u \in Archived : BucketOf(u) = t})
                        ELSE samples[t]]
-----------------------------------------------------------------------------
(* the world, and the runs *)

\* The counters have grown, or start over since the device restarted; it may
\* not tell some of them.
Fetch(r) ==
  /\ run[r].pc = "idle" /\ Cardinality(recorded) < MaxSamples
  /\ \/ \E grown \in [Key -> {0, 1000}] : count' = [k \in Key |-> count[k] + grown[k]]
     \/ count' = [k \in Key |-> 0]
  /\ \A k \in Key : count'[k] <= 1000 * MaxCount
  /\ \E K \in SUBSET Optional :
       run' = [run EXCEPT ![r] =
                 [pc |-> "fetched", payload |-> [k \in Key \ K |-> count'[k]]]]
  /\ UNCHANGED <<rich, samples, newest, broken, recorded>>

\* A run whose server is silent takes the counters of the last answer.
FetchCached(r) ==
  /\ run[r].pc = "idle" /\ rich # << >> /\ Cardinality(recorded) < MaxSamples
  /\ run' = [run EXCEPT ![r] = [pc |-> "fetched", payload |-> rich]]
  /\ UNCHANGED <<count, rich, samples, newest, broken, recorded>>

\* record_counter_sample: nothing is written without a counter, nor over a row.
Record(r) ==
  LET payload == run[r].payload
      writes  == DOMAIN payload # {} /\ now \notin DOMAIN samples
  IN /\ run[r].pc = "fetched"
     /\ run' = [run EXCEPT ![r] = [NoRun EXCEPT !.pc = "recorded"]]
     /\ rich' = payload
     /\ IF writes
        THEN /\ samples' = [t \in DOMAIN samples \cup {now} |->
                              IF t = now THEN payload ELSE samples[t]]
             /\ newest' = payload
             /\ broken' = broken \cup
                  {k \in Key : k \in DOMAIN payload =>
                                 k \in DOMAIN newest /\ payload[k] < newest[k]}
             /\ recorded' = recorded \cup {now}
        ELSE UNCHANGED <<samples, newest, broken, recorded>>
     /\ UNCHANGED count

\* The run ends with the retention, which may fail.
Prune(r) ==
  /\ run[r].pc = "recorded"
  /\ run' = [run EXCEPT ![r] = NoRun]
  /\ samples' \in {samples, Pruned}
  /\ UNCHANGED <<count, rich, newest, broken, recorded>>

CounterNext ==
  \E r \in Run : Fetch(r) \/ FetchCached(r) \/ Record(r) \/ Prune(r)
-----------------------------------------------------------------------------
(* the series and its deltas *)

\* get_counter_samples: the oldest rows of the window.
Window(since, until) ==
  LET T == {t \in DOMAIN samples : since <= t /\ t <= until}
  IN [t \in {t \in T : Cardinality({u \in T : u < t}) < Limit} |-> samples[t]]

\* _bucket_5min divides by the number of rows that have the key.
Bucketed(series) ==
  [b \in {BucketOf(t) : t \in DOMAIN series} |->
     LET T == {t \in DOMAIN series : BucketOf(t) = b}
     IN [k \in KeysOf(series, T) |->
           RoundedMean(Total(series, T, k), Cardinality(Having(series, T, k)))]]

\* _compute_deltas, _window_deltas and _counter_deltas: last less first, or a reset.
Deltas(series) ==
  LET T     == DOMAIN series
      first == series[Min(T)]
      last  == series[Max(T)]
  IN IF Cardinality(T) < 2 THEN << >>
     ELSE [k \in DOMAIN first \cap DOMAIN last |->
             IF last[k] < first[k] THEN "reset" ELSE "grown"]
-----------------------------------------------------------------------------
(* properties *)

\* The counters of the device, the rows and the runs hold what they may.
CountersTyped ==
  /\ count \in [Key -> Nat]
  /\ \A r \in Run : run[r].pc \in {"idle", "fetched", "recorded"} /\ IsPayload(run[r].payload)
  /\ DOMAIN samples \subseteq 0 .. now
  /\ \A t \in DOMAIN samples : IsPayload(samples[t]) /\ DOMAIN samples[t] # {}
  /\ IsPayload(rich) /\ IsPayload(newest) /\ broken \subseteq Key /\ recorded \subseteq 0 .. now

\* Retention invents no reset: a counter that every sample told and that never
\* fell from sample to sample shows none, over any window and in either
\* resolution, whichever of its rows were averaged.
NoFalseReset ==
  \A since, until \in DOMAIN samples : \A raw \in BOOLEAN :
    LET series == Window(since, until)
        deltas == Deltas(IF raw THEN series ELSE Bucketed(series))
    IN \A k \in DOMAIN deltas \ broken : deltas[k] # "reset"

\* Retention leaves no hole: for ArchiveFor every bucket with a sample keeps a row.
BucketsRemain ==
  \A t \in recorded :
    BucketOf(t) >= now - ArchiveFor => \E u \in DOMAIN samples : BucketOf(u) = BucketOf(t)
=============================================================================
