------------------------------- MODULE Compact -------------------------------
(***************************************************************************)
(* `jottrace compact`: event payloads stored raw are re-encoded with zstd, *)
(* one transaction per batch, while ingest runs and other compactions may  *)
(* come between any two statements: a dry run takes no lock, and the data  *)
(* lock of the others is not exclusive (see DataLock).                     *)
(*                                                                         *)
(* A payload is a token with the lengths of its two encodings; whether     *)
(* zstd gives the same bytes back is a constant, since the code does not   *)
(* take it for granted either.  VACUUM changes no row and is left out.     *)
(***************************************************************************)
EXTENDS Integers, FiniteSets, FiniteSetsExt, Functions

CONSTANTS
    Procs,       \* compact commands
    Keys,        \* primary keys <<session_id, generation, seq>>
    Payload,
    SizeOf,      \* the length of a payload
    ZstdSizeOf,  \* the length of its zstd encoding
    RoundTrips,  \* the payloads zstd gives back
    MinSize,     \* ZSTD_MIN_PAYLOAD_BYTES
    BatchSize,
    MaxFailures, \* bound on commands that end early
    NoKey

ASSUME KeyAssumption ==
    Keys \subseteq Nat \X Nat \X Nat /\ IsFiniteSet(Keys) /\ NoKey \notin Keys
ASSUME PayloadAssumption ==
    /\ SizeOf \in [Payload -> Nat] /\ ZstdSizeOf \in [Payload -> Nat]
    /\ RoundTrips \subseteq Payload /\ MinSize \in Nat
ASSUME CompactBoundAssumption ==
    BatchSize \in Nat \ {0} /\ MaxFailures \in Nat

VARIABLES
    events,   \* key -> [codec, of]: an encoding of the payload `of`
    pc, mode, cursor, updates, before, small, analysis,  \* of each command
    failures, \* history: commands that ended early
    atStart,  \* history: the keys present when a command began
    alone,    \* history: has nobody else changed events since it began?
    counted   \* history: how often a key was reported as converted

local == <<pc, mode, cursor, updates, before, small, analysis>>
vars == <<events, local, failures, atStart, alone, counted>>

------------------------------------------------------------------------------
(* Payloads and rows. *)

Row == [codec : {"raw", "zstd"}, of : Payload]

\* encode_event_payload.
Encoded(x) ==
    [codec |-> IF SizeOf[x] >= MinSize /\ ZstdSizeOf[x] < SizeOf[x]
               THEN "zstd" ELSE "raw",
     of |-> x]

\* Mutant of Plan: what was encoded is not decoded again.
PlanUnverified(x) ==
    IF Encoded(x).codec = "raw" THEN "not_smaller" ELSE "compact"

\* compact_raw_payload.
Plan(x) ==
    IF Encoded(x).codec = "raw" THEN "not_smaller"
    ELSE IF x \in RoundTrips THEN "compact"
    ELSE "round_trip_failed"

\* decode_event_payload: what a reader gets, a payload or something else.
Decode(row) ==
    IF row.codec = "raw" \/ row.of \in RoundTrips
    THEN [intact |-> TRUE, of |-> row.of]
    ELSE [intact |-> FALSE, of |-> row.of]

StoredSize(row) == IF row.codec = "raw" THEN SizeOf[row.of] ELSE ZstdSizeOf[row.of]
Saved(x) == SizeOf[x] - ZstdSizeOf[x]

\* ORDER BY session_id, generation, seq.
Before(j, k) ==
    \/ j[1] < k[1]
    \/ j[1] = k[1] /\ j[2] < k[2]
    \/ j[1] = k[1] /\ j[2] = k[2] /\ j[3] < k[3]

\* event_storage_stats.
Stats(table) ==
    [raw   |-> Cardinality({k \in DOMAIN table : table[k].codec = "raw"}),
     zstd  |-> Cardinality({k \in DOMAIN table : table[k].codec = "zstd"}),
     bytes |-> SumFunction([k \in DOMAIN table |-> StoredSize(table[k])])]

\* Mutant of SmallRaw: a payload of exactly the minimum is counted as small.
SmallRawInclusive(table) ==
    Cardinality({k \in DOMAIN table :
                    table[k].codec = "raw" /\ SizeOf[table[k].of] <= MinSize})

\* count_small_raw_events.
SmallRaw(table) ==
    Cardinality({k \in DOMAIN table :
                    table[k].codec = "raw" /\ SizeOf[table[k].of] < MinSize})

\* Mutant of Candidates: the pages are cut by seq alone.
CandidatesBySeq(table, c) ==
    {k \in DOMAIN table :
        /\ table[k].codec = "raw" /\ SizeOf[table[k].of] >= MinSize
        /\ c # NoKey => c[3] < k[3]}

\* The rows raw_event_batch selects from.
Candidates(table, c) ==
    {k \in DOMAIN table :
        /\ table[k].codec = "raw" /\ SizeOf[table[k].of] >= MinSize
        /\ c # NoKey => Before(c, k)}

\* LIMIT.
FirstOf(S) == {k \in S : Cardinality({j \in S : Before(j, k)}) < BatchSize}
LastOf(S) == CHOOSE k \in S : \A j \in S : j = k \/ Before(j, k)

\* Mutant of Updated: the update does not ask whether the row is still raw.
UpdatedAnyCodec(table, todo) == DOMAIN todo \cap DOMAIN table

\* Mutant of Updated: the wrong codec is bound to the WHERE clause.
UpdatedIfZstd(table, todo) ==
    {k \in DOMAIN todo \cap DOMAIN table : table[k].codec = "zstd"}

\* The rows the UPDATE statements of a batch change: those still raw.
Updated(table, todo) ==
    {k \in DOMAIN todo \cap DOMAIN table : table[k].codec = "raw"}

------------------------------------------------------------------------------
NoAnalysis == [eligible |-> 0, notSmaller |-> 0, failed |-> 0,
               converted |-> 0, saved |-> 0]
NoStats == [raw |-> 0, zstd |-> 0, bytes |-> 0]

\* Rows written before zstd was supported are raw whatever their payload.
Init ==
    /\ \E K \in SUBSET Keys : \E x \in [K -> Payload] : \E legacy \in SUBSET K :
          events = [k \in K |-> IF k \in legacy THEN [codec |-> "raw", of |-> x[k]]
                                ELSE Encoded(x[k])]
    /\ pc = [p \in Procs |-> "idle"]
    /\ mode = [p \in Procs |-> "dry"]
    /\ cursor = [p \in Procs |-> NoKey]
    /\ updates = [p \in Procs |-> << >>]
    /\ before = [p \in Procs |-> NoStats]
    /\ small = [p \in Procs |-> 0]
    /\ analysis = [p \in Procs |-> NoAnalysis]
    /\ failures = 0
    /\ atStart = [p \in Procs |-> {}]
    /\ alone = [p \in Procs |-> TRUE]
    /\ counted = [k \in Keys |-> 0]

\* Somebody else changed the events while the others were at work.
Disturb(p) == alone' = [q \in Procs |-> pc[q] = "idle" \/ (q = p /\ alone[q])]

\* run_compact_with_diagnostics up to open_database.
Begin(p, m) ==
    /\ pc[p] = "idle"
    /\ pc' = [pc EXCEPT ![p] = "stats"]
    /\ mode' = [mode EXCEPT ![p] = m]
    /\ atStart' = [atStart EXCEPT ![p] = DOMAIN events]
    /\ UNCHANGED <<events, cursor, updates, before, small, analysis, failures,
                   alone, counted>>

ReadStats(p) ==
    /\ pc[p] = "stats"
    /\ pc' = [pc EXCEPT ![p] = "small"]
    /\ before' = [before EXCEPT ![p] = Stats(events)]
    /\ UNCHANGED <<events, mode, cursor, updates, small, analysis, failures,
                   atStart, alone, counted>>

CountSmall(p) ==
    /\ pc[p] = "small"
    /\ pc' = [pc EXCEPT ![p] = "scan"]
    /\ small' = [small EXCEPT ![p] = SmallRaw(events)]
    /\ UNCHANGED <<events, mode, cursor, updates, before, analysis, failures,
                   atStart, alone, counted>>

\* One page: read it, plan each payload; a dry run adds up the savings.
Scan(p) ==
    LET page == FirstOf(Candidates(events, cursor[p]))
        Planned(w) == {k \in page : Plan(events[k].of) = w}
        dry == mode[p] = "dry"
        a == analysis[p]
    IN
    /\ pc[p] = "scan"
    /\ page # {}
    /\ pc' = [pc EXCEPT ![p] = IF dry THEN "scan" ELSE "apply"]
    /\ cursor' = [cursor EXCEPT ![p] = LastOf(page)]
    /\ updates' = [updates EXCEPT ![p] =
          IF dry THEN << >> ELSE [k \in Planned("compact") |-> events[k].of]]
    /\ analysis' = [analysis EXCEPT ![p] =
          [eligible   |-> a.eligible + Cardinality(Planned("compact")),
           notSmaller |-> a.notSmaller + Cardinality(Planned("not_smaller")),
           failed     |-> a.failed + Cardinality(Planned("round_trip_failed")),
           converted  |-> a.converted,
           saved      |-> IF dry
               THEN a.saved + SumFunction([k \in Planned("compact") |-> Saved(events[k].of)])
               ELSE a.saved]]
    /\ UNCHANGED <<events, mode, before, small, failures, atStart, alone, counted>>

\* apply_update_batch: one transaction.
Apply(p) ==
    LET done == Updated(events, updates[p])
        a == analysis[p]
    IN
    /\ pc[p] = "apply"
    /\ events' = [k \in DOMAIN events |->
          IF k \in done THEN [codec |-> "zstd", of |-> updates[p][k]] ELSE events[k]]
    /\ pc' = [pc EXCEPT ![p] = "scan"]
    /\ updates' = [updates EXCEPT ![p] = << >>]
    /\ analysis' = [analysis EXCEPT ![p] =
          [eligible   |-> a.eligible,
           notSmaller |-> a.notSmaller,
           failed     |-> a.failed,
           converted  |-> a.converted + Cardinality(done),
           saved      |-> a.saved + SumFunction([k \in done |-> Saved(updates[p][k])])]]
    /\ counted' = [k \in Keys |-> IF k \in done THEN counted[k] + 1 ELSE counted[k]]
    /\ IF done = {} THEN UNCHANGED alone ELSE Disturb(p)
    /\ UNCHANGED <<mode, cursor, before, small, failures, atStart>>

\* The page is empty: the report is made.
Finish(p) ==
    /\ pc[p] = "scan"
    /\ Candidates(events, cursor[p]) = {}
    /\ pc' = [pc EXCEPT ![p] = "done"]
    /\ UNCHANGED <<events, mode, cursor, updates, before, small, analysis, failures,
                   atStart, alone, counted>>

\* What a command knew is lost when it ends.
Forget(p) ==
    /\ pc' = [pc EXCEPT ![p] = "idle"]
    /\ mode' = [mode EXCEPT ![p] = "dry"]
    /\ cursor' = [cursor EXCEPT ![p] = NoKey]
    /\ updates' = [updates EXCEPT ![p] = << >>]
    /\ before' = [before EXCEPT ![p] = NoStats]
    /\ small' = [small EXCEPT ![p] = 0]
    /\ analysis' = [analysis EXCEPT ![p] = NoAnalysis]
    /\ atStart' = [atStart EXCEPT ![p] = {}]
    /\ alone' = [alone EXCEPT ![p] = TRUE]
    /\ UNCHANGED <<events, counted>>

Leave(p) ==
    /\ pc[p] = "done"
    /\ Forget(p)
    /\ UNCHANGED failures

\* The process is killed or a statement fails: an open transaction is undone.
Fail(p) ==
    /\ pc[p] \notin {"idle", "done"}
    /\ failures < MaxFailures
    /\ failures' = failures + 1
    /\ Forget(p)

\* An ingest run adds an event.
Insert(k, x) ==
    /\ k \in Keys \ DOMAIN events
    /\ events' = [j \in DOMAIN events \cup {k} |-> IF j = k THEN Encoded(x) ELSE events[j]]
    /\ alone' = [q \in Procs |-> pc[q] = "idle"]
    /\ UNCHANGED <<local, failures, atStart, counted>>

Step(p) ==
    \/ ReadStats(p) \/ CountSmall(p) \/ Scan(p) \/ Apply(p) \/ Finish(p) \/ Leave(p)

Next ==
    \/ \E p \in Procs : Step(p) \/ Fail(p) \/ \E m \in {"dry", "apply"} : Begin(p, m)
    \/ \E k \in Keys : \E x \in Payload : Insert(k, x)

Spec == Init /\ [][Next]_vars

\* A command that has begun goes on; somebody keeps applying.
FairSpec ==
    Spec /\ \A p \in Procs : WF_vars(Step(p)) /\ SF_vars(Begin(p, "apply"))

------------------------------------------------------------------------------
(* Properties. *)

StatsType == [raw : Nat, zstd : Nat, bytes : Nat]
AnalysisType ==
    [eligible : Nat, notSmaller : Nat, failed : Nat, converted : Nat, saved : Nat]

TypeOK ==
    /\ DOMAIN events \subseteq Keys
    /\ events \in [DOMAIN events -> Row]
    /\ pc \in [Procs -> {"idle", "stats", "small", "scan", "apply", "done"}]
    /\ mode \in [Procs -> {"dry", "apply"}]
    /\ cursor \in [Procs -> Keys \cup {NoKey}]
    /\ updates = [p \in Procs |-> updates[p]]
    /\ \A p \in Procs : /\ DOMAIN updates[p] \subseteq Keys
                        /\ updates[p] \in [DOMAIN updates[p] -> RoundTrips]
    /\ before \in [Procs -> StatsType]
    /\ small \in [Procs -> Nat]
    /\ analysis \in [Procs -> AnalysisType]
    /\ atStart \in [Procs -> SUBSET Keys]
    /\ alone \in [Procs -> BOOLEAN]
    /\ counted \in [Keys -> Nat]
    /\ failures \in 0 .. MaxFailures

\* Whatever batches, failures, other compactions and ingest runs do, no event
\* is removed and every one decodes to what it decoded to before.
PayloadsKept ==
    [][\A k \in DOMAIN events :
          k \in DOMAIN events' /\ Decode(events'[k]) = Decode(events[k])]_vars

\* The rows a finished run had before it that could still be compacted.
LeftOver(p) ==
    {k \in atStart[p] :
        events[k].codec = "raw" /\ SizeOf[events[k].of] >= MinSize
        /\ Plan(events[k].of) = "compact"}

\* A run that applies and ends has left nothing of what it found, also when it
\* takes up where an earlier one failed, and although the pages it cuts the
\* table into lose rows while it works.
NothingLeftOver ==
    \A p \in Procs : pc[p] = "done" /\ mode[p] = "apply" => LeftOver(p) = {}

\* No event is reported as converted twice, not even by two commands that have
\* read the same page.
CountedOnce == \A k \in Keys : counted[k] <= 1

\* compacted_storage_estimate.
Estimate(p) ==
    LET n == IF mode[p] = "dry" THEN analysis[p].eligible ELSE analysis[p].converted
    IN  [raw   |-> Max({0, before[p].raw - n}),
         zstd  |-> before[p].zstd + n,
         bytes |-> Max({0, before[p].bytes - analysis[p].saved})]

\* The table once everything that can be is compacted.
Compacted(table) ==
    [k \in DOMAIN table |->
        IF table[k].codec = "raw" /\ SizeOf[table[k].of] >= MinSize
           /\ Plan(table[k].of) = "compact"
        THEN [codec |-> "zstd", of |-> table[k].of] ELSE table[k]]

\* The report is computed from what was read before and counted on the way, not
\* read again.  It is nevertheless exact, for a dry run about what applying would
\* do, and accounts for every raw event, when nobody else wrote meanwhile.
ReportIsExact ==
    \A p \in Procs :
        pc[p] = "done" /\ alone[p] =>
            /\ Estimate(p) = Stats(Compacted(events))
            /\ before[p].raw = analysis[p].eligible + small[p]
                                 + analysis[p].notSmaller + analysis[p].failed

\* If somebody keeps applying, everything that can be compacted is, although
\* commands fail between their batches.
EventuallyCompact ==
    <>[](\A k \in DOMAIN events :
            events[k].codec = "zstd" \/ SizeOf[events[k].of] < MinSize
            \/ Plan(events[k].of) # "compact")
==============================================================================
