------------------------------ MODULE Overview ------------------------------
(***************************************************************************)
(* The dashboard's summary (stats.go Overview) and the cache in front of it.  *)
(* The revision of the database is a sequence that triggers of migrations 072   *)
(* and 074 advance when a statement runs, before its transaction commits; the   *)
(* summary is computed by several queries outside of one snapshot and shared     *)
(* by the requests that miss at once (singleflight).  Time passes in ticks; one    *)
(* accrual day.                                                              *)
(***************************************************************************)
EXTENDS Naturals, FiniteSets

CONSTANTS
    Readers,      \* requests of the dashboard
    Ledgers,      \* transactions that write what the summary reads
    DashYears,    \* the years asked for
    CacheTTL,     \* overviewCacheTTL
    CalcTimeout,  \* the time limit of a calculation
    LastTick,     \* bound: time
    LastRevision, \* bound: statements that advance the sequence
    MaxFlights    \* bound: calculations at a time

ASSUME OverviewAssumption ==
    {CacheTTL, CalcTimeout, LastTick, LastRevision, MaxFlights} \subseteq Nat /\ CacheTTL # 0

VARIABLES
    revision,  \* last_value of overview_revision_seq
    ledger,    \* the transactions: where they are, when they committed, and whether
               \* no trigger watches their table (vehicle_pauses, vehicle_rate_changes)
    cache,     \* overviewCacheRevision and overviewCache
    reader,    \* requests in flight
    flights,   \* overviewGroup: the calculations that run
    tick

overviewVars == <<revision, ledger, cache, reader, flights, tick>>

Committed == { w \in Ledgers : ledger[w].at = "committed" }
Quiet     == { w \in Ledgers : ledger[w].quiet }
Written   == { w \in Ledgers : ledger[w].at = "written" }

\* seen: the writes a body or the years show; open (history): those in flight
\* when the revision they belong to was read.
NoYears  == [seen |-> {}, open |-> {}, loadedAt |-> 0]
NoSummary == [filled |-> FALSE, seen |-> {}, open |-> {}, storedAt |-> 0, years |-> NoYears]
NoAsk    == [at |-> "out", revision |-> 0, year |-> 0, askedAt |-> 0, known |-> {}, open |-> {}, years |-> NoYears, seen |-> {}]

YearsMeta == [seen : SUBSET Ledgers, open : SUBSET Ledgers, loadedAt : Nat]
OverviewTypeOK ==
    /\ revision \in Nat /\ tick \in 0 .. LastTick
    /\ ledger \in [Ledgers -> [at : {"idle", "written", "committed"}, on : Nat, quiet : BOOLEAN]]
    /\ cache \in [revision : Nat, rows : [DashYears -> [filled : BOOLEAN, seen : SUBSET Ledgers, open : SUBSET Ledgers,
                                                        storedAt : Nat, years : YearsMeta]]]
    /\ \A r \in Readers : reader[r].at \in {"out", "asked", "years", "waits", "answered"}
    /\ flights \subseteq [revision : Nat, year : DashYears, started : Nat, years : YearsMeta, open : SUBSET Ledgers,
                          reads : 0 .. 2, seen : SUBSET Ledgers]
    /\ \A f, g \in flights : f.revision = g.revision /\ f.year = g.year => f = g

OverviewInit ==
    /\ revision = 1
    /\ ledger \in [Ledgers -> [at : {"idle"}, on : {0}, quiet : BOOLEAN]]
    /\ cache = [revision |-> 0, rows |-> [y \in DashYears |-> NoSummary]]
    /\ reader = [r \in Readers |-> NoAsk]
    /\ flights = {}
    /\ tick = 0

-----------------------------------------------------------------------------
\* The writers.

WriteLedger(w) ==
    /\ ledger[w].at = "idle" /\ revision < LastRevision
    /\ ledger' = [ledger EXCEPT ![w].at = "written"]
    /\ revision' = IF ledger[w].quiet THEN revision ELSE revision + 1
    /\ UNCHANGED <<cache, reader, flights, tick>>

CommitLedger(w) ==
    /\ ledger[w].at = "written"
    /\ ledger' = [ledger EXCEPT ![w].at = "committed", ![w].on = tick]
    /\ UNCHANGED <<revision, cache, reader, flights, tick>>

RollbackLedger(w) ==
    /\ ledger[w].at = "written"
    /\ ledger' = [ledger EXCEPT ![w].at = "idle"]
    /\ UNCHANGED <<revision, cache, reader, flights, tick>>

-----------------------------------------------------------------------------
\* The cache.

\* Mutant: the age of the years does not count.
MutantFreshAt(years) == TRUE
FreshAt(years) == tick - years.loadedAt < CacheTTL

RowValid(y, rev) ==
    LET row == cache.rows[y]
    IN  /\ cache.revision = rev
        /\ row.filled
        /\ tick - row.storedAt < CacheTTL
        /\ FreshAt(row.years)

Filled(y, f) ==
    [filled |-> TRUE, seen |-> f.seen, open |-> f.open, storedAt |-> tick, years |-> f.years]
StoreOverview(f) ==
    IF revision # f.revision THEN cache
    ELSE [revision |-> f.revision,
          rows |-> [y \in DashYears |-> IF y = f.year THEN Filled(y, f)
                                        ELSE IF cache.revision # f.revision THEN NoSummary ELSE cache.rows[y]]]

-----------------------------------------------------------------------------
\* A request.

OverviewRevision(r) ==
    /\ reader[r].at \in {"out", "answered"}
    /\ reader' = [reader EXCEPT ![r] = [NoAsk EXCEPT !.at = "asked", !.revision = revision, !.askedAt = tick,
                                                     !.known = Committed, !.open = Written]]
    /\ UNCHANGED <<revision, ledger, cache, flights, tick>>

LoadDashboardYears(r) == [seen |-> Committed, open |-> reader[r].open, loadedAt |-> tick]

\* The years of a valid row of the cache, else a query of their own.
CachedOverviewYears(r) ==
    /\ reader[r].at = "asked"
    /\ LET rows == { y \in DashYears : RowValid(y, reader[r].revision) }
       IN  \/ \E y \in rows : reader' = [reader EXCEPT ![r].at = "years", ![r].years = cache.rows[y].years]
           \/ /\ rows = {}
              /\ reader' = [reader EXCEPT ![r].at = "years", ![r].years = LoadDashboardYears(r)]
    /\ UNCHANGED <<revision, ledger, cache, flights, tick>>

Answer(r, row) == [reader EXCEPT ![r].at = "answered", ![r].seen = row.seen, ![r].open = row.open, ![r].years = row.years]

ServeCached(r, y) ==
    /\ reader[r].at = "years"
    /\ RowValid(y, reader[r].revision)
    /\ reader' = Answer(r, cache.rows[y])
    /\ UNCHANGED <<revision, ledger, cache, flights, tick>>

SameFlight(r, y) == { f \in flights : f.revision = reader[r].revision /\ f.year = y }
JoinFlight(r, y) ==
    /\ reader[r].at = "years"
    /\ ~RowValid(y, reader[r].revision)
    /\ SameFlight(r, y) # {} \/ Cardinality(flights) < MaxFlights
    /\ flights' = IF SameFlight(r, y) # {} THEN flights
                  ELSE flights \cup { [revision |-> reader[r].revision, year |-> y, started |-> tick,
                                       years |-> reader[r].years, open |-> reader[r].open, reads |-> 0, seen |-> Ledgers] }
    /\ reader' = [reader EXCEPT ![r].at = "waits", ![r].year = y]
    /\ UNCHANGED <<revision, ledger, cache, tick>>

\* Each query reads what is committed by then: the body shows fully what all of
\* its queries (two here) saw.
OverviewUncached(f) ==
    /\ f.reads < 2
    /\ flights' = (flights \ {f}) \cup { [f EXCEPT !.reads = @ + 1, !.seen = @ \cap Committed] }
    /\ UNCHANGED <<revision, ledger, cache, reader, tick>>

Waiting(f) == { r \in Readers : reader[r].at = "waits" /\ reader[r].revision = f.revision /\ reader[r].year = f.year }
FinishFlight(f) ==
    /\ f.reads = 2
    /\ cache' = StoreOverview(f)
    /\ reader' = [r \in Readers |-> IF r \in Waiting(f) THEN Answer(r, Filled(f.year, f))[r] ELSE reader[r]]
    /\ flights' = flights \ {f}
    /\ UNCHANGED <<revision, ledger, tick>>

FailFlight(f) ==
    /\ reader' = [r \in Readers |-> IF r \in Waiting(f) THEN NoAsk ELSE reader[r]]
    /\ flights' = flights \ {f}
    /\ UNCHANGED <<revision, ledger, cache, tick>>

\* The client leaves; the calculation goes on without it.
LeaveOverview(r) ==
    /\ reader[r].at \in {"asked", "waits"}
    /\ reader' = [reader EXCEPT ![r] = NoAsk]
    /\ UNCHANGED <<revision, ledger, cache, flights, tick>>

\* No calculation outlives its time limit, and between the years and the
\* lookup a request works in memory alone.
Elapse ==
    /\ tick < LastTick
    /\ \A f \in flights : tick - f.started < CalcTimeout
    /\ \A r \in Readers : reader[r].at # "years"
    /\ tick' = tick + 1
    /\ UNCHANGED <<revision, ledger, cache, reader, flights>>

OverviewNext ==
    \/ \E w \in Ledgers : WriteLedger(w) \/ CommitLedger(w) \/ RollbackLedger(w)
    \/ \E r \in Readers : OverviewRevision(r) \/ CachedOverviewYears(r) \/ LeaveOverview(r)
                           \/ \E y \in DashYears : ServeCached(r, y) \/ JoinFlight(r, y)
    \/ \E f \in flights : OverviewUncached(f) \/ FinishFlight(f) \/ FailFlight(f)
    \/ Elapse

OverviewSpec == OverviewInit /\ [][OverviewNext]_overviewVars

-----------------------------------------------------------------------------
Missed(part, r) == reader[r].known \ part.seen
Excused(part, r) ==
    \A w \in Missed(part, r) : w \in part.open \cup Quiet /\ reader[r].askedAt < ledger[w].on + CacheTTL + CalcTimeout

\* What a request misses of the writes committed before it was in flight when
\* the answer's revision was read, or no trigger tells of it; and it is never
\* older than the time to live and one calculation (stats.go Overview,
\* cachedOverview, freshAt: "the TTL bounds that staleness instead of letting
\* it last until the next write").
OverviewIsRecent ==
    \A r \in Readers : reader[r].at = "answered" => Excused(reader[r], r) /\ Excused(reader[r].years, r)
=============================================================================
