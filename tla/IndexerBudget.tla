--------------------------- MODULE IndexerBudget ---------------------------
(***************************************************************************)
(* The request allowance of one indexer.  Every call is written to a       *)
(* ledger before it is sent; a call counts for a rolling day, an automatic *)
(* one for a rolling half day as well.  A daily cap is divided between     *)
(* interactive searches, RSS, searches and headroom; without a cap only    *)
(* the provider's own delays hold.  The cap may change at any time and     *)
(* the ledger stays.                                                       *)
(*                                                                         *)
(* The ledger is kept by age, so that a step of time moves every entry.    *)
(* RSS calls and interactive searches are never automatic, and an          *)
(* automatic call always asks for the search share.                        *)
(***************************************************************************)
EXTENDS Integers, Sequences, FiniteSetsExt

CONSTANTS
    Day, HalfDay,     \* the two windows, in steps of time
    Caps,             \* the caps an operator chooses from; 0 is no cap
    InteractiveDivisor, InteractiveMost, RSSMost, SearchMost, \* 10, 20, 96 and 100
    MaxCalls,         \* bound: entries of the ledger
    MaxDelay,         \* bound: a provider's delay
    Horizon           \* bound: requests of a forecast

ASSUME BudgetAssumption ==
    /\ Day \in Nat /\ HalfDay \in 1 .. Day
    /\ Caps \subseteq Nat
    /\ {InteractiveDivisor, InteractiveMost, RSSMost, SearchMost} \subseteq Nat \ {0}
    /\ {MaxCalls, MaxDelay, Horizon} \subseteq Nat

VARIABLES
    dailyCap,     \* indexers.daily_request_cap
    budgetLedger,       \* indexer_request_usage: entries per charge and age
    retryIn,      \* indexers.retry_at, from now
    rssIn,        \* indexers.next_rss_at, from now
    callHeld,     \* the indexer's request lock is held: a call is on the wire
    rssSweep      \* SyncRSS: idle, or the interval it read with the due time

budgetVars == <<dailyCap, budgetLedger, retryIn, rssIn, callHeld, rssSweep>>

Charges == [bucket : {"rss", "interactive", "headroom", "search"}, automatic : {FALSE}]
           \cup {[bucket |-> "search", automatic |-> TRUE]}
Ages == 0 .. Day - 1

Least(a, b) == IF a < b THEN a ELSE b
Most(a, b) == IF a > b THEN a ELSE b

RequestBudget(cap) ==
    LET i == Least(InteractiveMost, cap \div InteractiveDivisor)
        r == Least(RSSMost, (cap - i) \div 2)
        s == Least(SearchMost, Most(0, cap - i - r))
    IN  [unlimited |-> cap = 0, total |-> cap, interactive |-> i, rss |-> r, search |-> s,
         headroom |-> cap - i - r - s,
         interval |-> IF cap = 0 \/ r = 0 THEN 1 ELSE (Day + r - 1) \div r]

Budget == RequestBudget(dailyCap)

\* The ledger `age' steps from now, if no call is made in between.
Aged(l, age) == [c \in Charges |-> [a \in Ages |-> IF a < age THEN 0 ELSE l[c][a - age]]]

Count(l, charges, ages) == MapThenSumSet(LAMBDA p : l[p[1]][p[2]], charges \X ages)
OfBucket(buckets) == {c \in Charges : c.bucket \in buckets}
Used(l, bucket) == Count(l, OfBucket({bucket}), Ages)
Total(l) == Count(l, Charges, Ages)
Short(l) == Count(l, {c \in Charges : c.automatic}, 0 .. HalfDay - 1)

\* Under the cap as a whole, and for searches under the part of it that is not
\* the RSS share, whatever earlier caps let through.
SearchPoolAvailable(l) == Total(l) - Used(l, "rss") < Budget.total - Budget.rss

\* The bucket a request is charged to; {} when it is refused.
ChargedTo(l, bucket, automatic) ==
    IF Budget.unlimited THEN {bucket}
    ELSE IF Total(l) >= Budget.total \/ (bucket # "rss" /\ ~SearchPoolAvailable(l)) THEN {}
    ELSE CASE bucket = "rss" -> IF Used(l, "rss") < Budget.rss THEN {"rss"} ELSE {}
           [] bucket = "search" ->
                IF /\ Used(l, "search") < Budget.search
                   /\ automatic => Short(l) < (Budget.search + 1) \div 2
                THEN {"search"} ELSE {}
           [] bucket = "interactive" ->
                IF Used(l, "interactive") < Budget.interactive THEN {"interactive"}
                ELSE IF Used(l, "headroom") < Budget.headroom THEN {"headroom"}
                ELSE IF Used(l, "search") < Budget.search THEN {"search"} ELSE {}

AdmittedCall(l, bucket, automatic) == retryIn = 0 /\ ChargedTo(l, bucket, automatic) # {}

\* The delay of a refusal (BudgetDeferred): the provider's, or until the first
\* entry leaves the day or, for automatic work, the half day.
DeferredFor(l, automatic) ==
    LET present(charges, ages) == {a \in ages : \E c \in charges : l[c][a] > 0}
        first(ages, window, none) == IF ages = {} THEN none ELSE window - Max(ages)
        next == first(present(Charges, Ages), Day, Day)
        short == first(present({c \in Charges : c.automatic}, 0 .. HalfDay - 1), HalfDay, HalfDay)
    IN  IF retryIn > 0 THEN retryIn
        ELSE IF automatic /\ Short(l) > 0 THEN Least(short, next) ELSE next

Charge(bucket, automatic) ==
    budgetLedger' = [budgetLedger EXCEPT ![[bucket |-> bucket, automatic |-> automatic]][0] = @ + 1]

\* The gate in front of every call: the request lock, then the reservation.
ReserveIndexerRequest(bucket, automatic) ==
    /\ callHeld = FALSE
    /\ retryIn = 0
    /\ Total(budgetLedger) < MaxCalls
    /\ \E b \in ChargedTo(budgetLedger, bucket, automatic) : Charge(b, automatic)
    /\ callHeld' = TRUE

Search(request) ==
    /\ ReserveIndexerRequest(request.bucket, request.automatic)
    /\ UNCHANGED <<dailyCap, retryIn, rssIn, rssSweep>>

\* The answer of a call may carry a retry time, which only ever moves forward.
SetIndexerRetryAt == retryIn' \in {retryIn} \cup {Most(retryIn, d) : d \in 1 .. MaxDelay}

RememberIndexerDelay ==
    /\ callHeld
    /\ callHeld' = FALSE
    /\ SetIndexerRetryAt
    /\ UNCHANGED <<dailyCap, budgetLedger, rssIn, rssSweep>>

RSSDue == rssIn = 0 /\ retryIn = 0 /\ (Budget.unlimited \/ Budget.rss > 0)

SyncRSSReadsDue ==
    /\ rssSweep = {}
    /\ RSSDue
    /\ rssSweep' = {Budget.interval}
    /\ UNCHANGED <<dailyCap, budgetLedger, retryIn, rssIn, callHeld>>

MarkRSSDispatched(interval) == rssIn' = interval

\* The next due time counts from the dispatch, also when the call was refused.
SyncRSSFetches ==
    /\ \/ ReserveIndexerRequest("rss", FALSE)
       \/ ~AdmittedCall(budgetLedger, "rss", FALSE) /\ UNCHANGED <<budgetLedger, callHeld>>
    /\ \E i \in rssSweep : MarkRSSDispatched(i)
    /\ rssSweep' = {}
    /\ UNCHANGED <<dailyCap, retryIn>>

\* The capability probe in front of the fetch is charged like it; when it
\* fails the sweep skips the indexer and marks nothing.
SyncRSSProbes ==
    /\ rssSweep # {}
    /\ \/ ReserveIndexerRequest("rss", FALSE) /\ rssSweep' \in {rssSweep, {}}
       \/ ~AdmittedCall(budgetLedger, "rss", FALSE) /\ rssSweep' = {} /\ UNCHANGED <<budgetLedger, callHeld>>
    /\ UNCHANGED <<dailyCap, retryIn, rssIn>>

SetDailyRequestCap(cap) ==
    /\ cap # dailyCap
    /\ dailyCap' = cap
    /\ UNCHANGED <<budgetLedger, retryIn, rssIn, callHeld, rssSweep>>

TimePasses ==
    /\ budgetLedger' = Aged(budgetLedger, 1)
    /\ retryIn' = Most(0, retryIn - 1)
    /\ rssIn' = Most(0, rssIn - 1)
    /\ UNCHANGED <<dailyCap, callHeld, rssSweep>>

(* The forecast of a season comparison *)

\* Mutant: interactive calls in excess of their share are forgotten.
SearchReleasesOnly(t) == Count(budgetLedger, OfBucket({"search"}), 0 .. Day - 1 - t)

\* What is still charged against the search share `t' steps from now: searches,
\* and the oldest interactive calls the interactive share and the headroom
\* cannot hold.
DayReleases(t) ==
    LET manual == OfBucket({"interactive", "headroom"})
        held(n) == Count(budgetLedger, OfBucket({"search"}), 0 .. Day - 1 - n)
        overflow == Most(0, Count(budgetLedger, manual, Ages) - Budget.interactive - Budget.headroom)
        released(n) == Count(budgetLedger, manual, {a \in Ages : a >= Day - n})
    IN  held(t) + Most(0, overflow - released(t))

HalfReleases(t) == Count(budgetLedger, {c \in Charges : c.automatic}, 0 .. HalfDay - 1 - t)

\* One pool for a manual comparison: interactive, headroom and search.
ManualReleases(t) == Count(budgetLedger, OfBucket({"interactive", "headroom", "search"}), 0 .. Day - 1 - t)

Offsets == 0 .. Day * Horizon

\* When each of the requests 1 .. n can be made, one after the other: the first
\* step at which the searches already made leave room in both windows.
ForecastFinish(pool, halfCap, day, half, n) ==
    LET slots[k \in 0 .. n] ==
          IF k = 0 THEN <<>>
          ELSE LET made == slots[k - 1]
                   within(window, t) == Cardinality({j \in 1 .. k - 1 : t < made[j] + window})
                   first == IF k = 1 THEN 0 ELSE made[k - 1]
                   room(t) == /\ day[t] + within(Day, t) < pool
                              /\ half[t] + within(HalfDay, t) < halfCap
               IN  Append(made, Min({t \in first .. first + Day : room(t)}))
    IN  slots[n]

FeasibleFinish(n) ==
    ForecastFinish(Budget.search, (Budget.search + 1) \div 2,
                   [t \in Offsets |-> DayReleases(t)], [t \in Offsets |-> HalfReleases(t)], n)

FeasibleFinishManual(n) ==
    LET pool == Budget.interactive + Budget.headroom + Budget.search
    IN  ForecastFinish(pool, pool + 1, [t \in Offsets |-> ManualReleases(t)], [t \in Offsets |-> 0], n)

-----------------------------------------------------------------------------

BudgetRequests == {[bucket |-> "search", automatic |-> TRUE], [bucket |-> "interactive", automatic |-> FALSE]}

BudgetInit ==
    /\ dailyCap \in Caps
    /\ budgetLedger = [c \in Charges |-> [a \in Ages |-> 0]]
    /\ retryIn = 0
    /\ rssIn = 0
    /\ callHeld = FALSE
    /\ rssSweep = {}

BudgetNext ==
    \/ \E request \in BudgetRequests : Search(request)
    \/ RememberIndexerDelay
    \/ SyncRSSReadsDue
    \/ SyncRSSProbes
    \/ SyncRSSFetches
    \/ \E cap \in Caps : SetDailyRequestCap(cap)
    \/ TimePasses

BudgetSpec == BudgetInit /\ [][BudgetNext]_budgetVars

-----------------------------------------------------------------------------

\* While RSS stays within its share, the forecast of a comparison is met: each
\* request is let through at the step the forecast gives it, if the requests
\* before it were made when it said (RequestCapacity and
\* ManualRequestCapacity against ReserveIndexerRequest).
ForecastIsMet ==
    ~Budget.unlimited /\ Used(budgetLedger, "rss") <= Budget.rss =>
        \A request \in BudgetRequests, n \in 1 .. Horizon :
            LET slots == IF request.automatic THEN FeasibleFinish(n) ELSE FeasibleFinishManual(n)
                run[k \in 1 .. n] ==
                    IF k = 1 THEN Aged(budgetLedger, slots[1])
                    ELSE LET before == run[k - 1]
                             b == CHOOSE x \in ChargedTo(before, request.bucket, request.automatic) : TRUE
                         IN  Aged([before EXCEPT ![[bucket |-> b, automatic |-> request.automatic]][0] = @ + 1],
                                  slots[k] - slots[k - 1])
            IN  \A k \in 1 .. n :
                    (\A j \in 1 .. k - 1 : ChargedTo(run[j], request.bucket, request.automatic) # {}) =>
                        ChargedTo(run[k], request.bucket, request.automatic) # {}

BudgetTypeOK ==
    /\ dailyCap \in Caps
    /\ budgetLedger \in [Charges -> [Ages -> 0 .. MaxCalls]]
    /\ retryIn \in 0 .. MaxDelay
    /\ rssIn \in Nat
    /\ callHeld \in BOOLEAN
    /\ rssSweep \subseteq 1 .. Day
=============================================================================
