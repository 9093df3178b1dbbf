----------------------------- MODULE Analytics ------------------------------
(***************************************************************************)
(* The read-only reports over an audited execution: counts, durations, SLA *)
(* compliance, escalations and the exposed counters, each computed from    *)
(* the rows the way its query computes it.  The scope is one execution, so *)
(* a count of executions is 0 or 1; filters by workflow, version and range *)
(* select executions and rows whole, and are left out.  Averages are kept  *)
(* as totals and counts.                                                   *)
(***************************************************************************)
EXTENDS AuditedExecution, SequencesExt

CONSTANT AnyState  \* the filter state=None

ASSUME AnyStateAssumption == AnyState \notin States

Count(condition) == IF condition THEN 1 ELSE 0

RateOf(part, whole) == IF whole = 0 THEN Never ELSE (part * 100) \div whole

-----------------------------------------------------------------------------
(* Duration statistics.                                                    *)

\* Python's round: to the nearest integer, halves to the even one.
RoundedQuotient(a, b) ==
  LET q == a \div b
      r == a % b
  IN  IF 2 * r < b \/ (2 * r = b /\ q % 2 = 0) THEN q ELSE q + 1

\* Variant: the rank is not lowered to an index.
RankUnlowered(n, percent) == RoundedQuotient(percent * n, 100) + 1

\* _quantile: the position, from 1, that it reads in a list of n values.
Rank(n, percent) ==
  LET index == RoundedQuotient(percent * n, 100) - 1
      positive == IF index < 0 THEN 0 ELSE index
  IN  1 + IF positive < n - 1 THEN positive ELSE n - 1

\* The nearest rank: the least position with that share at or below it.
NearestRank(n, percent) == (percent * n + 99) \div 100

\* sorted: fewer than k values lie below the k-th, and at least k not above.
Ordered(values) ==
  [k \in DOMAIN values |->
     CHOOSE v \in {values[i] : i \in DOMAIN values} :
       /\ Cardinality({i \in DOMAIN values : values[i] < v}) < k
       /\ k <= Cardinality({i \in DOMAIN values : values[i] <= v})]

\* DurationStats.from_seconds; twice the median, which may be a mean of two.
DurationStats(values) ==
  LET ordered == Ordered(values)
      n == Len(values)
  IN  IF n = 0 THEN [count |-> 0]
      ELSE [count |-> n,
            total |-> FoldSeq(+, 0, values),
            minimum |-> ordered[1],
            maximum |-> ordered[n],
            twice_median |-> ordered[n \div 2 + 1] + ordered[(n + 1) \div 2],
            p95 |-> ordered[Rank(n, 95)],
            p99 |-> ordered[Rank(n, 99)]]

-----------------------------------------------------------------------------
(* Execution metrics: Exists subqueries over the audit trail.              *)

HasRow(types, actions) ==
  \E k \in DOMAIN trail : trail[k].type \in types /\ trail[k].action \in actions

CompletedBy == {trail[k].action : k \in
                  {j \in DOMAIN trail : trail[j].type = "workflow_completed"}}

RejectedEvent ==
  \/ \E k \in DOMAIN trail : trail[k].type = "approval_rejected"
  \/ HasRow({"transition_executed"}, {"reject"})

\* Variant: an escalation counts for as long as its slot is pending.
EscalatedPending ==
  At(trail, {k \in DOMAIN trail : /\ trail[k].type = "approval_escalated"
                                   /\ approvals[trail[k].slot].status = "PENDING"})

Escalated == RowsOf({"approval_escalated"})

\* Variant: a decision is late from the deadline on.
BreachedEarly(i) ==
  /\ stamps[i].due # Never
  /\ \/ approvals[i].status = "PENDING" /\ stamps[i].due < now
     \/ approvals[i].status \in Decided /\ stamps[i].updated >= stamps[i].due

\* The breach condition of metrics.py and approvals.py.
Breached(i) ==
  /\ stamps[i].due # Never
  /\ \/ approvals[i].status = "PENDING" /\ stamps[i].due < now
     \/ approvals[i].status \in Decided /\ stamps[i].updated > stamps[i].due

ExecutionMetrics ==
  [started |-> Count(Started),
   active |-> Count(Started /\ completed_at = Never),
   completed |-> Count(CompletedBy \ {"reject", "cancel"} # {}),
   rejected |-> Count(RejectedEvent \/ "reject" \in CompletedBy),
   cancelled |-> Count("cancel" \in CompletedBy),
   escalated |-> Count(Escalated # <<>>),
   failed |-> Count(completed_at # Never /\ CompletedBy = {} /\ ~RejectedEvent),
   sla_breached |-> Count(\E i \in DOMAIN approvals : Breached(i))]

-----------------------------------------------------------------------------
(* Completion times, time spent per state, bottlenecks.                    *)

CompletionTimes ==
  IF completed_at = Never THEN <<>> ELSE <<completed_at - started_at>>

\* Variant: the trail is taken to begin with the first state's exit.
EntriesFromFirstMove ==
  LET moves == RowsOf({"transition_executed"})
  IN  IF moves = <<>> THEN <<[at |-> started_at, state |-> current]>>
      ELSE [k \in DOMAIN moves |-> [at |-> moves[k].at, state |-> moves[k].target]]

\* When the execution entered which state, by its transition records.
Entries ==
  LET moves == RowsOf({"transition_executed"})
  IN  IF moves = <<>> THEN <<[at |-> started_at, state |-> current]>>
      ELSE <<[at |-> started_at, state |-> moves[1].source]>>
           \o [k \in DOMAIN moves |-> [at |-> moves[k].at, state |-> moves[k].target]]

EndAt == IF completed_at # Never THEN completed_at ELSE now

Spans ==
  LET entries == Entries
      exit(k) == IF k < Len(entries) THEN entries[k + 1].at ELSE EndAt
      span(k) == [state |-> entries[k].state, seconds |-> exit(k) - entries[k].at]
      spans == [k \in DOMAIN entries |-> span(k)]
  IN  IF Started THEN At(spans, {k \in DOMAIN entries : spans[k].seconds > 0})
      ELSE <<>>

SecondsIn(spans, state) ==
  LET chosen == At(spans, {k \in DOMAIN spans : spans[k].state = state})
  IN  [k \in DOMAIN chosen |-> chosen[k].seconds]

\* state_durations: a row for each state with a span.
StateDurations ==
  LET spans == Spans
  IN  [s \in {spans[k].state : k \in DOMAIN spans} |-> DurationStats(SecondsIn(spans, s))]

\* bottlenecks: the average exceeds `percent` of the mean of the averages.
\* All averages are scaled by the product of the counts.
Bottlenecks(percent) ==
  LET rows == StateDurations
      product == FoldSet(LAMBDA s, p : p * rows[s].count, 1, DOMAIN rows)
      average(s) == rows[s].total * (product \div rows[s].count)
      overall == MapThenSumSet(average, DOMAIN rows)
  IN  {s \in DOMAIN rows :
         average(s) * Cardinality(DOMAIN rows) * 100 > overall * percent}

-----------------------------------------------------------------------------
(* Approval metrics.                                                       *)

\* _approval_queryset with the filter on the step.
Scope(state) ==
  {i \in DOMAIN approvals : state = AnyState \/ approvals[i].step = state}

InStatus(scope, status) == {i \in scope : approvals[i].status = status}

DecisionTimes(scope, status) ==
  LET slots == Ascending(InStatus(scope, status))
  IN  DurationStats([k \in DOMAIN slots |->
        stamps[slots[k]].updated - stamps[slots[k]].created])

\* The escalations are those of every execution with an approval in scope.
ApprovalMetrics(state) ==
  LET scope == Scope(state)
  IN  [requested |-> Cardinality(scope),
       approved |-> Cardinality(InStatus(scope, "APPROVED")),
       rejected |-> Cardinality(InStatus(scope, "REJECTED")),
       pending |-> Cardinality(InStatus(scope, "PENDING")),
       cancelled |-> Cardinality(InStatus(scope, "CANCELLED")),
       escalated |-> IF scope = {} THEN 0 ELSE Len(Escalated),
       sla_breached |-> Cardinality({i \in scope : Breached(i)})]

DecisionDurations(state) ==
  [status \in Decided |-> DecisionTimes(Scope(state), status)]

\* approval_totals, grouped by step.
ApprovalTotals ==
  [s \in {approvals[i].step : i \in DOMAIN approvals} |->
     LET scope == Scope(s)
         of(status) == Cardinality(InStatus(scope, status))
     IN  [approved |-> of("APPROVED"), rejected |-> of("REJECTED"),
          pending |-> of("PENDING"), cancelled |-> of("CANCELLED"),
          requested |-> of("APPROVED") + of("REJECTED") + of("PENDING")
                        + of("CANCELLED")]]

-----------------------------------------------------------------------------
(* SLA and escalations.                                                    *)

Tracked(state) == {i \in Scope(state) : stamps[i].due # Never}

\* overdue_approvals, and Approval.is_overdue of each.
Overdue(scope) ==
  {i \in InStatus(scope, "PENDING") : stamps[i].due # Never /\ stamps[i].due < now}

SlaMetrics(state) ==
  LET tracked == Tracked(state)
      decided == InStatus(tracked, "APPROVED") \cup InStatus(tracked, "REJECTED")
      late == {i \in decided : stamps[i].updated > stamps[i].due}
      pending == Overdue(tracked)
      on_time == Cardinality(decided) - Cardinality(late)
  IN  [tracked |-> Cardinality(tracked),
       decided |-> Cardinality(decided),
       on_time |-> on_time,
       breached |-> Cardinality(late) + Cardinality(pending),
       pending_overdue |-> Cardinality(pending),
       compliance_rate |-> RateOf(on_time, Cardinality(decided)),
       total_overdue |->
         MapThenSumSet(LAMBDA i : stamps[i].updated - stamps[i].due, late)
         + MapThenSumSet(LAMBDA i : now - stamps[i].due, pending),
       escalation_count |-> IF tracked = {} THEN 0 ELSE Len(Escalated),
       completion_times |-> CompletionTimes]

\* escalation_analytics: counts by source state, and the delays that
\* _escalation_delay averages, each taken from the approval the row names.
EscalationsByState ==
  [s \in {Escalated[k].source : k \in DOMAIN Escalated} |->
     Cardinality({k \in DOMAIN Escalated : Escalated[k].source = s})]

EscalationDelays ==
  [k \in DOMAIN Escalated |-> Escalated[k].at - stamps[Escalated[k].slot].created]

-----------------------------------------------------------------------------
(* prometheus_metrics_text: the families whose samples are declared as     *)
(* counters, labelled by the executions' outcome and the requests' status. *)

Exposition ==
  [executions |-> ExecutionMetrics,
   approval_requests |-> ApprovalMetrics(AnyState),
   sla_breaches |-> SlaMetrics(AnyState).breached]

-----------------------------------------------------------------------------
(* Invariants.                                                             *)

Total(spans) == MapThenSumSet(LAMBDA k : spans[k].seconds, DOMAIN spans)

(* The spans lose no time and count none twice: the time reported for the  *)
(* states of a running execution is its age, and of a completed one its    *)
(* completion time, give or take what its last call took.                  *)
SpansConserve ==
  Started =>
    IF completed_at = Never THEN Total(Spans) = now - started_at
    ELSE Total(Spans) \in CompletionTimes[1]..(CompletionTimes[1] + MaxLag)

(* Every started execution is counted under exactly one of active,         *)
(* completed, rejected on completion and cancelled, and never as failed:   *)
(* completion and the audit row it is classified by never come apart.      *)
OutcomesPartition ==
  LET metrics == ExecutionMetrics
  IN  /\ metrics.failed = 0
      /\ metrics.started = metrics.active + metrics.completed + metrics.cancelled
                           + Count("reject" \in CompletedBy)
      /\ completed /\ path[Len(path)].name = "reject" => metrics.rejected = 1

(* Reports that count the same thing by different queries agree: breaches  *)
(* by the SLA report, by the approval metrics and per execution; overdue   *)
(* slots; totals by step and the metrics filtered by that step; escalation *)
(* rows and the slots that escalation created.  The delays reported for    *)
(* escalations are those of the calls that escalate, hence nothing,        *)
(* however long the step had waited.                                       *)
ReportsAgree ==
  LET asked == ApprovalMetrics(AnyState)
      sla == SlaMetrics(AnyState)
      totals == ApprovalTotals
  IN  /\ sla.breached = asked.sla_breached
      /\ ExecutionMetrics.sla_breached = Count(sla.breached > 0)
      /\ sla.pending_overdue = Cardinality(Overdue(DOMAIN approvals))
      /\ sla.decided <= asked.approved + asked.rejected
      /\ \A s \in DOMAIN totals :
           LET there == ApprovalMetrics(s)
           IN  totals[s] = [approved |-> there.approved, rejected |-> there.rejected,
                            pending |-> there.pending, cancelled |-> there.cancelled,
                            requested |-> there.requested]
      /\ asked.requested = MapThenSumSet(LAMBDA s : totals[s].requested, DOMAIN totals)
      /\ asked.escalated = Cardinality({i \in DOMAIN approvals : approvals[i].escalated})
      /\ asked.escalated = MapThenSumSet(LAMBDA s : EscalationsByState[s],
                                         DOMAIN EscalationsByState)
      /\ \A k \in DOMAIN EscalationDelays : EscalationDelays[k] = 0

\* Within one of the nearest rank, never off the list.
RankSound(n) ==
  \A percent \in {95, 99} :
    /\ Rank(n, percent) \in 1..n
    /\ Rank(n, percent) \in {NearestRank(n, percent) - 1, NearestRank(n, percent)}

StatsOrdered(stats) ==
  stats.count > 0 =>
    /\ 2 * stats.minimum <= stats.twice_median
    /\ stats.twice_median <= 2 * stats.p95
    /\ stats.p95 <= stats.p99 /\ stats.p99 <= stats.maximum

(* A reported percentile is a value of the sample, one rank at most below  *)
(* the nearest rank, for samples up to 120; the statistics of every        *)
(* duration reported are in order; and the states flagged as bottlenecks   *)
(* are those where executions stay longest on average, never all of them.  *)
StatisticsSound ==
  /\ ~Started => \A n \in 1..120 : RankSound(n)
  /\ \A status \in Decided : StatsOrdered(DecisionDurations(AnyState)[status])
  /\ LET rows == StateDurations
         flagged == Bottlenecks(125)
     IN  /\ \A s \in DOMAIN rows : StatsOrdered(rows[s])
         /\ flagged # {} => flagged # DOMAIN rows
         /\ \A s \in flagged, r \in DOMAIN rows \ flagged :
              rows[s].total * rows[r].count > rows[r].total * rows[s].count

(* Counters never fall between two scrapes, whatever is decided, cancelled *)
(* or escalated meanwhile.  Left out are the samples that follow the       *)
(* present, though they too are declared as counters: pending requests and *)
(* the breaches, which an escalation takes back; and scrapes restricted to *)
(* the executions in one state, which leave it as they move.               *)
CountersNeverFall ==
  [][\A before \in {Exposition}, after \in {Exposition'} :
       /\ \A name \in {"started", "completed", "rejected", "failed", "cancelled",
                      "escalated"} :
            after.executions[name] >= before.executions[name]
       /\ \A name \in {"requested", "approved", "rejected", "cancelled",
                      "escalated"} :
            after.approval_requests[name] >= before.approval_requests[name]]_auditedVars
=============================================================================
