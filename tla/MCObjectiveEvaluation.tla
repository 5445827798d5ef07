----------------------- MODULE MCObjectiveEvaluation -----------------------
EXTENDS ObjectiveEvaluation

Pay == [service |-> "pay"]
Series(metric, labels, rate) == [metric |-> metric, labels |-> labels, rate |-> rate]

\* The metrics of the three templates, all fed by one service; another one, whose
\* requests fail half of the time, sends the same metrics.
SeriesOf(name, total, bad, errorsSeen) ==
    {Series("http_requests_total", [service |-> name, status |-> "200"], total - bad),
     Series("http_request_duration_seconds_count", [service |-> name], total),
     Series("http_request_duration_seconds_bucket", [service |-> name, le |-> "0.5"], total - bad),
     Series("http_request_duration_seconds_bucket", [service |-> name, le |-> "+Inf"], total),
     Series("apiserver_request_total", [service |-> name, code |-> "200"], total - bad)}
    \cup IF errorsSeen
         THEN {Series("http_requests_total", [service |-> name, status |-> "500"], bad),
               Series("apiserver_request_total", [service |-> name, code |-> "429"], bad)}
         ELSE {}

Other == SeriesOf("mail", 100, 50, TRUE)

Service(total, bad, errorsSeen) ==
    [absent |-> FALSE, total |-> total, bad |-> bad, buckets |-> {"0.5", "+Inf"},
     series |-> Other \cup SeriesOf("pay", total, bad, errorsSeen)]

\* Absent, idle, flawless, and around the budgets of 0.1 and 1 percent and the
\* threshold of the custom alert.
MCServices ==
    {[absent |-> TRUE, total |-> 0, bad |-> 0, buckets |-> {"0.5", "+Inf"}, series |-> Other]}
    \cup {Service(0, 0, errorsSeen) : errorsSeen \in BOOLEAN}
    \cup {Service(10000, 0, errorsSeen) : errorsSeen \in BOOLEAN}
    \cup {Service(10000, bad, TRUE) : bad \in {9, 10, 11, 99, 100, 101, 143, 144, 145, 7000}}

Template(name, params) ==
    [template |-> [name |-> name, labels |-> Pay, params |-> params], query |-> NoQuery]

Manual ==
    [template |-> NoTemplate,
     query |-> [total |-> Selector("http_requests_total", buildLabelSelector(Pay)),
                error |-> Selector("http_requests_total",
                                   buildLabelSelector(Pay) \cup {<<"status", {"500"}>>})]]

\* Fires from 2 percent of a month's budget in an hour on: 14.4 times the budget.
Alert(longWindow) ==
    [name |-> "TicketPage", consumePercent |-> 2, consumeWindow |-> Window(1, "h"),
     shortWindow |-> Window(5, "m"), longWindow |-> longWindow]

Plain == [sli |-> Manual, target |-> 9990, window |-> Window(30, "d"), burnRateEnabled |-> TRUE,
          burnRateAlerts |-> {}, budgetErrorEnabled |-> TRUE]

MCVarying == {Plain, [Plain EXCEPT !.window = Window(7, "d")]}

\* What the schema refuses: both a template and a query, or an unknown template.
Refused ==
    {[Plain EXCEPT !.sli.template = [name |-> "http-availability", labels |-> Pay, params |-> <<>>]],
     [Plain EXCEPT !.sli = Template("grpc", <<>>)]}

\* Each template; a threshold that is no bucket, or none; custom alerts, one of them on a
\* window that is not recorded; a window that is not recorded; a higher budget; no target; no alerts.
MCObjectives ==
    MCVarying \cup Refused \cup
    {[Plain EXCEPT !.sli = Template("http-availability", <<>>), !.target = 9900],
     [Plain EXCEPT !.sli = Template("http-latency", [threshold |-> "0.5"])],
     [Plain EXCEPT !.sli = Template("http-latency", [threshold |-> "0.50"])],
     [Plain EXCEPT !.sli = Template("http-latency", <<>>)],
     [Plain EXCEPT !.sli = Template("kubernetes-apiserver", [errorCodes |-> {"429", "500"}]),
                   !.burnRateAlerts = {Alert(Window(1, "h"))}],
     [Plain EXCEPT !.burnRateAlerts = {Alert(Window(2, "h"))}],
     [Plain EXCEPT !.window = Window(90, "d")],
     [Plain EXCEPT !.target = 0],
     [Plain EXCEPT !.target = 15000],
     [Plain EXCEPT !.target = 15000, !.sli = Template("http-latency", [threshold |-> "0.5"]),
                   !.burnRateAlerts = {Alert(Window(1, "h"))}],
     [Plain EXCEPT !.burnRateAlerts = {[Alert(Window(1, "h")) EXCEPT !.consumeWindow = Window(90, "s")]}],
     [Plain EXCEPT !.burnRateEnabled = FALSE, !.burnRateAlerts = {Alert(Window(2, "h"))}]}

\* Untouched, half spent, around the rounding edge, spent, overspent.
MCWindowedRates == {0, 50000, 99994, 99995, 99996, 100000, 130000}

\* Each of the three tiers: a query failed, or each window on or over the edge.
Readings(t) == {[short |-> s, long |-> l] : s, l \in {t, t + 1}}
MCBurnRateSets ==
    UNION {{[p \in D |-> CASE p = 1 -> a [] p = 2 -> b [] p = 3 -> c] :
              a \in Readings(14), b \in Readings(6), c \in Readings(1)} :
           D \in SUBSET {1, 2, 3}}
=============================================================================
