------------------------------- MODULE Alerts -------------------------------
(***************************************************************************)
(* The scheduled alert rules (AlertService): each is a query over a table, *)
(* stated as the set of LEAs it raises an alert for.  Thresholds and       *)
(* windows are in the unit of the clock of the module that takes them.     *)
(***************************************************************************)
EXTENDS Integers, FiniteSets

CONSTANTS
    AlertWindow,           \* the rolling window of the queries
    CursorLagThreshold     \* CURSOR_LAG_THRESHOLD_DAYS

NoDate == -1

\* mutant: reported only once it is past the threshold for a whole unit
CursorLag_Late(last_event_at, now) ==
    {l \in DOMAIN last_event_at :
        /\ last_event_at[l] # NoDate
        /\ last_event_at[l] < now - CursorLagThreshold - 1}

\* LEAs whose cursor stands at an event older than the threshold; an LEA
\* without a cursor, or with a NULL date, is never reported.
CursorLag(last_event_at, now) ==
    {l \in DOMAIN last_event_at :
        /\ last_event_at[l] # NoDate
        /\ last_event_at[l] < now - CursorLagThreshold}

Recent(runs, l, now) ==
    {n \in DOMAIN runs : runs[n].lea = l /\ runs[n].at >= now - AlertWindow}

\* mutant: the oldest run of the window is looked at
ReconciliationDrift_Oldest(runs, now) ==
    {l \in {runs[n].lea : n \in DOMAIN runs} :
        \E n \in Recent(runs, l, now) :
            /\ \A m \in Recent(runs, l, now) : n <= m
            /\ runs[n].status = "drift_detected"}

\* LEAs whose latest run of the window, whatever it is, detected drift.
ReconciliationDrift(runs, now) ==
    {l \in {runs[n].lea : n \in DOMAIN runs} :
        \E n \in Recent(runs, l, now) :
            /\ \A m \in Recent(runs, l, now) : m <= n
            /\ runs[n].status = "drift_detected"}

=============================================================================
