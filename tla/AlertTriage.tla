---------------------------- MODULE AlertTriage ----------------------------
(***************************************************************************)
(* The table of alerts and the pages on which operators triage them: the   *)
(* rule engine inserts, api-backend's alert handlers list and update, and  *)
(* every open alerts page shows the answer to the last request that came   *)
(* back.                                                                   *)
(*                                                                         *)
(*   rule-engine -> rows <- PATCH --- page of an operator                  *)
(*                    '---- GET ---->                                      *)
(*                                                                         *)
(* Requests of one page run concurrently: nothing stops an operator from   *)
(* changing the filter while a list is loading, or from pressing two       *)
(* buttons of the drawer.  Each is its own HTTP call and may be served and *)
(* answered in another order.                                              *)
(***************************************************************************)
EXTENDS Naturals, FiniteSets

CONSTANTS Alert,        \* alerts the rule engine may store
          CreatedAt,    \* their created_at
          SeverityOf,   \* stands for all columns that never change
          Status,       \* values of status an operator may choose
          Operator,     \* open pages, one for each operator
          Filters,      \* filters an operator may choose
          Asked,        \* limit the page asks for
          MaxPage,      \* largest limit the repository accepts
          MaxFetches,   \* bound: list requests of one page
          MaxPatches,   \* bound: updates of all pages
          MaxFailures   \* bound: requests or answers that fail

All == "all"
NoFilter == [severity |-> All, status |-> All]

ASSUME TriageAssumption ==
    /\ CreatedAt \in [Alert -> Nat] /\ SeverityOf \in [Alert -> STRING]
    /\ Status \subseteq STRING /\ "open" \in Status
    /\ Filters \subseteq [severity : STRING, status : STRING]
    /\ IsFiniteSet(Alert)
    /\ Asked \in Nat /\ MaxPage \in Nat \ {0}
    /\ {MaxFetches, MaxPatches, MaxFailures} \subseteq Nat

VARIABLES rows,         \* table alerts: id -> status
          filter,       \* the filter selected on a page
          shown,        \* what a page shows: id -> status
          fetches,      \* list requests under way
          patches,      \* updates under way: "sent", "served", or "late" when
                        \* the page has given up and the service has not
          issued,       \* number of list requests a page has made
          from,         \* number of the one whose answer the page shows
          basis,        \* history: the table when that one was served
          known,        \* alerts a page has shown
          by,           \* history: who changed an alert last
          doubt,        \* history: the page may not know its own changes
          changes,      \* number of updates the pages have made
          failures      \* history

callVars == <<fetches, patches, issued, changes>>
pageVars == <<filter, shown, from, basis, known, doubt>>
triageVars == <<rows, by, failures, callVars, pageVars>>

\* A page, when it is opened, asks for everything.
Fetch(n, f, tainted) ==
    [no |-> n, filter |-> f, at |-> "sent", page |-> <<>>, table |-> <<>>,
     tainted |-> tainted]

TriageInit ==
    /\ rows = <<>> /\ by = [a \in Alert |-> "engine"]
    /\ filter = [o \in Operator |-> NoFilter]
    /\ shown = [o \in Operator |-> <<>>]
    /\ fetches = [o \in Operator |-> {Fetch(1, NoFilter, FALSE)}]
    /\ issued = [o \in Operator |-> 1]
    /\ patches = [o \in Operator |-> {}] /\ changes = 0
    /\ from = [o \in Operator |-> 0] /\ basis = [o \in Operator |-> <<>>]
    /\ known = [o \in Operator |-> {}] /\ doubt = [o \in Operator |-> FALSE]
    /\ failures = 0

-----------------------------------------------------------------------------
(* rule-engine *)

\* send_batch: one INSERT, with the status build_alert gives.
Insert(S) ==
    /\ S # {} /\ S \cap DOMAIN rows = {}
    /\ rows' = [a \in DOMAIN rows \cup S |-> IF a \in S THEN "open" ELSE rows[a]]
    /\ UNCHANGED <<by, failures, callVars, pageVars>>

-----------------------------------------------------------------------------
(* api-backend *)

Passes(f, a, status) ==
    /\ f.severity \in {All, SeverityOf[a]}
    /\ f.status \in {All, status}

Lesser(m, n) == IF m < n THEN m ELSE n

\* limit.clamp(1, 100)
clamp(limit) == IF limit = 0 THEN 1 ELSE Lesser(limit, MaxPage)

\* The pages find_all may answer with: the newest alerts that match, as many
\* as the limit allows, in any order among equal times.  The total of its
\* other query is not used by the page.
find_all(f) ==
    LET match == {a \in DOMAIN rows : Passes(f, a, rows[a])}
    IN  {[a \in S |-> rows[a]] : S \in {S \in SUBSET match :
            /\ Cardinality(S) = Lesser(clamp(Asked), Cardinality(match))
            /\ \A a \in S, b \in match \ S : CreatedAt[a] >= CreatedAt[b]}}

\* list_alerts
list_alerts(o, c) ==
    /\ c.at = "sent"
    /\ \E page \in find_all(c.filter) :
          fetches' = [fetches EXCEPT ![o] =
                        (@ \ {c}) \cup {[c EXCEPT !.at = "served", !.page = page,
                                                  !.table = rows]}]
    /\ UNCHANGED <<rows, by, failures, patches, issued, changes, pageVars>>

\* UPDATE alerts SET status ... WHERE alert_id ...  Whatever the status was,
\* the last one wins.
update_status(a, status) == [rows EXCEPT ![a] = status]

\* update_alert_status, for a page that waits for its answer or has given up.
update_alert_status(o, p) ==
    /\ p.at \in {"sent", "late"}
    /\ rows' = update_status(p.alert, p.status)
    /\ by' = [by EXCEPT ![p.alert] = o]
    /\ patches' = [patches EXCEPT ![o] =
                     (@ \ {p}) \cup (IF p.at = "late" THEN {}
                                    ELSE {[p EXCEPT !.at = "served"]})]
    /\ UNCHANGED <<failures, fetches, issued, changes, pageVars>>

-----------------------------------------------------------------------------
(* The alerts page *)

\* fetchAlerts: the request for filter f.
fetchAlerts(o, f) ==
    /\ issued[o] < MaxFetches
    /\ issued' = [issued EXCEPT ![o] = @ + 1]
    /\ fetches' = [fetches EXCEPT ![o] =
                     @ \cup {Fetch(issued[o] + 1, f, patches[o] # {})}]
    /\ UNCHANGED <<rows, by, failures, patches, changes, shown, from, basis, known,
                   doubt>>

\* Mutant of SelectFilter: the effect does not depend on the filter.
SelectFilterOnly(o, f) ==
    /\ f # filter[o]
    /\ filter' = [filter EXCEPT ![o] = f]
    /\ UNCHANGED <<rows, by, failures, callVars, shown, from, basis, known, doubt>>

\* A filter is selected, and the effect that depends on it runs.
SelectFilter(o, f) ==
    /\ f # filter[o]
    /\ filter' = [filter EXCEPT ![o] = f]
    /\ fetchAlerts(o, f)

Refresh(o) == fetchAlerts(o, filter[o]) /\ UNCHANGED filter

\* setAlerts(data), whichever request the data answers.
setAlerts(o, c) ==
    /\ c.at = "served"
    /\ shown' = [shown EXCEPT ![o] = c.page]
    /\ known' = [known EXCEPT ![o] = @ \cup DOMAIN c.page]
    /\ from' = [from EXCEPT ![o] = c.no]
    /\ basis' = [basis EXCEPT ![o] = c.table]
    /\ doubt' = [doubt EXCEPT ![o] = c.tainted]
    /\ fetches' = [fetches EXCEPT ![o] = @ \ {c}]
    /\ UNCHANGED <<rows, by, failures, patches, issued, changes, filter>>

\* The request or its answer is lost or refused: an error is logged and the
\* old alerts stay on the page.
FetchFails(o, c) ==
    /\ failures < MaxFailures
    /\ failures' = failures + 1
    /\ fetches' = [fetches EXCEPT ![o] = @ \ {c}]
    /\ UNCHANGED <<rows, by, patches, issued, changes, pageVars>>

\* A change under way makes every list that is under way uncertain, and two
\* changes make each other so.
Change(o, a, status) ==
    /\ changes < MaxPatches
    /\ changes' = changes + 1
    /\ patches' = [patches EXCEPT ![o] =
                     @ \cup {[no |-> changes', alert |-> a, status |-> status,
                              at |-> "sent"]}]
    /\ fetches' = [fetches EXCEPT ![o] = {[c EXCEPT !.tainted = TRUE] : c \in @}]
    /\ doubt' = [doubt EXCEPT ![o] = @ \/ patches[o] # {}]

\* Mutant of handleStatusChange: the page is changed before the answer.
OptimisticChange(o, a, status) ==
    /\ a \in known[o]
    /\ Change(o, a, status)
    /\ shown' = [shown EXCEPT ![o] = [b \in DOMAIN @ |-> IF b = a THEN status ELSE @[b]]]
    /\ UNCHANGED <<rows, by, failures, issued, filter, from, basis, known>>

\* handleStatusChange up to its await.  The drawer keeps an alert that has
\* left the page, and its buttons are not disabled.
handleStatusChange(o, a, status) ==
    /\ a \in known[o]
    /\ Change(o, a, status)
    /\ UNCHANGED <<rows, by, failures, issued, filter, shown, from, basis, known>>

\* The update was answered: the page changes the alert where it shows it.
Changed(o, p) ==
    /\ p.at = "served"
    /\ patches' = [patches EXCEPT ![o] = @ \ {p}]
    /\ shown' = [shown EXCEPT ![o] =
                   [a \in DOMAIN @ |-> IF a = p.alert THEN p.status ELSE @[a]]]
    /\ UNCHANGED <<rows, by, failures, fetches, issued, changes, filter, from, basis,
                   known, doubt>>

\* The change fails for the page, which stays as it is: the request was lost
\* or refused, its answer was, or the page or the proxy before the service
\* gave it up on its way, and the service may still make the change.
ChangeFails(o, p) ==
    /\ p.at # "late" /\ failures < MaxFailures
    /\ failures' = failures + 1
    /\ \/ /\ patches' = [patches EXCEPT ![o] = @ \ {p}]
          /\ doubt' = [doubt EXCEPT ![o] = @ \/ p.at = "served"]
       \/ /\ p.at = "sent"
          /\ patches' = [patches EXCEPT ![o] = (@ \ {p}) \cup {[p EXCEPT !.at = "late"]}]
          /\ doubt' = [doubt EXCEPT ![o] = TRUE]
    /\ UNCHANGED <<rows, by, fetches, issued, changes, filter, shown, from, basis, known>>

-----------------------------------------------------------------------------

PageNext(o) ==
    \/ \E f \in Filters : SelectFilter(o, f)
    \/ Refresh(o)
    \/ \E a \in Alert, s \in Status : handleStatusChange(o, a, s)
    \/ \E c \in fetches[o] : list_alerts(o, c) \/ setAlerts(o, c) \/ FetchFails(o, c)
    \/ \E p \in patches[o] :
          update_alert_status(o, p) \/ Changed(o, p) \/ ChangeFails(o, p)

TriageNext == (\E S \in SUBSET Alert : Insert(S)) \/ \E o \in Operator : PageNext(o)

TriageSpec == TriageInit /\ [][TriageNext]_triageVars

-----------------------------------------------------------------------------
(* Properties *)

\* The answer to the last request is on the page and none is under way.
Settled(o) == fetches[o] = {} /\ from[o] = issued[o]

\* A settled page shows what its filter selects: of the alerts that passed
\* the filter when the table was read, all of them or the newest ones.  A page
\* on which an older answer came last, or whose last request failed, is not
\* settled, shows something else, and does not say so.
PageAnswersFilter ==
    \A o \in Operator : Settled(o) =>
        LET match == {a \in DOMAIN basis[o] : Passes(filter[o], a, basis[o][a])}
        IN  /\ DOMAIN shown[o] \subseteq match
            /\ \A a \in match \ DOMAIN shown[o] :
                  /\ Cardinality(DOMAIN shown[o]) = clamp(Asked)
                  /\ \A b \in DOMAIN shown[o] : CreatedAt[b] >= CreatedAt[a]

\* An operator's own word stays on the page: an alert nobody else has changed
\* since is shown with its status in the table, whatever other operators and
\* other requests do.  Excepted is a page that had a change under way together
\* with a list or with another change, or a change that failed for the page and
\* not for the service, until a list is shown that was requested after the
\* service was done with all of the page's changes, the late ones included.
OwnWordStays ==
    \A o \in Operator : patches[o] = {} /\ ~doubt[o] =>
        \A a \in DOMAIN shown[o] : by[a] = o => shown[o][a] = rows[a]

=============================================================================
