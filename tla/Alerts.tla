------------------------------- MODULE Alerts -------------------------------
(***************************************************************************)
(* The daily price job and the alerts it sends: main and run_ingest in     *)
(* app/jobs/price_ingest.py, run_alerts in app/jobs/price_alerts.py, and   *)
(* what users do meanwhile: watch, set a target (app/watchlist_service.py),*)
(* switch alerts on and off, override a price (set_price_override).        *)
(*                                                                         *)
(* One printing with one finish and one provider is followed; every user   *)
(* may watch it.  The job reads, then commits: once for the prices, once   *)
(* for the marks of all users, after the last e-mail.  It may be killed    *)
(* between any two steps.  Price 0 stands for no price, no override or no  *)
(* target; the valuation and the price history of the job are left out.    *)
(***************************************************************************)
EXTENDS Integers

CONSTANTS
  Watchers,   \* who may watch the printing
  MaxPrice,   \* bound: the highest price
  Gone,       \* no watch
  Off         \* no job is running

VARIABLES
  retail,     \* the last price the provider gave (CardPrice)
  override,   \* CardPrice.manual_override
  price,      \* the price shown (Card.price_usd)
  watch,      \* per user: the target, and whether it has been alerted
  optedIn,    \* User.price_alerts_enabled
  job,        \* the running job
  told,       \* history: digests sent for the present crossing, up to 2
  unsaved     \* history: the mark of a digest for it was not stored

prices == <<retail, override, price>>
users == <<watch, optedIn>>
history == <<told, unsaved>>
alertVars == <<prices, users, job, history>>

Prices == 0 .. MaxPrice
Watch == [target : Prices, alerted : BOOLEAN]

\* "ingest": prices read and not committed.  "alerts": the users still to evaluate,
\* and the marks to store: set, cleared, or set on a row deleted since ("stale").
Ingest == [phase : {"ingest"}, listed : Prices, override : Prices]
Marks == {"none", "set", "clear", "stale"}
Alerting == [phase : {"alerts"}, todo : SUBSET Watchers, marks : [Watchers -> Marks]]

ASSUME AlertsAssumption ==
  /\ MaxPrice \in Nat \ {0}
  /\ Gone \notin Watch
  /\ Off \notin Ingest \cup Alerting

InitAlerts ==
  /\ retail = 0 /\ override = 0 /\ price = 0
  /\ watch = [u \in Watchers |-> Gone]
  /\ optedIn = {}
  /\ job = Off
  /\ told = [u \in Watchers |-> 0]
  /\ unsaved = {}

\* Variant: the provider wins.
Retail(over, given) == given

\* resolve_price_value
Resolve(over, given) == IF over # 0 THEN over ELSE given

\* target_met of list_watchlist
Met(w, p) == w # Gone /\ w.target # 0 /\ p # 0 /\ p =< w.target

Crossing == {u \in Watchers : Met(watch[u], price)}

\* A digest counts for its crossing until the price leaves the target.
Tracked ==
  LET over == {u \in Watchers : ~Met(watch'[u], price')} IN
  /\ told' = [u \in Watchers |-> IF u \in over THEN 0 ELSE told[u]]
  /\ unsaved' = unsaved \ over

----------------------------------------------------------------------------
(* Users *)

AddToWatchlist(u) ==
  /\ watch[u] = Gone
  /\ watch' = [watch EXCEPT ![u] = [target |-> 0, alerted |-> FALSE]]
  /\ UNCHANGED <<prices, optedIn, job, history>>

\* The job that has a mark for the row will not find it.
RemoveFromWatchlist(u) ==
  /\ watch[u] # Gone
  /\ watch' = [watch EXCEPT ![u] = Gone]
  /\ job' = IF job # Off /\ job.phase = "alerts" /\ job.marks[u] # "none"
            THEN [job EXCEPT !.marks[u] = "stale"] ELSE job
  /\ UNCHANGED <<prices, optedIn>>
  /\ Tracked

\* update_target_price: only the target; whether it was alerted stays.
UpdateTargetPrice(u, t) ==
  /\ watch[u] # Gone /\ watch[u].target # t
  /\ watch' = [watch EXCEPT ![u].target = t]
  /\ UNCHANGED <<prices, optedIn, job>>
  /\ Tracked

ToggleAlerts(u) ==
  /\ optedIn' = IF u \in optedIn THEN optedIn \ {u} ELSE optedIn \cup {u}
  /\ UNCHANGED <<prices, watch, job, history>>

SetPriceOverride(v) ==
  /\ override # v
  /\ override' = v
  /\ price' = Resolve(v, retail)
  /\ UNCHANGED <<retail, users, job>>
  /\ Tracked

----------------------------------------------------------------------------
(* The job *)

\* run_ingest: what the provider lists today, and the rows as they are now.
IngestRead(listed) ==
  /\ job = Off
  /\ job' = [phase |-> "ingest", listed |-> listed, override |-> override]
  /\ UNCHANGED <<prices, users, history>>

\* The price shown is resolved from the override that was read; a printing that is
\* not listed is not touched.  Then run_alerts reads who wants alerts.
IngestCommit ==
  /\ job # Off /\ job.phase = "ingest"
  /\ \/ /\ job.listed # 0
        /\ retail' = job.listed
        /\ price' = Resolve(job.override, job.listed)
     \/ /\ job.listed = 0
        /\ UNCHANGED <<retail, price>>
  /\ job' = [phase |-> "alerts", todo |-> optedIn, marks |-> [u \in Watchers |-> "none"]]
  /\ UNCHANGED <<override, users>>
  /\ Tracked

\* Variant: the crossing is marked whether or not the digest went out.
MarkAnyway(delivered) == "set"

\* "Stamp the dedup state only on a successful send."
Mark(delivered) == IF delivered THEN "set" ELSE "none"

\* Variant: a crossing that was alerted is alerted again.
IsMet(u) == u \in Crossing

\* A crossing no digest has been marked for.
IsFresh(u) == u \in Crossing /\ ~watch[u].alerted

\* The digest of one user is sent.
Send(u, delivered) ==
  /\ job # Off /\ job.phase = "alerts" /\ u \in job.todo
  /\ IsFresh(u)
  /\ job' = [job EXCEPT !.todo = @ \ {u}, !.marks[u] = Mark(delivered)]
  /\ told' = [told EXCEPT ![u] = IF delivered /\ @ < 2 THEN @ + 1 ELSE @]
  /\ UNCHANGED <<prices, users, unsaved>>

\* Nothing fresh: a watch above its target is armed again.
Skip(u) ==
  /\ job # Off /\ job.phase = "alerts" /\ u \in job.todo
  /\ ~IsFresh(u)
  /\ job' = [job EXCEPT !.todo = @ \ {u},
               !.marks[u] = IF watch[u] # Gone /\ watch[u].alerted /\ u \notin Crossing
                            THEN "clear" ELSE "none"]
  /\ UNCHANGED <<prices, users, history>>

\* The job is over without its marks.
Lost ==
  /\ job' = Off
  /\ unsaved' = unsaved \cup (IF job.phase = "alerts"
                              THEN {u \in Watchers : job.marks[u] \in {"set", "stale"} /\ told[u] > 0}
                              ELSE {})
  /\ UNCHANGED <<prices, users, told>>

\* One commit for all: a mark for a row that is gone fails it (StaleDataError).
AlertCommit ==
  /\ job # Off /\ job.phase = "alerts" /\ job.todo = {}
  /\ \/ /\ \A u \in Watchers : job.marks[u] # "stale"
        /\ watch' = [u \in Watchers |->
             CASE job.marks[u] = "set" -> [watch[u] EXCEPT !.alerted = TRUE]
               [] job.marks[u] = "clear" -> [watch[u] EXCEPT !.alerted = FALSE]
               [] OTHER -> watch[u]]
        /\ job' = Off
        /\ UNCHANGED <<prices, optedIn, history>>
     \/ /\ \E u \in Watchers : job.marks[u] = "stale"
        /\ Lost

\* The job is killed.
Die == job # Off /\ Lost

NextAlerts ==
  \/ \E u \in Watchers :
       \/ AddToWatchlist(u) \/ RemoveFromWatchlist(u) \/ ToggleAlerts(u)
       \/ \E t \in Prices : UpdateTargetPrice(u, t)
       \/ \E delivered \in BOOLEAN : Send(u, delivered)
       \/ Skip(u)
  \/ \E v \in Prices : SetPriceOverride(v) \/ IngestRead(v)
  \/ IngestCommit \/ AlertCommit \/ Die

\* The job runs every day, is not killed every time at the same point, and the
\* provider answers and the e-mail goes out once in a while.
SpecAlerts ==
  /\ InitAlerts /\ [][NextAlerts]_alertVars
  /\ SF_alertVars(\E listed \in Prices \ {0} : IngestRead(listed))
  /\ SF_alertVars(IngestCommit) /\ SF_alertVars(IngestCommit /\ job.listed # 0)
  /\ \A u \in Watchers : SF_alertVars(Send(u, TRUE)) /\ SF_alertVars(Skip(u))
  /\ SF_alertVars(AlertCommit)

----------------------------------------------------------------------------
(* Properties *)

\* A crossing fires once (run_alerts): a second digest for the same one is sent only
\* when the run that sent the first could not store its mark.
ToldOnce == \A u \in Watchers : told[u] = 2 => u \in unsaved

\* No digest is marked for the watch, and no run is about to store such a mark.
Armed(u) ==
  /\ watch[u] # Gone /\ ~watch[u].alerted
  /\ job # Off /\ job.phase = "alerts" => job.marks[u] # "set"

\* A crossing that is armed is not swallowed: while it lasts and the user wants to
\* hear of it, some run tells it, through failed e-mails and killed runs (run_alerts:
\* a provider failure retries the next run).
CrossingIsTold ==
  \A u \in Watchers :
    (u \in optedIn \cap Crossing /\ Armed(u)) ~>
      (told[u] > 0 \/ u \notin optedIn \cap Crossing)

\* An override shows in the end, even one set while a run resolves the prices from
\* the rows it read before (set_price_override: it always wins and survives re-ingest).
OverrideShows ==
  \A v \in Prices \ {0} : (override = v) ~> (price = v \/ override # v)

\* A target the price has reached is told, whatever was told for an earlier target
\* ("reached their target_price since the last alert", run_alerts).
TargetIsTold ==
  \A u \in Watchers :
    (u \in optedIn \cap Crossing) ~> (told[u] > 0 \/ u \notin optedIn \cap Crossing)

=============================================================================
