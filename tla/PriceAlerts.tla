---------------------------- MODULE PriceAlerts -----------------------------
(***************************************************************************)
(* Product crawls (domains/crawling/service.py, task_runner.py): a task    *)
(* crawls the active products it finds, each of them in sessions of its    *)
(* own, records the price and then compares it with the one before it to   *)
(* decide on the alerts.  Tasks overlap, the user edits the product and    *)
(* its alerts meanwhile, and old data may be cleaned up.                   *)
(***************************************************************************)
EXTENDS Integers, FiniteSets

CONSTANTS
  Task,         \* product crawls: manual ones and those of the cron
  Product,      \* the products of the user
  Alert,        \* ids of alerts
  Price,        \* prices, in a smallest unit
  Threshold,    \* threshold_percent values
  Concurrency,  \* settings.product_crawl_concurrency
  MaxTime,      \* bound on the clock
  None

VARIABLES
  product,  \* Product -> "absent", "active", "inactive" or "deleted"
  webhook,  \* whether the user has a feishu_webhook_url
  history,  \* the PriceHistory rows
  alert,    \* the Alert rows
  task,     \* Task -> status and the products it found
  crawl,    \* the crawl of a product in a task
  before,   \* history variable: the newest price when the crawl took its time
  crossed,  \* history variable: another change of the history came in between
  now

vars == <<product, webhook, history, alert, task, crawl, before, crossed, now>>

Exists(p) == product[p] \in {"active", "inactive"}

Records(p) == {h \in history : h.product = p}

\* PriceHistory.price .order_by(scraped_at.desc()): the n-th newest record
Nth(p, n) ==
  LET newer(h) == {g \in Records(p) : g.at > h.at}
      at == {h \in Records(p) : Cardinality(newer(h)) = n - 1}
  IN IF at = {} THEN None ELSE (CHOOSE h \in at : TRUE).price

NoCrawl == [stage |-> "none", price |-> None, at |-> 0, saved |-> FALSE]
NoAlert == [product |-> None, active |-> FALSE, threshold |-> None, notified |-> None]

\* Seeded error: the newest record taken for the previous one.
PreviousNewest(p) == Nth(p, 1)

\* price_records[1]: None when there are fewer than two
Previous(p) == Nth(p, 2)

Init ==
  /\ product \in [Product -> {"absent", "active"}]
  /\ webhook \in BOOLEAN
  /\ \E n \in 0..2, f \in [1..2 -> Price] :
       /\ history = {[product |-> p, price |-> f[i], at |-> i] :
                        p \in {q \in Product : product[q] = "active"}, i \in 1..n}
       /\ now = n
  /\ alert = [a \in Alert |-> NoAlert]
  /\ task = [t \in Task |-> [status |-> "pending", found |-> {}]]
  /\ crawl = [t \in Task |-> [p \in Product |-> NoCrawl]]
  /\ before = [t \in Task |-> [p \in Product |-> None]]
  /\ crossed = [t \in Task |-> [p \in Product |-> FALSE]]

----------------------------------------------------------------------------
(* The crawl of a task.                                                    *)

To(t, p, stage) == crawl' = [crawl EXCEPT ![t][p].stage = stage]

\* run_all_products, run_products_by_platform and _run_product_crawl: the
\* active products are read once
Load(t) ==
  LET found == {p \in Product : product[p] = "active"} IN
  /\ task[t].status = "pending"
  /\ task' = [task EXCEPT ![t] = [status |-> IF found = {} THEN "completed" ELSE "running",
                                  found |-> found]]
  /\ crawl' = [crawl EXCEPT ![t] = [p \in Product |->
                 [NoCrawl EXCEPT !.stage = IF p \in found THEN "waiting" ELSE "none"]]]
  /\ UNCHANGED <<product, webhook, history, alert, before, crossed, now>>

\* crawl_one_product under the semaphore: a product that is no longer active
\* is skipped before the request
Fetch(t, p) ==
  /\ crawl[t][p].stage = "waiting"
  /\ Cardinality({q \in Product : crawl[t][q].stage \in {"fetch", "save", "check"}}) < Concurrency
  /\ To(t, p, IF product[p] = "active" THEN "fetch" ELSE "skipped")
  /\ UNCHANGED <<product, webhook, history, alert, task, before, crossed, now>>

\* The site's answer is in: a new session reads the product again, and only
\* then takes the time of the record
Answer(t, p, price) ==
  /\ crawl[t][p].stage = "fetch" /\ now < MaxTime
  /\ IF product[p] # "active"
     THEN To(t, p, "skipped") /\ UNCHANGED <<before, crossed, now>>
     ELSE IF price = None
     THEN To(t, p, "error") /\ UNCHANGED <<before, crossed, now>>
     ELSE /\ crawl' = [crawl EXCEPT ![t][p] =
                         [stage |-> "save", price |-> price, at |-> now + 1, saved |-> FALSE]]
          /\ before' = [before EXCEPT ![t][p] = Nth(p, 1)]
          /\ crossed' = [crossed EXCEPT ![t][p] =
                           \E u \in Task \ {t} : crawl[u][p].stage \in {"save", "check"}]
          /\ now' = now + 1
  /\ UNCHANGED <<product, webhook, history, alert, task>>

\* save_price_history commits the record; of a deleted product it cannot
Save(t, p) ==
  /\ crawl[t][p].stage = "save" /\ Exists(p)
  /\ history' = history \cup {[product |-> p, price |-> crawl[t][p].price, at |-> crawl[t][p].at]}
  /\ crawl' = [crawl EXCEPT ![t][p].stage = "check", ![t][p].saved = TRUE]
  /\ crossed' = [u \in Task |-> [q \in Product |->
                   \/ crossed[u][q]
                   \/ u # t /\ q = p /\ crawl[u][p].stage \in {"save", "check"}]]
  /\ UNCHANGED <<product, webhook, alert, task, before, now>>

\* The commit fails: the exception is logged and the crawl goes on, or ends
\* when the session that failed cannot load the product any more
SaveFails(t, p) ==
  /\ crawl[t][p].stage = "save"
  /\ \E stage \in {"check", "error"} : To(t, p, stage)
  /\ UNCHANGED <<product, webhook, history, alert, task, before, crossed, now>>

\* The alerts the price calls for (check_price_alerts up to the message)
Dropped(threshold, old, new) ==
  threshold # None /\ old > 0 /\ (old - new) * 100 >= threshold * old

Due(t, p) ==
  LET new == crawl[t][p].price IN
  {a \in Alert : /\ alert[a].product = p /\ alert[a].active
                 /\ Exists(p) /\ webhook
                 /\ Previous(p) # None
                 /\ Dropped(alert[a].threshold, Previous(p), new)
                 /\ alert[a].notified = None \/ alert[a].notified > new}

\* check_price_alerts: the message for the first alert that is due asks the
\* price, a Decimal, for its currency.  That raises, nothing is sent and
\* nothing is stored, and the caller logs it.
Check(t, p) ==
  /\ crawl[t][p].stage = "check"
  /\ To(t, p, "success")
  /\ UNCHANGED <<product, webhook, history, alert, task, before, crossed, now>>

\* asyncio.gather is over: the counts decide on the status
Gather(t) ==
  LET is(stage) == {p \in task[t].found : crawl[t][p].stage = stage} IN
  /\ task[t].status = "running"
  /\ is("success") \cup is("error") \cup is("skipped") = task[t].found
  /\ task' = [task EXCEPT ![t].status =
                IF is("success") = {} /\ is("error") # {} THEN "failed" ELSE "completed"]
  /\ UNCHANGED <<product, webhook, history, alert, crawl, before, crossed, now>>

----------------------------------------------------------------------------
(* What the user does meanwhile.                                           *)

SetStatus(ps, status) ==
  /\ product' = [p \in Product |-> IF p \in ps THEN status ELSE product[p]]
  /\ UNCHANGED <<webhook, history, alert, task, crawl, before, crossed, now>>

CreateProduct(p, status) == product[p] = "absent" /\ SetStatus({p}, status)

\* batch_create_products: the items that pass its checks, as active products
CreateBatch(ps) == (\A p \in ps : product[p] = "absent") /\ SetStatus(ps, "active")

UpdateProduct(p, status) == Exists(p) /\ SetStatus({p}, status)

\* batch_update_products: ids that are not found are reported, the others set
UpdateBatch(ps, status) == SetStatus({p \in ps : Exists(p)}, status)

\* The history and the alerts go with the products (ondelete CASCADE)
Remove(ps) ==
  /\ product' = [p \in Product |-> IF p \in ps THEN "deleted" ELSE product[p]]
  /\ history' = {h \in history : h.product \notin ps}
  /\ alert' = [a \in Alert |-> IF alert[a].product \in ps THEN NoAlert ELSE alert[a]]
  /\ crossed' = [t \in Task |-> [p \in Product |-> p \in ps \/ crossed[t][p]]]
  /\ UNCHANGED <<webhook, task, crawl, before, now>>

DeleteProduct(p) == Exists(p) /\ Remove({p})

DeleteBatch(ps) == Remove({p \in ps : Exists(p)})

SetWebhook ==
  /\ webhook' = ~webhook
  /\ UNCHANGED <<product, history, alert, task, crawl, before, crossed, now>>

SetAlert(a, new) ==
  /\ alert' = [alert EXCEPT ![a] = new]
  /\ UNCHANGED <<product, webhook, history, task, crawl, before, crossed, now>>

CreateAlert(a, p, active, threshold) ==
  /\ alert[a] = NoAlert /\ Exists(p)
  /\ SetAlert(a, [product |-> p, active |-> active, threshold |-> threshold, notified |-> None])

\* update_alert leaves what was notified as it is
UpdateAlert(a, active, threshold) ==
  /\ alert[a] # NoAlert
  /\ SetAlert(a, [alert[a] EXCEPT !.active = active, !.threshold = threshold])

DeleteAlert(a) == alert[a] # NoAlert /\ SetAlert(a, NoAlert)

\* cleanup_old_data and delete_old_data: records older than a retention that
\* is a day or more, so older than the records of the crawls under way
Cleanup(cutoff) ==
  /\ \A t \in Task, p \in Product :
       crawl[t][p].stage \in {"save", "check"} => cutoff <= crawl[t][p].at
  /\ history' = {h \in history : h.at >= cutoff}
  /\ history' # history
  /\ crossed' = [t \in Task |-> [p \in Product |->
                   crossed[t][p] \/ \E h \in Records(p) : h.at < cutoff]]
  /\ UNCHANGED <<product, webhook, alert, task, crawl, before, now>>

Next ==
  \/ \E t \in Task :
       \/ Load(t) \/ Gather(t)
       \/ \E p \in Product :
            \/ Fetch(t, p) \/ Save(t, p) \/ SaveFails(t, p) \/ Check(t, p)
            \/ \E price \in Price \cup {None} : Answer(t, p, price)
  \/ \E p \in Product :
       \/ DeleteProduct(p)
       \/ \E status \in {"active", "inactive"} : CreateProduct(p, status) \/ UpdateProduct(p, status)
  \/ \E ps \in SUBSET Product \ {{}} :
       \/ CreateBatch(ps) \/ DeleteBatch(ps)
       \/ \E status \in {"active", "inactive"} : UpdateBatch(ps, status)
  \/ SetWebhook
  \/ \E a \in Alert :
       \/ DeleteAlert(a)
       \/ \E threshold \in Threshold \cup {None}, active \in BOOLEAN :
            \/ UpdateAlert(a, active, threshold)
            \/ \E p \in Product : CreateAlert(a, p, active, threshold)
  \/ \E cutoff \in 1..MaxTime : Cleanup(cutoff)

Spec == Init /\ [][Next]_vars

----------------------------------------------------------------------------
(* The price an alert is decided on is the one recorded before the crawl's *)
(* own, unless the crawl's own record was lost or, between the time of the *)
(* record and the comparison, another crawl of the product was at the same *)
(* point, old data was cleaned up or the product deleted.  In those cases  *)
(* the code may compare with a price that is too old, or with its own.     *)
ComparedWithPrevious ==
  \A t \in Task, p \in Product :
    crawl[t][p].stage = "check" /\ crawl[t][p].saved /\ ~crossed[t][p]
      => Previous(p) = before[t][p]

(* What the tutorial promises: when the threshold is reached the alert is  *)
(* sent, and last_notified_price and last_notified_at remember it.         *)
DropIsNotified ==
  [][\A t \in Task, p \in Product :
       crawl[t][p].stage = "check" /\ crawl'[t][p].stage = "success"
         => \A a \in Due(t, p) : alert'[a].notified = crawl[t][p].price]_vars
=============================================================================
