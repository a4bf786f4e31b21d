----------------------------- MODULE WorkItemSpec -----------------------------
(***************************************************************************)
(* What the work-item ledger promises, one item at a time: an item is      *)
(* registered, claimed, ingested and settled at most once each, in that    *)
(* order, and is settled SUCCEEDED only when its ingestion succeeded.      *)
(* WorkLedger implements it with sqlite statements and batch workers.      *)
(***************************************************************************)
CONSTANT Keys

VARIABLES items,    \* items[k]: the state column of work_items, or "absent"
          download  \* download[k]: how far downloader.ingest went for k

vars == <<items, download>>

Init ==
  /\ items = [k \in Keys |-> "absent"]
  /\ download = [k \in Keys |-> "none"]

Register(k) ==
  /\ items[k] = "absent"
  /\ items' = [items EXCEPT ![k] = "PLANNED"]
  /\ UNCHANGED download

Claim(k) ==
  /\ items[k] = "PLANNED"
  /\ items' = [items EXCEPT ![k] = "CLAIMED"]
  /\ UNCHANGED download

Ingest(k) ==
  /\ items[k] = "CLAIMED" /\ download[k] = "none"
  /\ download' = [download EXCEPT ![k] = "started"]
  /\ UNCHANGED items

IngestEnds(k) ==
  /\ items[k] = "CLAIMED" /\ download[k] = "started"
  /\ \E d \in {"succeeded", "failed"} : download' = [download EXCEPT ![k] = d]
  /\ UNCHANGED items

\* An ingestion that never began or did not succeed leaves the item to a review.
Settle(k) ==
  /\ items[k] = "CLAIMED" /\ download[k] # "started"
  /\ items' = [items EXCEPT ![k] = IF download[k] = "succeeded" THEN "SUCCEEDED"
                                                               ELSE "REVIEW_REQUIRED"]
  /\ UNCHANGED download

Next == \E k \in Keys :
          Register(k) \/ Claim(k) \/ Ingest(k) \/ IngestEnds(k) \/ Settle(k)

Spec == Init /\ [][Next]_vars
===============================================================================
