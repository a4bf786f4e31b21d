-------------------------- MODULE WorkLedger_proof --------------------------
(***************************************************************************)
(* Proofs about WorkLedger, for every set of keys, registrars, workers and *)
(* batches.  The inductive invariant ties each worker between its claim    *)
(* and its report to the two rows it has in the ledger (WorkerOK), and     *)
(* each item to the one attempt and the download it ever gets (ItemOK).    *)
(***************************************************************************)
EXTENDS WorkLedger, SequenceTheorems, TLAPS

\* The workers that have claimed the item they are at.
Settling == {"load", "ingest", "select", "attemptRow", "itemRow"}

Rows == [state : {"CLAIMED"} \cup Final, owner : Workers]
Reports == [key : Keys, status : Final \cup Blocked]

LockHeld == \A w \in Workers : lock = w <=> pc[w] = "claim"

\* What a worker relies on at each of its steps.
WorkerOK(w) ==
  LET k == Key(w)
  IN  /\ pc[w] \in Busy => KeepsGoing(w, results[w])
      /\ pc[w] = "claim" => items[k] = "PLANNED"
      /\ pc[w] \in Settling =>
           /\ items[k] = "CLAIMED"
           /\ Len(attempts[k]) = 1 /\ attempt[w] = 1
           /\ attempts[k][1].owner = w
           /\ attempts[k][1].state = IF pc[w] = "itemRow" THEN outcome[w] ELSE "CLAIMED"
      /\ pc[w] = "load" => download[k] = "none"
      /\ pc[w] = "ingest" => download[k] = "started"
      /\ pc[w] \in {"select", "attemptRow", "itemRow"} =>
           download[k] = IF outcome[w] = "SUCCEEDED" THEN "succeeded" ELSE "failed"

\* What the rows of an item say of its attempt, its worker and its download.
ItemOK(k) ==
  LET row == attempts[k][1]
  IN  /\ items[k] \in {"absent", "PLANNED"} => attempts[k] = <<>> /\ download[k] = "none"
      /\ items[k] \notin {"absent", "PLANNED"} => Len(attempts[k]) = 1
      /\ items[k] = "SUCCEEDED" => row.state = "SUCCEEDED" /\ download[k] = "succeeded"
      /\ items[k] = "REVIEW_REQUIRED" => row.state \in {"FAILED", "INTERRUPTED"}
      /\ items[k] = "CLAIMED" =>
           \/ Lost(row.owner)
           \/ pc[row.owner] \in Settling /\ Key(row.owner) = k

\* An item is in the table with the data of the registrar that was told CREATED, and
\* no other item is in the table.
Registered ==
  /\ \A r \in Registrars :
       answer[r] = "CREATED" =>
         /\ items[registration[r].key] # "absent"
         /\ metadata[registration[r].key] = registration[r].data
  /\ \A k \in Keys :
       items[k] # "absent" =>
         \E r \in Registrars : answer[r] = "CREATED" /\ registration[r].key = k

IInv == /\ TypeOK
        /\ LockHeld
        /\ \A w \in Workers : WorkerOK(w)
        /\ \A k \in Keys : ItemOK(k)
        /\ Registered
        /\ OneRegistration
        /\ ReportsAreDurable
-----------------------------------------------------------------------------
\* The key at which a worker is, is one of the batch's.
LEMMA KeyIsKey ==
  ASSUME TypeOK, NEW w \in Workers, KeepsGoing(w, results[w])
  PROVE  Key(w) \in Keys
<1>1. /\ batch[w].keys \in Seq(Keys) /\ batch[w].max \in Nat
      /\ Len(results[w]) \in Nat
  BY BatchesValid DEF TypeOK
<1>2. Len(results[w]) + 1 \in 1..Len(batch[w].keys)
  BY <1>1 DEF KeepsGoing, AtMost
<1> QED BY <1>1, <1>2 DEF Key

LEMMA AtKey ==
  ASSUME IInv, NEW w \in Workers, pc[w] \in Busy
  PROVE  Key(w) \in Keys /\ KeepsGoing(w, results[w])
<1>1. KeepsGoing(w, results[w])
  BY DEF IInv, WorkerOK
<1> QED BY <1>1, KeyIsKey DEF IInv

\* A single attempt row names a worker.
LEMMA RowIsRow ==
  ASSUME TypeOK, NEW k \in Keys, Len(attempts[k]) = 1
  PROVE  attempts[k][1] \in Rows /\ attempts[k][1].owner \in Workers
<1>1. attempts[k] \in Seq(Rows)
  BY DEF TypeOK, Rows
<1>2. attempts[k][1] \in Rows
  BY <1>1, ElementOfSeq
<1> QED BY <1>2 DEF Rows

\* Every reason for which a claim is refused is one the report may carry.
LEMMA ClaimStatuses ==
  /\ ClaimStatus("absent") = "WORK_ITEM_NOT_FOUND"
  /\ ClaimStatus("CLAIMED") = "ALREADY_CLAIMED"
  /\ ClaimStatus("SUCCEEDED") = "ALREADY_SUCCEEDED"
  /\ ClaimStatus("REVIEW_REQUIRED") = "REVIEW_REQUIRED"
<1>1. ClaimStatus("absent") = "WORK_ITEM_NOT_FOUND"
  BY Zenon DEF ClaimStatus
<1>2. ClaimStatus("CLAIMED") = "ALREADY_CLAIMED"
  BY Zenon DEF ClaimStatus
<1>3. ClaimStatus("SUCCEEDED") = "ALREADY_SUCCEEDED"
  BY Zenon DEF ClaimStatus
<1>4. ClaimStatus("REVIEW_REQUIRED") = "REVIEW_REQUIRED"
  BY Zenon DEF ClaimStatus
<1> QED BY <1>1, <1>2, <1>3, <1>4

\* Appending a report changes nothing else, and says whether the worker goes on.
LEMMA ResultEffect ==
  ASSUME IInv, NEW w \in Workers, pc[w] \in Busy,
         NEW status \in Final \cup Blocked, Result(w, status), batch' = batch
  PROVE  /\ results' \in [Workers -> Seq(Reports)]
         /\ pc' \in [Workers -> Busy \cup {"done", "raised", "dead"}]
         /\ \A v \in Workers \ {w} : results'[v] = results[v] /\ pc'[v] = pc[v]
         /\ pc'[w] = "begin" \/ pc'[w] = "done"
         /\ pc'[w] = "begin" => KeepsGoing(w, results[w])'
         /\ \A i \in DOMAIN results'[w] :
              \/ i \in DOMAIN results[w] /\ results'[w][i] = results[w][i]
              \/ results'[w][i] = [key |-> Key(w), status |-> status]
<1> DEFINE x == [key |-> Key(w), status |-> status]
           s == Append(results[w], x)
<1>1. x \in Reports /\ results[w] \in Seq(Reports)
  BY AtKey DEF IInv, TypeOK, Reports
<1>2. /\ s \in Seq(Reports)
      /\ \A i \in DOMAIN s : (i \in DOMAIN results[w] /\ s[i] = results[w][i]) \/ s[i] = x
  BY <1>1, AppendProperties
<1>3. results' = [results EXCEPT ![w] = s]
  BY DEF Result
<1>4. results' \in [Workers -> Seq(Reports)]
  BY <1>2, <1>3 DEF IInv, TypeOK, Reports
<1>5. results'[w] = s
  BY <1>3 DEF IInv, TypeOK
<1> HIDE DEF s
<1>6. \E l \in {"begin", "done"} : /\ pc' = [pc EXCEPT ![w] = l]
                                   /\ l = "begin" => KeepsGoing(w, s)
  BY DEF Result, s
<1>7. KeepsGoing(w, results[w])' <=> KeepsGoing(w, s)
  BY <1>5 DEF KeepsGoing
<1> QED BY <1>2, <1>3, <1>4, <1>5, <1>6, <1>7 DEF IInv, TypeOK, Busy
\* A worker is left alone by a step that is not its own and not at its key.
LEMMA WorkerStays ==
  ASSUME NEW v \in Workers, WorkerOK(v),
         pc'[v] = pc[v], attempt'[v] = attempt[v], outcome'[v] = outcome[v],
         results'[v] = results[v], batch' = batch,
         pc[v] \in Settling \cup {"claim"} =>
           /\ items'[Key(v)] = items[Key(v)]
           /\ attempts'[Key(v)] = attempts[Key(v)]
           /\ download'[Key(v)] = download[Key(v)]
  PROVE  WorkerOK(v)'
<1>1. Key(v)' = Key(v) /\ (KeepsGoing(v, results[v])' <=> KeepsGoing(v, results[v]))
  BY DEF Key, KeepsGoing
<1> QED BY <1>1 DEF WorkerOK, Settling

\* A report about an item whose rows and download stay, stays true.
LEMMA ReportStays ==
  ASSUME NEW v \in Workers, NEW x \in Reports, ReportHolds(v, x),
         items'[x.key] = items[x.key], attempts'[x.key] = attempts[x.key],
         download'[x.key] = download[x.key]
  PROVE  ReportHolds(v, x)'
BY DEF ReportHolds

\* A step of w that touches the rows of one key: only that item, that worker and the
\* reports about that key have to be looked at.
LEMMA WorkerStepKeeps ==
  ASSUME IInv, NEW w \in Workers, NEW k \in Keys,
         pc[w] \in Busy,
         TypeOK', LockHeld',
         metadata' = metadata, registration' = registration, answer' = answer, batch' = batch,
         \A v \in Workers \ {w} : /\ pc'[v] = pc[v] /\ attempt'[v] = attempt[v]
                                  /\ outcome'[v] = outcome[v] /\ results'[v] = results[v],
         \A j \in Keys \ {k} : /\ items'[j] = items[j] /\ attempts'[j] = attempts[j]
                               /\ download'[j] = download[j],
         \/ items'[k] = items[k] /\ attempts'[k] = attempts[k] /\ download'[k] = download[k]
         \/ \A v \in Workers \ {w} : pc[v] \in Settling \cup {"claim"} => Key(v) # k,
         items[k] # "absent" <=> items'[k] # "absent",
         pc[w] \in Settling => Key(w) = k,
         WorkerOK(w)',
         ItemOK(k)',
         \A v \in Workers, x \in Reports : x.key = k /\ ReportHolds(v, x) => ReportHolds(v, x)',
         \A i \in DOMAIN results'[w] :
           \/ i \in DOMAIN results[w] /\ results'[w][i] = results[w][i]
           \/ \E x \in Reports : results'[w][i] = x /\ ReportHolds(w, x)'
  PROVE  IInv'
<1> USE DEF IInv
<1>1. ASSUME NEW v \in Workers \ {w} PROVE WorkerOK(v)'
  <2>1. pc[v] \in Settling \cup {"claim"} =>
          /\ items'[Key(v)] = items[Key(v)] /\ attempts'[Key(v)] = attempts[Key(v)]
          /\ download'[Key(v)] = download[Key(v)]
    <3>1. ASSUME pc[v] \in Settling \cup {"claim"} PROVE Key(v) \in Keys
      BY <3>1, AtKey DEF Settling, Busy
    <3> QED BY <3>1
  <2> QED BY <2>1, WorkerStays
<1>2. ASSUME NEW j \in Keys \ {k} PROVE ItemOK(j)'
  <2>1. items'[j] = items[j] /\ attempts'[j] = attempts[j] /\ download'[j] = download[j]
    OBVIOUS
  <2>2. ASSUME items[j] = "CLAIMED", NEW o, o = attempts[j][1].owner
        PROVE  Lost(o)' \/ (pc'[o] \in Settling /\ Key(o)' = j)
    <3>1. Len(attempts[j]) = 1 /\ (Lost(o) \/ (pc[o] \in Settling /\ Key(o) = j))
      BY <2>2 DEF ItemOK
    <3>2. o \in Workers
      BY <2>2, <3>1, RowIsRow
    <3>3. o # w
      BY <3>1 DEF Lost, Busy, Settling
    <3> QED BY <3>1, <3>2, <3>3 DEF Lost, Key
  <2> QED BY <2>1, <2>2 DEF ItemOK, Lost, Key
<1>3. ASSUME NEW v \in Workers, NEW i \in DOMAIN results'[v], NEW x, x = results'[v][i]
      PROVE  ReportHolds(v, x)'
  <2>1. results[v] \in Seq(Reports)
    BY DEF TypeOK, Reports
  <2>2. CASE i \in DOMAIN results[v] /\ results'[v][i] = results[v][i]
    <3>1. x \in Reports /\ ReportHolds(v, x)
      BY <1>3, <2>1, <2>2 DEF ReportsAreDurable
    <3>2. x.key \in Keys
      BY <3>1 DEF Reports
    <3> QED BY <3>1, <3>2, ReportStays
  <2> QED BY <1>3, <2>2
<1>4. Registered' /\ OneRegistration'
  <2>1. \A j \in Keys : items[j] # "absent" <=> items'[j] # "absent"
    OBVIOUS
  <2>2. \A r \in Registrars : registration[r].key \in Keys
    BY RegistrationsValid DEF TypeOK
  <2>3. Registered'
    BY <2>1, <2>2 DEF Registered
  <2> QED BY <2>3 DEF OneRegistration
<1>5. \A v \in Workers : WorkerOK(v)'
  BY <1>1
<1>6. \A j \in Keys : ItemOK(j)'
  BY <1>2
<1>7. ReportsAreDurable'
  BY <1>3 DEF ReportsAreDurable, ReportHolds
<1> QED BY <1>4, <1>5, <1>6, <1>7
\* A step of a registrar that leaves the tables alone.
LEMMA AnswerKeeps ==
  ASSUME IInv, NEW r \in Registrars, NEW a \in {"insert"} \cup Told,
         answer[r] \in {"select", "insert"},
         answer' = [answer EXCEPT ![r] = a],
         a # "CREATED",
         a = "EXISTING_MATCH" =>
           /\ items[registration[r].key] # "absent"
           /\ metadata[registration[r].key].columns = registration[r].data.columns,
         UNCHANGED <<ledgerVars, download, registration, workerVars>>
  PROVE  IInv'
<1> USE DEF IInv, ledgerVars, workerVars
<1>1. TypeOK'
  BY DEF TypeOK
<1>2. LockHeld' /\ (\A w \in Workers : WorkerOK(w)') /\ (\A k \in Keys : ItemOK(k)')
  BY DEF LockHeld, WorkerOK, ItemOK, Key, KeepsGoing, Lost
<1>3. answer'[r] = a /\ \A s \in Registrars \ {r} : answer'[s] = answer[s]
  BY DEF TypeOK
<1>4. \A s \in Registrars : answer'[s] = "CREATED" <=> answer[s] = "CREATED"
  BY <1>3
<1>5. Registered'
  BY <1>4 DEF Registered
<1>6. registration[r].key \in Keys
  BY RegistrationsValid DEF TypeOK
<1>7. OneRegistration'
  <2> SUFFICES ASSUME NEW s \in Registrars,
                      NEW k, k = registration[s].key
               PROVE  /\ answer'[s] = "CREATED" =>
                           /\ metadata[k] = registration[s].data
                           /\ \A t \in Registrars \ {s} :
                                registration[t].key = k => answer'[t] # "CREATED"
                      /\ answer'[s] = "EXISTING_MATCH" =>
                           /\ metadata[k].columns = registration[s].data.columns
                           /\ \E t \in Registrars : answer'[t] = "CREATED"
                                                   /\ registration[t].key = k
    BY DEF OneRegistration
  <2>1. CASE s = r
    BY <1>3, <1>4, <1>6, <2>1 DEF Registered
  <2>2. CASE s # r
    BY <1>3, <1>4, <2>2 DEF OneRegistration
  <2> QED BY <2>1, <2>2
<1>8. ReportsAreDurable'
  BY DEF ReportsAreDurable, ReportHolds
<1> QED BY <1>1, <1>2, <1>5, <1>7, <1>8

LEMMA RegisterSelectKeeps ==
  ASSUME IInv, NEW r \in Registrars, RegisterSelect(r) PROVE IInv'
<1> DEFINE k == registration[r].key
           a == IF items[k] = "absent" THEN "insert"
                ELSE IF metadata[k].columns = registration[r].data.columns
                     THEN "EXISTING_MATCH" ELSE "Conflict"
<1>1. a \in {"insert"} \cup Told /\ a # "CREATED"
  BY DEF Told
<1>2. a = "EXISTING_MATCH" =>
        items[k] # "absent" /\ metadata[k].columns = registration[r].data.columns
  OBVIOUS
<1>3. /\ answer[r] = "select" /\ answer' = [answer EXCEPT ![r] = a]
      /\ UNCHANGED <<ledgerVars, download, registration, workerVars>>
  BY DEF RegisterSelect
<1> HIDE DEF a
<1> QED BY <1>1, <1>2, <1>3, AnswerKeeps

LEMMA RegistrarFailsKeeps ==
  ASSUME IInv, NEW r \in Registrars, RegistrarFails(r) PROVE IInv'
<1>1. PICK a \in {"SqliteError", "dead"} : answer' = [answer EXCEPT ![r] = a]
  BY DEF RegistrarFails
<1>2. a \in {"insert"} \cup Told /\ a # "CREATED" /\ a # "EXISTING_MATCH"
  BY DEF Told
<1> QED BY <1>1, <1>2, AnswerKeeps DEF RegistrarFails

\* The INSERT finds a row, or makes the first one for its key.
LEMMA RegisterInsertKeeps ==
  ASSUME IInv, NEW r \in Registrars, RegisterInsert(r) PROVE IInv'
<1> DEFINE k == registration[r].key
<1>1. /\ answer[r] = "insert" /\ k \in Keys /\ registration[r].data \in Metadata
      /\ UNCHANGED <<attempts, lock, download, registration, workerVars>>
  BY RegistrationsValid DEF IInv, TypeOK, RegisterInsert
<1>2. CASE items[k] # "absent"
  <2>1. /\ answer' = [answer EXCEPT ![r] = "SqliteError"]
        /\ UNCHANGED <<ledgerVars, download, registration, workerVars>>
    BY <1>2 DEF RegisterInsert, ledgerVars
  <2>2. "SqliteError" \in {"insert"} \cup Told
    BY DEF Told
  <2> QED BY <1>1, <2>1, <2>2, AnswerKeeps
<1>3. CASE items[k] = "absent"
  <2> USE DEF IInv, workerVars
  <2>1. /\ items' = [items EXCEPT ![k] = "PLANNED"]
        /\ metadata' = [metadata EXCEPT ![k] = registration[r].data]
        /\ answer' = [answer EXCEPT ![r] = "CREATED"]
    BY <1>3 DEF RegisterInsert
  <2>2. TypeOK'
    BY <1>1, <2>1 DEF TypeOK, ItemStates, Told
  <2>3. LockHeld'
    BY <1>1 DEF LockHeld
  <2> HIDE DEF k
  <2>4. /\ items'[k] = "PLANNED" /\ metadata'[k] = registration[r].data
        /\ answer'[r] = "CREATED"
        /\ \A j \in Keys \ {k} : items'[j] = items[j] /\ metadata'[j] = metadata[j]
        /\ \A s \in Registrars \ {r} : answer'[s] = answer[s]
    BY <1>1, <2>1 DEF TypeOK
  <2>5. ASSUME NEW w \in Workers PROVE WorkerOK(w)'
    <3>1. ASSUME pc[w] \in Settling \cup {"claim"} PROVE items'[Key(w)] = items[Key(w)]
      <4>1. Key(w) \in Keys /\ items[Key(w)] # "absent"
        BY <3>1, AtKey DEF WorkerOK, Settling, Busy
      <4> QED BY <1>3, <2>4, <4>1
    <3> QED BY <1>1, <3>1, WorkerStays
  <2>6. ASSUME NEW j \in Keys PROVE ItemOK(j)'
    BY <1>1, <1>3, <2>4 DEF ItemOK, Lost, Key
  <2>7. /\ registration[r].key = k
        /\ \A s \in Registrars :
             /\ registration[s].key \in Keys
             /\ answer[s] = "CREATED" => registration[s].key # k
             /\ answer'[s] = "CREATED" <=> (s = r \/ answer[s] = "CREATED")
    BY <1>3, <2>4, RegistrationsValid DEF Registered, TypeOK, k
  <2>8. Registered'
    <3>1. ASSUME NEW s \in Registrars, answer'[s] = "CREATED"
          PROVE  /\ items'[registration[s].key] # "absent"
                 /\ metadata'[registration[s].key] = registration[s].data
      <4>1. CASE s = r
        BY <2>4, <2>7, <4>1
      <4>2. CASE s # r
        <5>1. /\ registration[s].key \in Keys \ {k}
              /\ items[registration[s].key] # "absent"
              /\ metadata[registration[s].key] = registration[s].data
          BY <2>7, <3>1, <4>2 DEF Registered
        <5> QED BY <2>4, <5>1
      <4> QED BY <4>1, <4>2
    <3>2. ASSUME NEW j \in Keys, items'[j] # "absent"
          PROVE  \E s \in Registrars : answer'[s] = "CREATED" /\ registration[s].key = j
      BY <2>4, <2>7, <3>2 DEF Registered
    <3> QED BY <1>1, <3>1, <3>2 DEF Registered
  <2>10. OneRegistration'
    <3>1. ASSUME NEW s \in Registrars, answer'[s] = "CREATED"
          PROVE  /\ metadata'[registration[s].key] = registration[s].data
                 /\ \A t \in Registrars \ {s} :
                      registration[t].key = registration[s].key => answer'[t] # "CREATED"
      <4>1. metadata'[registration[s].key] = registration[s].data
        BY <1>1, <2>8, <3>1 DEF Registered
      <4>2. ASSUME NEW t \in Registrars \ {s}, registration[t].key = registration[s].key,
                   answer'[t] = "CREATED"
            PROVE  FALSE
        <5>1. \/ s = r /\ answer[t] = "CREATED" /\ registration[t].key = k
              \/ t = r /\ answer[s] = "CREATED" /\ registration[s].key = k
              \/ answer[s] = "CREATED" /\ answer[t] = "CREATED"
          BY <2>7, <3>1, <4>2
        <5>2. answer[s] = "CREATED" => answer[t] # "CREATED"
          BY <4>2 DEF OneRegistration
        <5> QED BY <2>7, <5>1, <5>2
      <4> QED BY <4>1, <4>2
    <3>2. ASSUME NEW s \in Registrars, answer'[s] = "EXISTING_MATCH"
          PROVE  /\ metadata'[registration[s].key].columns = registration[s].data.columns
                 /\ \E t \in Registrars : answer'[t] = "CREATED"
                                         /\ registration[t].key = registration[s].key
      <4>1. answer[s] = "EXISTING_MATCH"
        BY <2>4, <3>2
      <4>2. /\ metadata[registration[s].key].columns = registration[s].data.columns
            /\ \E t \in Registrars : answer[t] = "CREATED"
                                    /\ registration[t].key = registration[s].key
        BY <4>1 DEF OneRegistration
      <4>3. PICK t \in Registrars : answer[t] = "CREATED"
                                  /\ registration[t].key = registration[s].key
        BY <4>2
      <4>4. registration[s].key \in Keys \ {k} /\ answer'[t] = "CREATED"
        BY <2>7, <4>3
      <4>5. metadata'[registration[s].key] = metadata[registration[s].key]
        BY <2>4, <4>4
      <4> QED BY <4>2, <4>3, <4>4, <4>5
    <3> QED BY <1>1, <3>1, <3>2 DEF OneRegistration
  <2>9. ReportsAreDurable'
    <3> SUFFICES ASSUME NEW w \in Workers, NEW i \in DOMAIN results[w],
                        NEW x, x = results[w][i]
                 PROVE  ReportHolds(w, x)'
      BY <1>1 DEF ReportsAreDurable, ReportHolds
    <3>0. results[w] \in Seq(Reports)
      BY DEF TypeOK, Reports
    <3>1. x \in Reports /\ ReportHolds(w, x)
      BY <3>0 DEF ReportsAreDurable
    <3>2. x.key \in Keys
      BY <3>1 DEF Reports
    <3> QED BY <1>1, <1>3, <2>4, <3>1, <3>2 DEF ReportHolds, Reports
  <2> QED BY <2>2, <2>3, <2>5, <2>6, <2>8, <2>9, <2>10
<1> QED BY <1>2, <1>3
-----------------------------------------------------------------------------
\* A step that leaves the ledger and the downloads alone moves its worker on or ends it.
LEMMA LocalKeeps ==
  ASSUME IInv, NEW w \in Workers, pc[w] \in Busy, TypeOK', LockHeld',
         UNCHANGED <<items, metadata, attempts, download, registration, answer, batch>>,
         \A v \in Workers \ {w} : /\ pc'[v] = pc[v] /\ attempt'[v] = attempt[v]
                                  /\ outcome'[v] = outcome[v] /\ results'[v] = results[v],
         \/ Lost(w)'
         \/ pc[w] \in Settling /\ pc'[w] \in Settling /\ results'[w] = results[w]
         \/ pc[w] \notin Settling,
         WorkerOK(w)',
         \A i \in DOMAIN results'[w] :
           \/ i \in DOMAIN results[w] /\ results'[w][i] = results[w][i]
           \/ \E x \in Reports : results'[w][i] = x /\ ReportHolds(w, x)'
  PROVE  IInv'
<1>1. PICK k \in Keys : k = Key(w)
  BY AtKey
<1>2. ItemOK(k)'
  <2>1. ItemOK(k)
    BY <1>1 DEF IInv
  <2>2. ASSUME items[k] = "CLAIMED", NEW o, o = attempts[k][1].owner
        PROVE  Lost(o)' \/ (pc'[o] \in Settling /\ Key(o)' = k)
    <3>1. Len(attempts[k]) = 1 /\ (Lost(o) \/ (pc[o] \in Settling /\ Key(o) = k))
      BY <2>1, <2>2 DEF ItemOK
    <3>2. o \in Workers
      BY <1>1, <2>2, <3>1, RowIsRow DEF IInv
    <3>3. CASE o # w
      BY <3>1, <3>2, <3>3 DEF Lost, Key
    <3>4. CASE o = w
      BY <1>1, <3>1, <3>4 DEF Lost, Key, Busy
    <3> QED BY <3>3, <3>4
  <2> QED BY <2>1, <2>2 DEF ItemOK, Lost, Key
<1>3. \A v \in Workers, x \in Reports : ReportHolds(v, x) => ReportHolds(v, x)'
  BY DEF ReportHolds
<1> QED BY <1>1, <1>2, <1>3, WorkerStepKeeps

LEMMA ClaimBeginKeeps == ASSUME IInv, NEW w \in Workers, ClaimBegin(w) PROVE IInv'
<1>0. PICK k \in Keys : k = Key(w)
  BY AtKey DEF ClaimBegin, Busy
<1>1. /\ pc[w] = "begin" /\ pc[w] \in Busy /\ lock = NoProc
      /\ UNCHANGED <<items, metadata, attempts, download, registration, answer, batch,
                     attempt, outcome>>
      /\ KeepsGoing(w, results[w])
  BY AtKey DEF ClaimBegin, Unlocked, registrarVars, Busy
<1>2. CASE items[k] = "PLANNED"
  <2>1. lock' = w /\ pc' = [pc EXCEPT ![w] = "claim"] /\ results' = results
    BY <1>0, <1>2 DEF ClaimBegin
  <2>2. pc'[w] = "claim" /\ \A v \in Workers \ {w} : pc'[v] = pc[v]
    BY <2>1 DEF IInv, TypeOK
  <2>3. TypeOK'
    BY <1>1, <2>1 DEF IInv, TypeOK, Busy
  <2>4. LockHeld'
    BY <1>1, <2>1, <2>2, NoProcIsNoWorker DEF IInv, LockHeld
  <2>5. WorkerOK(w)'
    BY <1>0, <1>1, <1>2, <2>1, <2>2 DEF WorkerOK, Key, KeepsGoing, Settling
  <2> QED BY <1>1, <2>1, <2>2, <2>3, <2>4, <2>5, LocalKeeps DEF Settling
<1>3. CASE items[k] # "PLANNED"
  <2>1. PICK status : status = ClaimStatus(items[k])
    OBVIOUS
  <2>2. Result(w, status) /\ lock' = lock
    BY <1>0, <1>3, <2>1 DEF ClaimBegin
  <2>3. items[k] \in {"absent", "CLAIMED", "SUCCEEDED", "REVIEW_REQUIRED"}
    BY <1>3 DEF IInv, TypeOK, ItemStates
  <2>4. /\ status \in Blocked /\ status \notin Final
        /\ status = "ALREADY_CLAIMED" => items[k] = "CLAIMED"
        /\ status = "ALREADY_SUCCEEDED" => items[k] = "SUCCEEDED"
        /\ status = "REVIEW_REQUIRED" => items[k] = "REVIEW_REQUIRED"
    BY <2>1, <2>3, ClaimStatuses DEF Blocked, Final
  <2>5. PICK x \in Reports : x = [key |-> k, status |-> status]
    BY <2>4 DEF Reports
  <2>6. /\ results' \in [Workers -> Seq(Reports)]
        /\ pc' \in [Workers -> Busy \cup {"done", "raised", "dead"}]
        /\ \A v \in Workers \ {w} : results'[v] = results[v] /\ pc'[v] = pc[v]
        /\ pc'[w] = "begin" \/ pc'[w] = "done"
        /\ pc'[w] = "begin" => KeepsGoing(w, results[w])'
        /\ \A i \in DOMAIN results'[w] :
             \/ i \in DOMAIN results[w] /\ results'[w][i] = results[w][i]
             \/ results'[w][i] = x
    BY <1>0, <1>1, <2>2, <2>4, <2>5, ResultEffect
  <2>7. ReportHolds(w, x)'
    BY <1>1, <2>4, <2>5 DEF ReportHolds, Final
  <2>8. TypeOK'
    BY <1>1, <2>2, <2>6 DEF IInv, TypeOK, Reports
  <2>9. LockHeld'
    BY <1>1, <2>2, <2>6, NoProcIsNoWorker DEF IInv, LockHeld
  <2>10. WorkerOK(w)'
    BY <2>6 DEF WorkerOK, Settling, Busy
  <2>11. pc[w] \notin Settling
    BY <1>1 DEF Settling
  <2>12. \A i \in DOMAIN results'[w] :
           \/ i \in DOMAIN results[w] /\ results'[w][i] = results[w][i]
           \/ \E y \in Reports : results'[w][i] = y /\ ReportHolds(w, y)'
    BY <2>6, <2>7
  <2> QED BY <1>1, <2>6, <2>8, <2>9, <2>10, <2>11, <2>12, LocalKeeps
<1> QED BY <1>2, <1>3
LEMMA ClaimCommitKeeps == ASSUME IInv, NEW w \in Workers, ClaimCommit(w) PROVE IInv'
<1>1. PICK k \in Keys : k = Key(w)
  BY AtKey DEF ClaimCommit, Busy
<1>2. /\ pc[w] = "claim" /\ pc[w] \in Busy /\ pc[w] \notin Settling
      /\ items[k] = "PLANNED" /\ attempts[k] = <<>> /\ download[k] = "none"
      /\ lock = w /\ KeepsGoing(w, results[w])
      /\ \A v \in Workers \ {w} : pc[v] # "claim"
  BY <1>1, AtKey DEF IInv, ClaimCommit, Busy, Settling, WorkerOK, ItemOK, LockHeld
<1> DEFINE row == [state |-> "CLAIMED", owner |-> w]
<1>3. /\ attempts' = [attempts EXCEPT ![k] = Append(@, row)]
      /\ items' = [items EXCEPT ![k] = "CLAIMED"]
      /\ attempt' = [attempt EXCEPT ![w] = Len(attempts[k]) + 1]
      /\ lock' = NoProc
      /\ pc' = [pc EXCEPT ![w] = "load"]
      /\ UNCHANGED <<metadata, download, registration, answer, batch, outcome, results>>
  BY <1>1 DEF ClaimCommit, registrarVars
<1>4. row \in Rows /\ Append(<<>>, row) \in Seq(Rows)
      /\ Len(Append(<<>>, row)) = 1 /\ Append(<<>>, row)[1] = row
  BY DEF Rows
<1>5. /\ attempts'[k] = Append(<<>>, row) /\ items'[k] = "CLAIMED" /\ attempt'[w] = 1
      /\ pc'[w] = "load"
      /\ \A v \in Workers \ {w} : pc'[v] = pc[v] /\ attempt'[v] = attempt[v]
      /\ \A j \in Keys \ {k} : attempts'[j] = attempts[j] /\ items'[j] = items[j]
  BY <1>2, <1>3 DEF IInv, TypeOK
<1>6. TypeOK'
  <2>1. attempts' \in [Keys -> Seq(Rows)]
    BY <1>2, <1>3, <1>4 DEF IInv, TypeOK, Rows
  <2>2. attempt' \in [Workers -> Nat]
    BY <1>2, <1>3 DEF IInv, TypeOK
  <2> QED BY <1>3, <2>1, <2>2 DEF IInv, TypeOK, Rows, Busy, ItemStates
<1>7. LockHeld'
  BY <1>2, <1>3, <1>5, NoProcIsNoWorker DEF LockHeld
<1>8. attempts'[k][1].owner = w /\ attempts'[k][1].state = "CLAIMED" /\ Len(attempts'[k]) = 1
  BY <1>4, <1>5
<1>9. Key(w)' = k /\ KeepsGoing(w, results[w])'
  BY <1>1, <1>2, <1>3 DEF Key, KeepsGoing
<1>10. WorkerOK(w)'
  BY <1>2, <1>3, <1>5, <1>8, <1>9 DEF WorkerOK
<1>11. ItemOK(k)'
  BY <1>5, <1>8, <1>9 DEF ItemOK, Settling
<1>12. \A v \in Workers \ {w} : pc[v] \in Settling \cup {"claim"} => Key(v) # k
  BY <1>2 DEF IInv, WorkerOK
<1>13. ASSUME NEW v \in Workers, NEW x \in Reports, x.key = k, ReportHolds(v, x)
       PROVE  ReportHolds(v, x)'
  <2>1. v \in Workers /\ x.status \notin Final
    BY <1>2, <1>13 DEF ReportHolds, Final
  <2>2. x.status \notin {"ALREADY_SUCCEEDED", "REVIEW_REQUIRED", "ALREADY_CLAIMED"}
    BY <1>2, <1>13 DEF ReportHolds
  <2> QED BY <2>1, <2>2 DEF ReportHolds, Final
<1> QED BY <1>2, <1>3, <1>5, <1>6, <1>7, <1>10, <1>11, <1>12, <1>13, WorkerStepKeeps

\* What the worker at an item that it has claimed may assume, and which others may not
\* be there: the attempt row has one owner.
LEMMA AtItem ==
  ASSUME IInv, NEW w \in Workers, pc[w] \in Settling, NEW k, k = Key(w)
  PROVE  /\ pc[w] \in Busy /\ k \in Keys /\ KeepsGoing(w, results[w])
         /\ items[k] = "CLAIMED" /\ attempt[w] = 1
         /\ Len(attempts[k]) = 1 /\ attempts[k] \in Seq(Rows)
         /\ attempts[k][1] \in Rows /\ attempts[k][1].owner = w
         /\ \A v \in Workers \ {w} : pc[v] \in Settling \cup {"claim"} => Key(v) # k
<1>1. pc[w] \in Busy /\ k \in Keys /\ KeepsGoing(w, results[w])
  BY AtKey DEF Settling, Busy
<1>2. /\ items[k] = "CLAIMED" /\ attempt[w] = 1
      /\ Len(attempts[k]) = 1 /\ attempts[k][1].owner = w
  BY DEF IInv, WorkerOK
<1>3. attempts[k] \in Seq(Rows) /\ attempts[k][1] \in Rows
  BY <1>1, <1>2, RowIsRow DEF IInv, TypeOK, Rows
<1>4. \A v \in Workers \ {w} : pc[v] \in Settling \cup {"claim"} => Key(v) # k
  BY <1>2 DEF IInv, WorkerOK
<1> QED BY <1>1, <1>2, <1>3, <1>4
\* While an item is CLAIMED the only reports about it are that it is; its own worker may
\* change the attempt row and the download without making any of them false.
LEMMA ClaimedReportsStay ==
  ASSUME NEW v \in Workers, NEW x \in Reports, ReportHolds(v, x), items[x.key] = "CLAIMED",
         items'[x.key] \in {"CLAIMED", "SUCCEEDED", "REVIEW_REQUIRED"}
  PROVE  ReportHolds(v, x)'
<1>1. x.status \notin Final /\ x.status \notin {"ALREADY_SUCCEEDED", "REVIEW_REQUIRED"}
  BY DEF ReportHolds, Final
<1> QED BY <1>1 DEF ReportHolds, Final

LEMMA LoadKeeps == ASSUME IInv, NEW w \in Workers, Load(w) PROVE IInv'
<1>1. PICK k : k = Key(w)
  OBVIOUS
<1>2. pc[w] = "load" /\ pc[w] \in Settling
  BY DEF Load, Settling
<1>3. /\ pc[w] \in Busy /\ k \in Keys /\ KeepsGoing(w, results[w])
      /\ items[k] = "CLAIMED" /\ attempt[w] = 1 /\ Len(attempts[k]) = 1
      /\ attempts[k][1].owner = w
      /\ \A v \in Workers \ {w} : pc[v] \in Settling \cup {"claim"} => Key(v) # k
  BY <1>1, <1>2, AtItem
<1>4. /\ pc' = [pc EXCEPT ![w] = "ingest"] /\ download' = [download EXCEPT ![k] = "started"]
      /\ UNCHANGED <<items, metadata, attempts, lock, registration, answer,
                     batch, attempt, outcome, results>>
  BY <1>1, <1>3 DEF Load, ledgerVars, registrarVars
<1>5. /\ pc'[w] = "ingest" /\ download'[k] = "started"
      /\ \A v \in Workers \ {w} : pc'[v] = pc[v]
      /\ \A j \in Keys \ {k} : download'[j] = download[j]
  BY <1>3, <1>4 DEF IInv, TypeOK
<1>6. TypeOK'
  BY <1>4 DEF IInv, TypeOK, Busy
<1>7. LockHeld'
  BY <1>2, <1>4, <1>5 DEF IInv, LockHeld
<1>8. Key(w)' = k /\ KeepsGoing(w, results[w])'
  BY <1>1, <1>3, <1>4 DEF Key, KeepsGoing
<1>9. attempts[k][1].state = "CLAIMED"
  BY <1>1, <1>2 DEF IInv, WorkerOK
<1>10. WorkerOK(w)'
  BY <1>3, <1>4, <1>5, <1>8, <1>9 DEF WorkerOK
<1>11. ItemOK(k)'
  BY <1>3, <1>4, <1>5, <1>8 DEF ItemOK, Settling
<1>12. \A v \in Workers, x \in Reports : x.key = k /\ ReportHolds(v, x) => ReportHolds(v, x)'
  BY <1>3, <1>4, ClaimedReportsStay
<1> QED BY <1>1, <1>3, <1>4, <1>5, <1>6, <1>7, <1>10, <1>11, <1>12, WorkerStepKeeps

LEMMA IngestEndsKeeps == ASSUME IInv, NEW w \in Workers, IngestEnds(w) PROVE IInv'
<1>1. PICK k : k = Key(w)
  OBVIOUS
<1>2. pc[w] = "ingest" /\ pc[w] \in Settling
  BY DEF IngestEnds, Settling
<1>3. /\ pc[w] \in Busy /\ k \in Keys /\ KeepsGoing(w, results[w])
      /\ items[k] = "CLAIMED" /\ attempt[w] = 1 /\ Len(attempts[k]) = 1
      /\ attempts[k][1].owner = w
      /\ \A v \in Workers \ {w} : pc[v] \in Settling \cup {"claim"} => Key(v) # k
  BY <1>1, <1>2, AtItem
<1>4. PICK o \in Final :
        /\ outcome' = [outcome EXCEPT ![w] = o]
        /\ download' = [download EXCEPT ![k] = IF o = "SUCCEEDED" THEN "succeeded" ELSE "failed"]
  BY <1>1 DEF IngestEnds
<1>5. /\ pc' = [pc EXCEPT ![w] = "select"]
      /\ UNCHANGED <<items, metadata, attempts, lock, registration, answer,
                     batch, attempt, results>>
  BY DEF IngestEnds, ledgerVars, registrarVars
<1>6. /\ pc'[w] = "select" /\ outcome'[w] = o
      /\ download'[k] = IF o = "SUCCEEDED" THEN "succeeded" ELSE "failed"
      /\ \A v \in Workers \ {w} : pc'[v] = pc[v] /\ outcome'[v] = outcome[v]
      /\ \A j \in Keys \ {k} : download'[j] = download[j]
  BY <1>3, <1>4, <1>5 DEF IInv, TypeOK
<1>7. TypeOK'
  BY <1>4, <1>5 DEF IInv, TypeOK, Busy
<1>8. LockHeld'
  BY <1>2, <1>5, <1>6 DEF IInv, LockHeld
<1>9. Key(w)' = k /\ KeepsGoing(w, results[w])'
  BY <1>1, <1>3, <1>5 DEF Key, KeepsGoing
<1>10. attempts[k][1].state = "CLAIMED"
  BY <1>1, <1>2 DEF IInv, WorkerOK
<1>11. WorkerOK(w)'
  BY <1>3, <1>5, <1>6, <1>9, <1>10 DEF WorkerOK
<1>12. ItemOK(k)'
  BY <1>3, <1>5, <1>6, <1>9 DEF ItemOK, Settling
<1>13. \A v \in Workers, x \in Reports : x.key = k /\ ReportHolds(v, x) => ReportHolds(v, x)'
  BY <1>3, <1>5, ClaimedReportsStay
<1> QED BY <1>1, <1>3, <1>5, <1>6, <1>7, <1>8, <1>11, <1>12, <1>13, WorkerStepKeeps

LEMMA CompleteSelectKeeps == ASSUME IInv, NEW w \in Workers, CompleteSelect(w) PROVE IInv'
<1>1. PICK k : k = Key(w)
  OBVIOUS
<1>2. pc[w] = "select" /\ pc[w] \in Settling
  BY DEF CompleteSelect, Settling
<1>3. /\ pc[w] \in Busy /\ k \in Keys /\ KeepsGoing(w, results[w])
      /\ items[k] = "CLAIMED" /\ attempt[w] = 1 /\ Len(attempts[k]) = 1
      /\ attempts[k][1].owner = w
  BY <1>1, <1>2, AtItem
<1>4. /\ attempts[k][1].state = "CLAIMED"
      /\ download[k] = IF outcome[w] = "SUCCEEDED" THEN "succeeded" ELSE "failed"
  BY <1>1, <1>2 DEF IInv, WorkerOK
<1>5. /\ pc' = [pc EXCEPT ![w] = "attemptRow"]
      /\ UNCHANGED <<items, metadata, attempts, lock, download, registration, answer,
                     batch, attempt, outcome, results>>
  BY <1>1, <1>3, <1>4 DEF CompleteSelect, ledgerVars, registrarVars
<1>6. pc'[w] = "attemptRow" /\ \A v \in Workers \ {w} : pc'[v] = pc[v]
  BY <1>5 DEF IInv, TypeOK
<1>7. TypeOK'
  BY <1>5 DEF IInv, TypeOK, Busy
<1>8. LockHeld'
  BY <1>2, <1>5, <1>6 DEF IInv, LockHeld
<1>9. WorkerOK(w)'
  BY <1>1, <1>3, <1>4, <1>5, <1>6 DEF WorkerOK, Key, KeepsGoing
<1> QED BY <1>2, <1>3, <1>5, <1>6, <1>7, <1>8, <1>9, LocalKeeps DEF Settling

\* An error or a crash ends its worker and gives back the lock, and nothing else.
LEMMA LostKeeps ==
  ASSUME IInv, NEW w \in Workers, pc[w] \in Busy, NEW l \in {"raised", "dead"},
         pc' = [pc EXCEPT ![w] = l], Unlock(w),
         UNCHANGED <<items, metadata, attempts, download, registrarVars,
                     batch, attempt, outcome, results>>
  PROVE  IInv'
<1> USE DEF registrarVars
<1>1. pc'[w] = l /\ \A v \in Workers \ {w} : pc'[v] = pc[v]
  BY DEF IInv, TypeOK
<1>2. TypeOK'
  BY DEF IInv, TypeOK, Unlock
<1>3. LockHeld'
  BY <1>1, NoProcIsNoWorker DEF IInv, LockHeld, Unlock
<1>4. WorkerOK(w)'
  BY <1>1 DEF WorkerOK, Settling, Busy
<1> QED BY <1>1, <1>2, <1>3, <1>4, LocalKeeps DEF Lost
LEMMA CompleteAttemptKeeps ==
  ASSUME IInv, NEW w \in Workers, CompleteAttempt(w) PROVE IInv'
<1>1. PICK k : k = Key(w)
  OBVIOUS
<1>2. pc[w] = "attemptRow" /\ pc[w] \in Settling
  BY DEF CompleteAttempt, Settling
<1>3. /\ pc[w] \in Busy /\ k \in Keys /\ KeepsGoing(w, results[w])
      /\ items[k] = "CLAIMED" /\ attempt[w] = 1
      /\ Len(attempts[k]) = 1 /\ attempts[k] \in Seq(Rows)
      /\ attempts[k][1] \in Rows /\ attempts[k][1].owner = w
      /\ \A v \in Workers \ {w} : pc[v] \in Settling \cup {"claim"} => Key(v) # k
  BY <1>1, <1>2, AtItem
<1>4. /\ download[k] = IF outcome[w] = "SUCCEEDED" THEN "succeeded" ELSE "failed"
      /\ outcome[w] \in Final
  BY <1>1, <1>2 DEF IInv, WorkerOK, TypeOK
<1>5. PICK row : row = [state |-> outcome[w], owner |-> w]
  OBVIOUS
<1>6. row \in Rows /\ row.state = outcome[w] /\ row.owner = w
  BY <1>4, <1>5 DEF Rows
<1>7. PICK s : s = [attempts[k] EXCEPT ![1] = row]
  OBVIOUS
<1>8. s \in Seq(Rows) /\ Len(s) = 1 /\ s[1] = row
  BY <1>3, <1>6, <1>7
<1>9. /\ attempts' = [attempts EXCEPT ![k] = s]
      /\ pc' = [pc EXCEPT ![w] = "itemRow"]
      /\ UNCHANGED <<items, metadata, lock, download, registration, answer,
                     batch, attempt, outcome, results>>
  BY <1>1, <1>3, <1>5, <1>7 DEF CompleteAttempt, registrarVars
<1>10. /\ pc'[w] = "itemRow" /\ attempts'[k] = s
       /\ \A v \in Workers \ {w} : pc'[v] = pc[v]
       /\ \A j \in Keys \ {k} : attempts'[j] = attempts[j]
  BY <1>3, <1>9 DEF IInv, TypeOK
<1>11. TypeOK'
  <2>1. attempts' \in [Keys -> Seq(Rows)]
    BY <1>8, <1>9 DEF IInv, TypeOK, Rows
  <2> QED BY <1>9, <2>1 DEF IInv, TypeOK, Rows, Busy
<1>12. LockHeld'
  BY <1>2, <1>9, <1>10 DEF IInv, LockHeld
<1>13. Key(w)' = k /\ KeepsGoing(w, results[w])'
  BY <1>1, <1>3, <1>9 DEF Key, KeepsGoing
<1>14. WorkerOK(w)'
  BY <1>3, <1>4, <1>6, <1>8, <1>9, <1>10, <1>13 DEF WorkerOK
<1>15. ItemOK(k)'
  BY <1>3, <1>6, <1>8, <1>9, <1>10, <1>13 DEF ItemOK, Settling
<1>16. \A v \in Workers, x \in Reports : x.key = k /\ ReportHolds(v, x) => ReportHolds(v, x)'
  BY <1>3, <1>9, ClaimedReportsStay
<1> QED BY <1>1, <1>3, <1>9, <1>10, <1>11, <1>12, <1>14, <1>15, <1>16, WorkerStepKeeps

LEMMA CompleteItemKeeps == ASSUME IInv, NEW w \in Workers, CompleteItem(w) PROVE IInv'
<1>1. PICK k : k = Key(w)
  OBVIOUS
<1>2. pc[w] = "itemRow" /\ pc[w] \in Settling
  BY DEF CompleteItem, Settling
<1>3. /\ pc[w] \in Busy /\ k \in Keys
      /\ items[k] = "CLAIMED" /\ Len(attempts[k]) = 1 /\ attempts[k][1].owner = w
      /\ \A v \in Workers \ {w} : pc[v] \in Settling \cup {"claim"} => Key(v) # k
  BY <1>1, <1>2, AtItem
<1>4. PICK o \in Final : o = outcome[w]
  BY DEF IInv, TypeOK
<1>5. /\ download[k] = IF o = "SUCCEEDED" THEN "succeeded" ELSE "failed"
      /\ attempts[k][1].state = o
  BY <1>1, <1>2, <1>4 DEF IInv, WorkerOK
<1>6. PICK state : state = IF o = "SUCCEEDED" THEN "SUCCEEDED" ELSE "REVIEW_REQUIRED"
  OBVIOUS
<1>7. /\ items' = [items EXCEPT ![k] = state] /\ Result(w, o)
      /\ UNCHANGED <<metadata, attempts, lock, download, registration, answer,
                     batch, attempt, outcome>>
  BY <1>1, <1>4, <1>6 DEF CompleteItem, registrarVars
<1>8. items'[k] = state /\ \A j \in Keys \ {k} : items'[j] = items[j]
  BY <1>3, <1>7 DEF IInv, TypeOK
<1>9. PICK x \in Reports : x = [key |-> k, status |-> o]
  BY <1>3, <1>4 DEF Reports
<1>10. /\ results' \in [Workers -> Seq(Reports)]
       /\ pc' \in [Workers -> Busy \cup {"done", "raised", "dead"}]
       /\ \A v \in Workers \ {w} : results'[v] = results[v] /\ pc'[v] = pc[v]
       /\ pc'[w] = "begin" \/ pc'[w] = "done"
       /\ pc'[w] = "begin" => KeepsGoing(w, results[w])'
       /\ \A i \in DOMAIN results'[w] :
            \/ i \in DOMAIN results[w] /\ results'[w][i] = results[w][i]
            \/ results'[w][i] = x
  BY <1>1, <1>3, <1>7, <1>9, ResultEffect
<1>11. ReportHolds(w, x)'
  <2>1. x.key = k /\ x.status = o /\ o \in Final
    BY <1>9
  <2> QED BY <1>3, <1>5, <1>6, <1>7, <1>8, <2>1 DEF ReportHolds, Final
<1>12. TypeOK'
  <2>1. items' \in [Keys -> ItemStates]
    BY <1>6, <1>7 DEF IInv, TypeOK, ItemStates
  <2> QED BY <1>7, <1>10, <2>1 DEF IInv, TypeOK, Reports
<1>13. LockHeld'
  BY <1>2, <1>7, <1>10 DEF IInv, LockHeld
<1>14. WorkerOK(w)'
  BY <1>10 DEF WorkerOK, Settling, Busy
<1>15. ItemOK(k)'
  BY <1>3, <1>4, <1>5, <1>6, <1>7, <1>8 DEF ItemOK, Final
<1>16. \A v \in Workers, y \in Reports : y.key = k /\ ReportHolds(v, y) => ReportHolds(v, y)'
  BY <1>3, <1>6, <1>8, ClaimedReportsStay
<1>17. \A i \in DOMAIN results'[w] :
         \/ i \in DOMAIN results[w] /\ results'[w][i] = results[w][i]
         \/ \E y \in Reports : results'[w][i] = y /\ ReportHolds(w, y)'
  BY <1>10, <1>11
<1>18. items'[k] # "absent"
  BY <1>6, <1>8
<1> QED BY <1>1, <1>3, <1>7, <1>8, <1>10, <1>12, <1>13, <1>14, <1>15, <1>16, <1>17, <1>18,
           WorkerStepKeeps

LEMMA InitIInv == Init => IInv
<1> SUFFICES ASSUME Init PROVE IInv
    OBVIOUS
<1> USE DEF Init
<1>1. TypeOK
  BY DEF TypeOK, ItemStates, Busy, Final
<1>2. LockHeld /\ Registered /\ OneRegistration
  BY NoProcIsNoWorker DEF LockHeld, Registered, OneRegistration
<1>3. ASSUME NEW w \in Workers PROVE WorkerOK(w)
  <2>1. pc[w] \in Busy => batch[w].keys # <<>>
    BY DEF Busy
  <2>2. batch[w].keys \in Seq(Keys) /\ batch[w].max \in Nat \ {0}
    BY BatchesValid
  <2>3. pc[w] \in Busy => KeepsGoing(w, results[w])
    BY <2>1, <2>2 DEF KeepsGoing, AtMost
  <2> QED BY <2>3 DEF WorkerOK, Settling
<1>4. \A k \in Keys : ItemOK(k)
  BY DEF ItemOK
<1>5. ReportsAreDurable
  BY DEF ReportsAreDurable
<1> QED BY <1>1, <1>2, <1>3, <1>4, <1>5 DEF IInv

LEMMA NextKeeps == IInv /\ [Next]_vars => IInv'
<1> SUFFICES ASSUME IInv, [Next]_vars PROVE IInv'
    OBVIOUS
<1>1. CASE UNCHANGED vars
  <2> USE <1>1 DEF vars, ledgerVars, registrarVars, workerVars, IInv
  <2>1. TypeOK' /\ LockHeld'
    BY DEF TypeOK, LockHeld
  <2>4. Registered' /\ OneRegistration'
    BY DEF Registered, OneRegistration
  <2>2. (\A w \in Workers : WorkerOK(w)') /\ (\A k \in Keys : ItemOK(k)')
    BY DEF WorkerOK, ItemOK, Key, KeepsGoing, Lost
  <2>3. ReportsAreDurable'
    BY DEF ReportsAreDurable, ReportHolds
  <2> QED BY <2>1, <2>2, <2>3, <2>4
<1>2. ASSUME NEW r \in Registrars, RegistrarStep(r) \/ RegistrarFails(r) PROVE IInv'
  BY <1>2, RegisterSelectKeeps, RegisterInsertKeeps, RegistrarFailsKeeps DEF RegistrarStep
<1>3. ASSUME NEW w \in Workers, WorkerStep(w) PROVE IInv'
  BY <1>3, ClaimBeginKeeps, ClaimCommitKeeps, LoadKeeps, IngestEndsKeeps,
     CompleteSelectKeeps, CompleteAttemptKeeps, CompleteItemKeeps DEF WorkerStep
<1>4. ASSUME NEW w \in Workers, Error(w) \/ Crash(w) PROVE IInv'
  BY <1>4, LostKeeps DEF Error, Crash
<1> QED BY <1>1, <1>2, <1>3, <1>4 DEF Next
-----------------------------------------------------------------------------
\* What the proofs below rest on holds of every state of the shared ledger.
THEOREM Invariance == Spec => []IInv
<1> QED BY InitIInv, NextKeeps, PTL DEF Spec

\* The columns and the workers' variables keep the values the schema allows.
THEOREM TypeCorrect == Spec => []TypeOK
<1> QED BY Invariance, PTL DEF IInv

\* The two tables agree: an item is claimed at most once, ever, and settled as its one
\* attempt ended; between a claim and its settlement its worker is there, or lost.
THEOREM OneStory == Spec => []TablesAgree
<1>1. ASSUME IInv, NEW k \in Keys, NEW row, row = attempts[k][1]
      PROVE  /\ Len(attempts[k]) <= 1
             /\ items[k] \in {"absent", "PLANNED"} <=> attempts[k] = <<>>
             /\ items[k] = "SUCCEEDED" => row.state = "SUCCEEDED"
             /\ items[k] = "REVIEW_REQUIRED" => row.state \in {"FAILED", "INTERRUPTED"}
             /\ items[k] = "CLAIMED" =>
                  \/ Lost(row.owner)
                  \/ /\ pc[row.owner] \in Busy /\ Key(row.owner) = k
                     /\ row.state = "CLAIMED" \/ pc[row.owner] = "itemRow"
  <2>1. ItemOK(k)
    BY <1>1 DEF IInv
  <2>2. /\ Len(attempts[k]) <= 1
        /\ items[k] \in {"absent", "PLANNED"} <=> attempts[k] = <<>>
    <3>1. CASE items[k] \in {"absent", "PLANNED"}
      <4>1. attempts[k] = <<>>
        BY <2>1, <3>1 DEF ItemOK
      <4> QED BY <3>1, <4>1
    <3>2. CASE items[k] \notin {"absent", "PLANNED"}
      <4>1. Len(attempts[k]) = 1
        BY <2>1, <3>2 DEF ItemOK
      <4>2. attempts[k] # <<>>
        BY <4>1
      <4> QED BY <3>2, <4>1, <4>2
    <3> QED BY <3>1, <3>2
  <2>3. ASSUME items[k] = "CLAIMED", ~Lost(row.owner)
        PROVE  /\ pc[row.owner] \in Busy /\ Key(row.owner) = k
               /\ row.state = "CLAIMED" \/ pc[row.owner] = "itemRow"
    <3>1. pc[row.owner] \in Settling /\ Key(row.owner) = k /\ Len(attempts[k]) = 1
      BY <1>1, <2>1, <2>3 DEF ItemOK
    <3>2. row.owner \in Workers
      BY <1>1, <3>1, RowIsRow DEF IInv
    <3>3. WorkerOK(row.owner)
      BY <1>1, <3>2 DEF IInv
    <3> QED BY <1>1, <3>1, <3>3 DEF WorkerOK, Settling, Busy
  <2> QED BY <1>1, <2>1, <2>2, <2>3 DEF ItemOK
<1>2. IInv => TablesAgree
  BY <1>1 DEF TablesAgree
<1> QED BY <1>2, Invariance, PTL

\* A report once appended stays true, and an ingested item is reported by the one worker
\* whose attempt the ledger holds.
THEOREM ReportsStayTrue == Spec => []ReportsAreDurable
<1> QED BY Invariance, PTL DEF IInv

\* Of racing registrations of a key one is told CREATED, and EXISTING_MATCH is told only
\* of identical metadata, which never changes afterwards.
THEOREM OneIsCreated == Spec => []OneRegistration
<1> QED BY Invariance, PTL DEF IInv
-----------------------------------------------------------------------------
\* The statements that are steps in the life of an item, one by one.
LEMMA RegistrarImplements ==
  ASSUME IInv, NEW r \in Registrars, RegistrarStep(r) \/ RegistrarFails(r)
  PROVE  [WorkItem!Next]_<<items, download>>
<1>1. registration[r].key \in Keys
  BY RegistrationsValid DEF IInv, TypeOK
<1>2. CASE RegisterSelect(r) \/ RegistrarFails(r)
  BY <1>2 DEF RegisterSelect, RegistrarFails, ledgerVars
<1>3. CASE RegisterInsert(r)
  BY <1>1, <1>3 DEF RegisterInsert, WorkItem!Next, WorkItem!Register
<1> QED BY <1>2, <1>3 DEF RegistrarStep

LEMMA WorkerImplements ==
  ASSUME IInv, NEW w \in Workers, WorkerStep(w) \/ Error(w) \/ Crash(w)
  PROVE  [WorkItem!Next]_<<items, download>>
<1>1. PICK k : k = Key(w)
  OBVIOUS
<1>2. pc[w] \in Busy => k \in Keys
  BY <1>1, AtKey
<1>3. WorkerOK(w)
  BY DEF IInv
<1>4. CASE ClaimBegin(w) \/ CompleteSelect(w) \/ CompleteAttempt(w) \/ Error(w) \/ Crash(w)
  BY <1>4 DEF ClaimBegin, CompleteSelect, CompleteAttempt, Error, Crash, ledgerVars
<1>5. CASE ClaimCommit(w)
  <2>1. k \in Keys /\ items[k] = "PLANNED" /\ items' = [items EXCEPT ![k] = "CLAIMED"]
        /\ download' = download
    BY <1>1, <1>2, <1>3, <1>5 DEF ClaimCommit, WorkerOK, Busy
  <2> QED BY <2>1 DEF WorkItem!Next, WorkItem!Claim
<1>6. CASE Load(w)
  <2>1. k \in Keys /\ items[k] = "CLAIMED" /\ download[k] = "none"
    BY <1>1, <1>2, <1>3, <1>6 DEF Load, WorkerOK, Busy, Settling
  <2>2. download' = [download EXCEPT ![k] = "started"] /\ items' = items
    BY <1>1, <1>6, <2>1 DEF Load, ledgerVars
  <2> QED BY <2>1, <2>2 DEF WorkItem!Next, WorkItem!Ingest
<1>7. CASE IngestEnds(w)
  <2>1. k \in Keys /\ items[k] = "CLAIMED" /\ download[k] = "started"
    BY <1>1, <1>2, <1>3, <1>7 DEF IngestEnds, WorkerOK, Busy, Settling
  <2>2. /\ \E d \in {"succeeded", "failed"} : download' = [download EXCEPT ![k] = d]
        /\ items' = items
    BY <1>1, <1>7 DEF IngestEnds, ledgerVars
  <2> QED BY <2>1, <2>2 DEF WorkItem!Next, WorkItem!IngestEnds
<1>8. CASE CompleteItem(w)
  <2>1. /\ k \in Keys /\ items[k] = "CLAIMED"
        /\ download[k] = IF outcome[w] = "SUCCEEDED" THEN "succeeded" ELSE "failed"
    BY <1>1, <1>2, <1>3, <1>8 DEF CompleteItem, WorkerOK, Busy, Settling
  <2>2. /\ items' = [items EXCEPT ![k] =
                       IF outcome[w] = "SUCCEEDED" THEN "SUCCEEDED" ELSE "REVIEW_REQUIRED"]
        /\ download' = download
    BY <1>1, <1>8 DEF CompleteItem
  <2>3. items' = [items EXCEPT ![k] =
                    IF download[k] = "succeeded" THEN "SUCCEEDED" ELSE "REVIEW_REQUIRED"]
    BY <2>1, <2>2
  <2>4. download[k] # "started"
    BY <2>1
  <2> QED BY <2>1, <2>2, <2>3, <2>4 DEF WorkItem!Next, WorkItem!Settle
<1> QED BY <1>4, <1>5, <1>6, <1>7, <1>8 DEF WorkerStep

\* The ledger with its registrars, workers, errors and crashes implements the life of a
\* work item: registered, claimed, ingested and settled at most once each, in order.
THEOREM LedgerImplementsLifecycle == Spec => ImplementsLifecycle
<1>1. Init => WorkItem!Init
  BY DEF Init, WorkItem!Init
<1>2. IInv /\ [Next]_vars => [WorkItem!Next]_(WorkItem!vars)
  <2> SUFFICES ASSUME IInv, [Next]_vars PROVE [WorkItem!Next]_<<items, download>>
    BY DEF WorkItem!vars
  <2>1. CASE UNCHANGED vars
    BY <2>1 DEF vars, ledgerVars
  <2> QED BY <2>1, RegistrarImplements, WorkerImplements DEF Next
<1> QED BY <1>1, <1>2, Invariance, PTL DEF Spec, ImplementsLifecycle, WorkItem!Spec
=============================================================================
