---------------------------- MODULE CompletedRun -----------------------------
(***************************************************************************)
(* What the release verifier accepts (verify_completed_inspiration_run):   *)
(* it reads what a completed run left behind and computes it again from    *)
(* the frozen inputs, the policy and the raw pages, for the one kind of    *)
(* run that is released: metadata only, one result per query, no quota.    *)
(*                                                                         *)
(* What the run reports is in the state; hashes, canonical JSON, delays of *)
(* single attempts, warnings and the text of the report are left out.      *)
(***************************************************************************)
EXTENDS InspirationRun

AttemptsOf(q) == SelectSeq(searches, LAMBDA a : a.query = q)

\* Every query has attempts, numbered from one, in the order of the plan: errors
\* within the retry bound, then one success.
AttemptsVerified ==
  /\ {searches[i].query : i \in DOMAIN searches} = QueryIds
  /\ \A q \in QueryIds :
       LET of == AttemptsOf(q)
       IN  /\ Len(of) <= SearchRetries + 1
           /\ \A i \in DOMAIN of : of[i].number = i /\ of[i].ok = (i = Len(of))
  /\ searches = FlattenSeq([q \in QueryIds |-> AttemptsOf(q)])

\* The adapter asks for rows = 1.
OneItem(page) == Len(page) = 1

\* Every query of the plan has its page, and hits were left to take for each.
PagesVerified ==
  /\ DOMAIN pages = QueryIds
  /\ \A q \in QueryIds :
       /\ OneItem(pages[q])
       /\ Len(HitsOf(SubSeq(pages, 1, q - 1))) < Budget["hits"]

\* The policy allows no body and none was asked for.
NothingFetched == max_requests = 0 /\ fetches = {}

\* Each document has one row that says why its body was left alone.
DocumentsVerified ==
  manifest = [d \in DocumentsOf(Hits) |->
                IF AbstractSuffices(Hits, d) THEN "SKIPPED_METADATA_SUFFICIENT"
                ELSE "DISABLED_BY_POLICY"]

\* Every passage has its vector: none was cut off by the embedding budget.
VectorsVerified(found) == Vectorized(found) = found

ReplayedLedger(found, drafts, pool) ==
  [search_requests |-> Len(searches), fetch_requests |-> 0, fetch_response_bytes |-> 0,
   raw_documents |-> Len(Hits), unique_documents |-> Cardinality(DocumentsOf(Hits)),
   extracted_passages |-> Len(found), vectorized_passages |-> Len(found),
   generated_plans |-> Cardinality(drafts), candidates |-> Cardinality(pool)]

\* Selection without a quota of mechanisms (MMR_ONLY).
ReplayedAudit(pool) ==
  LET target == FeasibleTarget(pool, 1)
  IN  Audit(pool, 1, Select(pool, target), QuotaStatus(pool, 1, target))

\* All queries of the plan were executed; nothing was fetched.
ReplayedFeedback(found, evidence, packets) ==
  Feedback([q \in QueryIds |-> pages[q]], searches, Hits, found, evidence, packets, {})

\* A release may have to name a candidate (require_nonempty_result).
OutcomeVerified(nonempty, packets) ==
  nonempty => result.audit.outcome = "SUCCEEDED" /\ packets # {}

\* From the pages to passages, evidence, packets, plans, candidates and selection.
ReplayVerified(nonempty) ==
  \E found \in {PassagesOf(Hits, Groups, {})} : \E evidence \in {Cards(found)} :
  \E packets \in {Packets(evidence, Len(Plan))} :
  \E drafts \in {Drafts(packets, result.parents)} : \E pool \in {Candidates(drafts)} :
    /\ VectorsVerified(found)
    /\ result.audit = ReplayedAudit(pool)
    /\ result.ledger = ReplayedLedger(found, drafts, pool)
    /\ result.feedback = ReplayedFeedback(found, evidence, packets)
    /\ OutcomeVerified(nonempty, packets)

Verified(nonempty) ==
  /\ AttemptsVerified /\ PagesVerified /\ NothingFetched /\ DocumentsVerified
  /\ ReplayVerified(nonempty)
=============================================================================
