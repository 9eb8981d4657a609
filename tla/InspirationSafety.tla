--------------------------- MODULE InspirationSafety ---------------------------
(***************************************************************************)
(* What an inspiration run promises of its answer.                         *)
(***************************************************************************)
EXTENDS CompletedRun

\* Two attempts in a row: a query that failed is tried once more, and after the
\* answer to one comes the next query of the plan.
Succeeds(earlier, later) ==
  \/ ~earlier.ok /\ later.query = earlier.query /\ later.number = earlier.number + 1
  \/ earlier.ok /\ later.query = earlier.query + 1 /\ later.number = 1

LogInOrder ==
  /\ searches # <<>> => searches[1].query = 1 /\ searches[1].number = 1
  /\ \A i \in 2 .. Len(searches) : Succeeds(searches[i - 1], searches[i])
  /\ \A i \in DOMAIN searches : searches[i].number <= SearchRetries + 1

\* Pauses and retries so far are what the policy allows for one query and for one
\* document, of which no more requests are recorded.
WithinPolicy ==
  /\ searching.attempts <= SearchRetries /\ searching.waited <= SearchWait
  /\ fetching.waited <= FetchWait
  /\ \A a \in fetches : a.requests <= FetchRetries + MaxRedirects + 1

\* Every search request that left the machine is in the attempt log, or will be
\* when its query is settled, in the order of the plan and numbered on from one
\* retry to the next; a query that was answered has one answer.  Requests to
\* document servers are recorded within their budget and never more than went out
\* (some are lost), and at most one byte more than the budget was read in what is
\* recorded (search.search, fetch.fetch, fetch._read_bounded).
RequestsAreLogged ==
  /\ Len(searches) + searching.attempts = sent.search
  /\ LogInOrder /\ WithinPolicy
  /\ RecordedBytes <= MaxBytes + 1 /\ RecordedRequests <= max_requests
  /\ RecordedRequests + fetching.attempts <= sent.fetch
  /\ \A q \in QueryIds : q <= Len(pages) =>
       Cardinality({i \in DOMAIN searches : searches[i].query = q /\ searches[i].ok}) = 1

(***************************************************************************)
(* Selections.                                                             *)
(***************************************************************************)

\* What a document says, from its record and from its body if it was read.
Says(d) == {Works[d].title \cup t.tags :
              t \in ToSet(Works[d].abstract)
                \cup (IF d \in FetchedDocuments THEN ToSet(Works[d].body) ELSE {})}

\* Documents a bridge query of the rule led to.
ListedFor(rule) ==
  {Listed(h) : h \in {x \in ToSet(Hits) : Plan[x.query].kind = "BRIDGE"
                                          /\ Plan[x.query].rule = rule}}

\* A candidate is selected only for routes whose rule is borne out by what the
\* provider answered: each mechanism the rule requires is named in a document
\* that a search for this very rule listed, counter-evidence not included, and
\* the parent was given for this rule or for any.  The route leads to this very
\* structure, which has ordered sites of known charge that cancel out.  No card
\* serves two rules.
Neutral(species) ==
  SumFunction([i \in DOMAIN species |-> CHOOSE n \in species[i][2] : TRUE]) = 0

SelectedIsBacked ==
  result.kind = "BUNDLE" =>
    LET selected == ToSet(result.audit.selected)
        routes == UNION {c.routes : c \in selected}
    IN  \A c \in selected : \A route \in c.routes :
          /\ \A m \in Rule[route.rule].required :
               \E d \in ListedFor(route.rule) : \E words \in Says(d) : m \in words
          /\ \E p \in result.parents :
               /\ p.id = route.parent /\ p.rule \in {0, route.rule}
               /\ Edit(p).output = StructureOrder[c.structure]
          /\ \A i \in DOMAIN StructureOrder[c.structure].species :
               StructureOrder[c.structure].species[i][2] # {}
          /\ Neutral(StructureOrder[c.structure].species)
          /\ \A other \in routes :
               other.rule # route.rule => other.cards \cap route.cards = {}

\* Sets of candidates the hard quotas allow.
Allowed(S) ==
  /\ Cardinality(S) <= TopK
  /\ \A x, y \in S : x # y => x.shape # y.shape
  /\ \A f \in UNION {x.families : x \in S} :
       Cardinality({x \in S : f \in x.families}) <= MaxPerFamily

\* The audit of the selection is the truth about the whole pool: the quota of
\* mechanisms is reported met exactly if some allowed choice meets it, and then
\* the selection does; infeasible only if the pool names enough mechanisms; the
\* selection is allowed and can be extended by nobody; and an underfilled one
\* has a reason (selection._coverage_witness, select_diverse_candidates_with_audit).
QuotaIsTruthful ==
  result.kind = "BUNDLE" =>
    LET selected == ToSet(result.audit.selected)
        meets(S) == Cardinality(Covered(S)) >= result.quota
        feasible == \E S \in SUBSET result.audit.pool : Allowed(S) /\ meets(S)
    IN  /\ (result.audit.quota_status = "MET") = feasible
        /\ feasible => meets(selected)
        /\ (result.audit.quota_status = "POOL_INSUFFICIENT") = ~meets(result.audit.pool)
        /\ Allowed(selected) /\ Cardinality(selected) = Len(result.audit.selected)
        /\ \A c \in result.audit.pool \ selected : ~Allowed(selected \cup {c})
        /\ Len(result.audit.selected) < TopK => result.audit.underfill # {}

\* A run of the kind that is released: metadata only, no quota, and the provider
\* kept to the one row it was asked for.
Releasable ==
  /\ result.kind = "BUNDLE" /\ max_requests = 0 /\ result.quota = 1
  /\ \A q \in DOMAIN pages : OneItem(pages[q])

\* What a run checks of its own results never fails: whatever the network brings,
\* packets close down to their queries, plans are fully covered, the witness of the
\* quota survives the selection and the feedback compiler takes its input
\* (validation, engine, selection, feedback).
ChecksNeverFire ==
  result.kind = "RAISED" =>
    result.code \notin {"BRIDGE_CLOSURE_INVALID", "CANDIDATE_EVIDENCE_MISSING",
                        "MECHANISM_QUOTA_NOT_MET", "FEEDBACK_INPUT_INVALID",
                        "FETCH_REQUEST_BUDGET_EXCEEDED"}

\* Nothing that checks a run refuses it: not its own checks, and not the release
\* verifier, which accepts every run of the kind it is for, also one that had to
\* repeat requests: all queries have a page, no attempt is missing and what was
\* reported follows from the pages (verify_completed_inspiration_run).
NothingRefused ==
  /\ ChecksNeverFire
  /\ Releasable => Verified(result.audit.outcome = "SUCCEEDED")

\* Feedback agrees with the ledger and with what happened: search requests split
\* over the queries without remainder, every fetch is charged to a query, a rule
\* is said not to have been executed only if no page answered it, and a rule
\* stands as supported exactly if it misses nothing.
FeedbackReconciles ==
  result.kind = "BUNDLE" =>
    LET rows == result.feedback.queries
        rules == result.feedback.rules
    IN  /\ SumFunction([q \in QueryIds |-> rows[q].requests]) = result.ledger.search_requests
        /\ SumFunction([q \in QueryIds |-> rows[q].hits]) = result.ledger.raw_documents
        /\ SumFunction([q \in QueryIds |-> rows[q].fetches]) >= result.ledger.fetch_requests
        /\ SumFunction([q \in QueryIds |-> rows[q].documents]) >= result.ledger.unique_documents
        /\ \A r \in Rules :
             /\ (rules[r].standing = "SEARCH_SUPPORTED") =
                  (rules[r].missing = {} /\ \E q \in DOMAIN pages : Plan[q].rule = r)
             /\ rules[r].standing = "NOT_EXECUTED" =>
                  \A q \in DOMAIN pages : Plan[q].rule # r

\* Every run answers: retries, redirects and budgets are bounded.
RunEnds == <>(pc = "done")

(***************************************************************************)
(* Claims the code does not keep.                                          *)
(***************************************************************************)

\* A network failure is not turned into a scientific no-match: a run that found
\* nothing would have found nothing had the bodies that failed transiently been
\* read.
FailureIsNotNoMatch ==
  result.kind = "BUNDLE" /\ result.audit.outcome = "SCIENTIFIC_NO_MATCH" =>
    LET undisturbed == PassagesOf(Hits, Groups, FetchedDocuments \cup TransientDocuments)
    IN  Candidates(Drafts(Packets(Cards(undisturbed), Len(pages)), result.parents)) = {}

(***************************************************************************)
(* What makes them inductive.                                              *)
(***************************************************************************)

\* What is kept has its type, and there is no answer before the end.
RunHolds ==
  /\ max_requests \in Nat /\ group \in Nat
  /\ pages \in Seq(Seq(Records)) /\ Len(pages) <= Len(Plan)
  /\ searches \in Seq([query : QueryIds, number : Nat, ok : BOOLEAN])
  /\ searching.attempts \in Nat /\ sent \in [search : Nat, fetch : Nat]
  /\ DOMAIN fetching = DOMAIN NoFetch
  /\ fetching.active \in BOOLEAN /\ {fetching.attempts, fetching.bytes} \subseteq Nat
  /\ pc # "done" => result = Pending

\* Attempts are logged for pages that were answered, and in the end for one that
\* was not; no page was answered twice.
SearchesLogged ==
  /\ Len(searches) + searching.attempts = sent.search
  /\ pc # "done" => \A i \in DOMAIN searches : searches[i].query <= Len(pages)
  /\ \A q \in 1 .. Len(pages) :
       Cardinality({i \in DOMAIN searches : searches[i].query = q /\ searches[i].ok}) = 1

\* What a fetch under way has used and what is recorded stay within the budgets
\* together; what is recorded is charged to queries that led to the document.
FetchesCharged ==
  /\ IsFiniteSet(fetches)
  /\ fetches \subseteq [doc : Documents, requests : Nat \ {0}, bytes : Nat,
                        queries : (SUBSET QueryIds) \ {{}}]
  /\ RecordedRequests + fetching.attempts <= sent.fetch
  /\ RecordedRequests + fetching.attempts <= max_requests
  /\ RecordedBytes <= MaxBytes + 1
  /\ IF fetching.active
     THEN /\ pc = "fetch" /\ group < Len(Groups)
          /\ RecordedBytes + fetching.bytes <= MaxBytes
     ELSE fetching = NoFetch

\* The log ends with the answer to the last page; pauses and retries are counted.
PolicyInv ==
  /\ LogInOrder /\ WithinPolicy
  /\ searching.waited \in Nat /\ {fetching.waited, fetching.retries, fetching.redirects} \subseteq Nat
  /\ fetching.attempts = fetching.retries + fetching.redirects
  /\ fetching.retries <= FetchRetries /\ fetching.redirects <= MaxRedirects
  /\ pc = "search" =>
       \/ pages = <<>> /\ searches = <<>>
       \/ /\ searches # <<>> /\ searches[Len(searches)].ok
          /\ searches[Len(searches)].query = Len(pages)

InspirationInv == RunHolds /\ SearchesLogged /\ FetchesCharged
=============================================================================
