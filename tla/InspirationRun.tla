---------------------------- MODULE InspirationRun ----------------------------
(***************************************************************************)
(* One inspiration run (inspiration/runner.run with search.Crossref... and *)
(* fetch.SafeNetworkDocumentFetcher): the queries of the plan are searched *)
(* one after another, the documents found are processed in the order of    *)
(* their identifiers, bodies are fetched where the abstract is not enough, *)
(* and what was found is compiled into evidence, bridges, candidates, a    *)
(* selection and a feedback review.                                        *)
(*                                                                         *)
(* The network decides what each physical request brings.  Waiting times   *)
(* and sizes are small integers.                                           *)
(***************************************************************************)
EXTENDS CandidateSelection

CONSTANTS
  Answers,         \* Plan index -> pages the provider may answer with
  ParentPools,     \* sets of parents an input may name
  Policies,        \* what policies say of fetch.max_requests, where 0 disables
                   \* fetching, and of min_mechanisms_when_available (quota)
  SearchRetries, SearchWait, SearchPauses, Pacing,
  MaxBytes, MaxResponse, FetchRetries, FetchWait, FetchPauses, MaxRedirects, BodySizes,
  MaxTrouble       \* disturbances of the instance

ASSUME RunAssumption ==
  /\ Answers \in [QueryIds -> SUBSET Seq(Records)]
  /\ \A pool \in ParentPools :
       /\ pool \subseteq Parents /\ \A p, q \in pool : p.id = q.id => p = q
       /\ \/ \A p \in pool : p.rule = 0   \* any parents, or a catalog
          \/ \A p \in pool : p.rule # 0 /\ CatalogAccepts(Crystal[p.id])
  /\ Policies \subseteq [max_requests : 0 .. Budget["documents"], quota : 1 .. TopK]
  /\ MaxResponse <= MaxBytes
  /\ {SearchRetries, SearchWait, MaxBytes, MaxResponse, FetchRetries,
      FetchWait, MaxRedirects, MaxTrouble} \subseteq Nat
  /\ SearchPauses \cup Pacing \cup FetchPauses \cup BodySizes \subseteq Nat

VARIABLES
  max_requests, \* fetch.max_requests of the policy; its quota matters only at the end
  pc,          \* "search", "fetch", "done"
  pages,       \* pages of the queries executed so far
  searching,   \* the search under way: attempts and seconds waited
  searches,    \* search_attempts.jsonl, as it would be written
  group,       \* number of documents processed
  fetching,    \* the fetch under way
  fetches,     \* one allocation per document with recorded requests
  manifest,    \* fetch status by document, the category of a failure
  trouble,     \* disturbances so far
  sent,        \* physical requests that really went out: [search, fetch]
  result       \* what the run answered

vars == <<max_requests, pc, pages, searching, searches, group, fetching, fetches, manifest, trouble,
          sent, result>>

NoSearch == [attempts |-> 0, waited |-> 0]
NoFetch == [active |-> FALSE, attempts |-> 0, bytes |-> 0, retries |-> 0,
            redirects |-> 0, waited |-> 0]
Pending == [kind |-> "PENDING"]

Hits == HitsOf(pages)
Groups == Ascending(DocumentsOf(Hits))
Document == Groups[group + 1]
FetchedDocuments == {d \in DOMAIN manifest : manifest[d] = "FETCHED"}
TransientDocuments == {d \in DOMAIN manifest : manifest[d] = "TRANSIENT"}

\* What was selected from the documents processed so far.
Passages == PassagesOf(Hits, Prefix(Groups, group), FetchedDocuments)

RecordedRequests == SumFunction([a \in fetches |-> a.requests])
RecordedBytes == SumFunction([a \in fetches |-> a.bytes])

Init ==
  /\ max_requests \in {policy.max_requests : policy \in Policies}
  /\ pc = "search" /\ pages = <<>> /\ searching = NoSearch /\ searches = <<>>
  /\ group = 0 /\ fetching = NoFetch /\ fetches = {} /\ manifest = <<>>
  /\ trouble = 0 /\ sent = [search |-> 0, fetch |-> 0] /\ result = Pending

\* The network or the provider disturbs the run once more, or does not.  The
\* policy is frozen.
Troubled == trouble < MaxTrouble /\ trouble' = trouble + 1 /\ UNCHANGED max_requests
Calm == UNCHANGED <<trouble, max_requests>>

\* The run raises: there is no bundle, only the artifacts written so far.
Raise(code) ==
  /\ pc' = "done" /\ result' = [kind |-> "RAISED", code |-> code]

(***************************************************************************)
(* Searching: at most SearchRetries + 1 attempts per query, pacing and     *)
(* retry pauses together within SearchWait.                                *)
(***************************************************************************)

Current == Len(pages) + 1
MoreHits == Len(Hits) < Budget["hits"]
Searching == pc = "search" /\ Current <= Len(Plan) /\ MoreHits

\* Mistake: the attempts of a page that came after a retry are not counted.
LastAttempt(query, n, ok) == <<[query |-> query, number |-> n, ok |-> ok]>>

Attempts(query, n, ok) ==
  [i \in 1 .. n |-> [query |-> query, number |-> i, ok |-> ok /\ i = n]]

\* Pauses the adapter may take before the next request; the first request of a
\* run goes out at once.
PacingDelays == IF searches = <<>> /\ searching.attempts = 0 THEN {0} ELSE Pacing

FailSearch(attempts, code) ==
  /\ searches' = searches \o Attempts(Current, attempts, FALSE)
  /\ searching' = NoSearch /\ Raise(code)
  /\ UNCHANGED <<pages, group, fetching, fetches, manifest>>

WaitBudgetExceeded ==
  /\ Calm
  /\ Searching
  /\ \E delay \in PacingDelays : delay > SearchWait - searching.waited
  /\ FailSearch(searching.attempts, "WAIT_BUDGET_EXCEEDED") /\ UNCHANGED sent

\* One request with its pacing delay.
Paced(delay) ==
  /\ Searching /\ delay \in PacingDelays /\ delay <= SearchWait - searching.waited
  /\ sent' = [sent EXCEPT !.search = @ + 1]

SearchSucceeds ==
  /\ Calm
  /\ \E delay \in Pacing \cup {0} : Paced(delay)
  /\ \E page \in Answers[Current] : pages' = Append(pages, page)
  /\ searches' = searches \o Attempts(Current, searching.attempts + 1, TRUE)
  /\ searching' = NoSearch
  /\ UNCHANGED <<pc, group, fetching, fetches, manifest, result>>

\* A page that breaks its schema: its attempts are recorded all the same.
PageIsMalformed ==
  /\ Troubled
  /\ \E delay \in Pacing \cup {0} :
       /\ Paced(delay)
       /\ searches' = searches \o Attempts(Current, searching.attempts + 1, TRUE)
       /\ searching' = NoSearch /\ Raise("INVALID_RESPONSE")
       /\ UNCHANGED <<pages, group, fetching, fetches, manifest>>

SearchRetriesAllowed(delay, pause) ==
  /\ searching.attempts + 1 <= SearchRetries
  /\ pause <= SearchWait - (searching.waited + delay)

SearchRetried ==
  /\ Troubled
  /\ \E delay \in Pacing \cup {0}, pause \in SearchPauses :
       /\ Paced(delay) /\ SearchRetriesAllowed(delay, pause)
       /\ searching' = [attempts |-> searching.attempts + 1,
                        waited |-> searching.waited + delay + pause]
       /\ UNCHANGED <<pc, pages, searches, group, fetching, fetches, manifest,
                      result>>

\* A permanent error, or a transient one that may not be retried.
SearchFails ==
  /\ Troubled
  /\ \E delay \in Pacing \cup {0}, pause \in SearchPauses, transient \in BOOLEAN :
       /\ Paced(delay) /\ (transient => ~SearchRetriesAllowed(delay, pause))
       /\ FailSearch(searching.attempts + 1, "SEARCH_FAILED")

\* All queries answered, or no hit is left to take: the hits are grouped.
GroupDocuments ==
  /\ Calm
  /\ pc = "search" /\ (Current > Len(Plan) \/ ~MoreHits)
  /\ IF HitIdsRepeat(Hits) THEN Raise("DUPLICATE_HIT_ID")
     ELSE IF Cardinality(DocumentsOf(Hits)) > Budget["documents"]
     THEN Raise("UNIQUE_DOCUMENT_BUDGET_EXCEEDED")
     ELSE pc' = "fetch" /\ UNCHANGED result
  /\ UNCHANGED <<pages, searching, searches, group, fetching, fetches, manifest, sent>>

(***************************************************************************)
(* Documents.                                                              *)
(***************************************************************************)

Processing == pc = "fetch" /\ group < Len(Groups)

\* Why the body of document d is not asked for; "" if it is.  A record that a
\* search accepted can be read again; a body without a text counts as fetched.
NoFetchReason(d) ==
  CASE AbstractSuffices(Hits, d) -> "SKIPPED_METADATA_SUFFICIENT"
    [] ~AbstractSuffices(Hits, d) /\ max_requests = 0 -> "DISABLED_BY_POLICY"
    [] ~AbstractSuffices(Hits, d) /\ max_requests > 0 /\ ~Works[d].url ->
         "NO_CANONICAL_URL"
    [] OTHER -> IF RecordedRequests >= max_requests THEN "REQUEST_BUDGET_EXHAUSTED"
                ELSE IF RecordedBytes >= MaxBytes THEN "BYTE_BUDGET_EXHAUSTED"
                ELSE ""

\* Mistake: the document stays where it is.
SettleInPlace(status) ==
  /\ manifest' = [d \in DOMAIN manifest \cup {Document} |->
                    IF d = Document THEN status ELSE manifest[d]]
  /\ group' = group /\ fetching' = NoFetch

\* The manifest row of the document, and on to the next.
Settle(status) ==
  /\ manifest' = [d \in DOMAIN manifest \cup {Document} |->
                    IF d = Document THEN status ELSE manifest[d]]
  /\ group' = group + 1 /\ fetching' = NoFetch

LeaveBody ==
  /\ Calm
  /\ Processing /\ ~fetching.active /\ NoFetchReason(Document) # ""
  /\ Settle(NoFetchReason(Document))
  /\ UNCHANGED <<pc, pages, searching, searches, fetches, sent, result>>

Recorded(attempts, bytes) ==
  fetches' = IF attempts = 0 THEN fetches
             ELSE fetches \cup {[doc |-> Document, requests |-> attempts, bytes |-> bytes,
                                 queries |-> MemberQueries(Hits, Document)]}

\* The fetcher raises with the attempts it kept.  A broken contract ends the run.
FetchFails(category, attempts, bytes) ==
  /\ Recorded(attempts, bytes)
  /\ IF category = "CONTRACT"
     THEN /\ Raise("DOCUMENT_FETCH_CONTRACT_VIOLATION") /\ fetching' = NoFetch
          /\ UNCHANGED <<group, manifest>>
     ELSE Settle(category) /\ UNCHANGED <<pc, result>>
  /\ UNCHANGED <<pages, searching, searches>>

\* The host is resolved before the first request ...
BeginFetch ==
  /\ Calm
  /\ Processing /\ ~fetching.active /\ NoFetchReason(Document) = ""
  /\ fetching' = [NoFetch EXCEPT !.active = TRUE]
  /\ UNCHANGED <<pc, pages, searching, searches, group, fetches, manifest,
                 sent, result>>

\* A host that cannot be resolved, must not be asked, or resolves to no address.
AddressErrors == {"TRANSIENT", "SECURITY", "CONTRACT"}

BeginFetchFails ==
  /\ Troubled
  /\ Processing /\ ~fetching.active /\ NoFetchReason(Document) = ""
  /\ \E category \in AddressErrors : FetchFails(category, 0, 0)
  /\ UNCHANGED sent

Fetching == Processing /\ fetching.active
RequestsLeft == max_requests - RecordedRequests
BytesLeft == MaxBytes - RecordedBytes - fetching.bytes

\* What a request may cost before the fetch runs out of budget.
FetchBudgetExhausted ==
  /\ Calm
  /\ Fetching /\ (fetching.attempts >= RequestsLeft \/ BytesLeft <= 0)
  /\ FetchFails("BUDGET", fetching.attempts, fetching.bytes) /\ UNCHANGED sent

Ready == Fetching /\ fetching.attempts < RequestsLeft /\ BytesLeft > 0

\* Attempts an address error of the loop carries.
KeptAttempts == 0

\* ... and again before each request, also after a redirect or a retry.
ResolveFails ==
  /\ Troubled
  /\ Ready
  /\ \E category \in AddressErrors :
       FetchFails(category, KeptAttempts, IF KeptAttempts = 0 THEN 0 ELSE fetching.bytes)
  /\ UNCHANGED sent

Request ==
  /\ Ready
  /\ sent' = [sent EXCEPT !.fetch = @ + 1]

Cap == IF BytesLeft < MaxResponse THEN BytesLeft ELSE MaxResponse

FetchRetriesAllowed(pause) ==
  /\ fetching.retries < FetchRetries /\ fetching.attempts + 1 < RequestsLeft
  /\ fetching.waited + pause <= FetchWait

\* No connection, a transient status, or a stream cut after some bytes.
FetchRetried ==
  /\ Troubled
  /\ \E bytes \in 0 .. MaxResponse, pause \in FetchPauses :
       /\ Request /\ bytes <= Cap /\ FetchRetriesAllowed(pause)
       /\ fetching' = [fetching EXCEPT !.attempts = @ + 1, !.bytes = @ + bytes,
                                       !.retries = @ + 1, !.waited = @ + pause]
       /\ UNCHANGED <<pc, pages, searching, searches, group, fetches, manifest,
                      result>>

FetchGivesUp ==
  /\ Troubled
  /\ \E bytes \in 0 .. MaxResponse, pause \in FetchPauses :
       /\ Request /\ bytes <= Cap /\ ~FetchRetriesAllowed(pause)
       /\ FetchFails("TRANSIENT", fetching.attempts + 1, fetching.bytes + bytes)

\* An error status, a forbidden type, a body over its cap (read up to one byte
\* more, unless the headers gave it away), a response that breaks the protocol in
\* its headers or while it is read.
FetchRefused ==
  /\ Troubled
  /\ \E failure \in {<<"PERMANENT", 0>>, <<"SECURITY", 0>>, <<"BUDGET", 0>>, <<"BUDGET", Cap + 1>>}
          \cup {<<"SECURITY", size>> : size \in {n \in BodySizes : n <= Cap}}
          \cup {<<"CONTRACT", size>> : size \in 0 .. Cap + 1} :
       /\ Request
       /\ FetchFails(failure[1], fetching.attempts + 1, fetching.bytes + failure[2])

\* A redirect to an address that is refused keeps its attempts, also when the
\* target cannot be resolved.
RedirectFollowed ==
  /\ Troubled
  /\ Request /\ fetching.redirects < MaxRedirects
  /\ fetching' = [fetching EXCEPT !.attempts = @ + 1, !.redirects = @ + 1]
  /\ UNCHANGED <<pc, pages, searching, searches, group, fetches, manifest,
                 result>>

RedirectRefused ==
  /\ Troubled
  /\ \E category \in AddressErrors :
       /\ Request
       /\ category = "TRANSIENT" => fetching.redirects < MaxRedirects
       /\ FetchFails(category, fetching.attempts + 1, fetching.bytes)

FetchSucceeds ==
  /\ Calm
  /\ \E size \in BodySizes :
       /\ Request /\ size <= Cap
       /\ Recorded(fetching.attempts + 1, fetching.bytes + size)
       /\ Settle("FETCHED")
       /\ UNCHANGED <<pc, pages, searching, searches, result>>

(***************************************************************************)
(* Compilation.                                                            *)
(***************************************************************************)

Outcome(selected) == IF selected = <<>> THEN "SCIENTIFIC_NO_MATCH" ELSE "SUCCEEDED"

\* Why the run raises once all documents are processed: network failures that
\* cost all passages or all evidence, and budgets.
NetworkCode(evidence, packets) ==
  IF RecordedRequests > max_requests THEN "FETCH_REQUEST_BUDGET_EXCEEDED"
  ELSE IF TransientDocuments # {} /\ evidence = {} THEN "EXTERNAL_FETCH_UNAVAILABLE"
  ELSE IF Cardinality(packets) > Budget["packets"] THEN "BRIDGE_PACKET_BUDGET_EXCEEDED"
  ELSE ""

\* Checks of the packets, drafts, selection and feedback on the way.
CompileCode(found, evidence, packets, drafts, lost) ==
  IF \E p \in packets : ClosureBreaks(p, found, Hits) THEN "BRIDGE_CLOSURE_INVALID"
  ELSE IF DraftsBreak(drafts) THEN "CANDIDATE_EVIDENCE_MISSING"
  ELSE IF lost THEN "MECHANISM_QUOTA_NOT_MET"
  ELSE IF FeedbackRefuses(pages, searches, Hits, found, evidence, packets, fetches)
  THEN "FEEDBACK_INPUT_INVALID"
  ELSE ""

Ledger(found, drafts, pool) ==
  [search_requests |-> Len(searches), fetch_requests |-> RecordedRequests,
   fetch_response_bytes |-> RecordedBytes, raw_documents |-> Len(Hits),
   unique_documents |-> Len(Groups), extracted_passages |-> Len(found),
   vectorized_passages |-> Len(Vectorized(found)),
   generated_plans |-> Cardinality(drafts), candidates |-> Cardinality(pool)]

\* What the selection says of itself.
Audit(pool, quota, selected, status) ==
  [outcome |-> Outcome(selected), pool |-> pool, selected |-> selected,
   quota_status |-> status, route_status |-> RouteStatus(pool, quota, selected),
   underfill |-> Underfill(pool, status, selected)]

\* What a run that finishes hands over, with the feedback on its queries.
Bundle(parents, quota, audit, ledger, feedback) ==
  [kind |-> "BUNDLE", parents |-> parents, quota |-> quota, audit |-> audit,
   ledger |-> ledger, feedback |-> feedback]

\* Evidence, packets, drafts, candidates and selection, one computed from the
\* other; parents and quota matter only here.  The first check that fails raises.
Answer(parents, quota) ==
  \E found \in {Passages} : \E evidence \in {Cards(found)} :
  \E packets \in {Packets(evidence, Len(pages))} :
  \E drafts \in {Drafts(packets, parents)} : \E pool \in {Candidates(drafts)} :
  \E target \in {FeasibleTarget(pool, quota)} : \E selected \in {Select(pool, target)} :
    LET status == QuotaStatus(pool, quota, target)
        network == NetworkCode(evidence, packets)
        code == CompileCode(found, evidence, packets, drafts,
                            QuotaLost(pool, quota, target, selected))
    IN  IF network # "" THEN Raise(network)
        ELSE IF code # "" THEN Raise(code)
        ELSE /\ pc' = "done"
             /\ result' =
                  Bundle(parents, quota, Audit(pool, quota, selected, status),
                         Ledger(found, drafts, pool),
                         Feedback(pages, searches, Hits, found, evidence, packets, fetches))

\* The clock is looked at once, at the end; which error a run names that is late and
\* would fail a check as well is left open.
Compile ==
  /\ Calm
  /\ pc = "fetch" /\ group = Len(Groups)
  /\ \/ Raise("WALLTIME_BUDGET_EXCEEDED")
     \/ \E parents \in ParentPools, policy \in Policies :
          policy.max_requests = max_requests /\ Answer(parents, policy.quota)
  /\ UNCHANGED <<pages, searching, searches, group, fetching, fetches, manifest, sent>>

Done == pc = "done" /\ UNCHANGED vars

SearchNext == SearchSucceeds \/ PageIsMalformed \/ SearchRetried \/ SearchFails
                \/ WaitBudgetExceeded \/ GroupDocuments
FetchNext == LeaveBody \/ BeginFetch \/ BeginFetchFails \/ FetchBudgetExhausted
               \/ ResolveFails \/ FetchRetried \/ FetchGivesUp \/ FetchRefused
               \/ RedirectFollowed \/ RedirectRefused \/ FetchSucceeds

Next == SearchNext \/ FetchNext \/ Compile \/ Done

Spec == Init /\ [][Next]_vars /\ WF_vars(SearchNext \/ FetchNext \/ Compile)
=============================================================================
