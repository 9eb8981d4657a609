---------------------------- MODULE SourceSearch ----------------------------
(***************************************************************************)
(* How each adapter reads a source page by page (retrieval/adapters.py).   *)
(* A search is a record that one answered request moves forward; the       *)
(* listing may change between two requests, and a server may repeat itself.*)
(*                                                                         *)
(* NOMAD pages by key: the next page starts after the last entry of the    *)
(* previous one, and incomplete entries are skipped.  MC3D follows links   *)
(* and C2DB and TQC count pages, so a page is a slice of the listing as it *)
(* is when asked.  Materials Project and NIMS answer at once.              *)
(***************************************************************************)
EXTENDS RetrievalEvaluation, Listing, FiniteSetsExt, SequencesExt

CONSTANTS
  ChunkSize,          \* RetrievalPolicy.chunk_size
  MaxRecordsScanned   \* RetrievalPolicy.max_records_scanned

ASSUME SearchAssumption ==
  /\ ChunkSize \in Nat \ {0} /\ MaxRecordsScanned \in Nat \ {0}
  /\ MaxRecordsScanned % ChunkSize = 0

ByKey == {"nomad"}
ByPage == {"mc3d", "c2db", "topological_quantum_chemistry"}

Search == [found : Seq(Ids), after : Ids \cup {0}, page : Nat,
           seen : SUBSET Nat, state : {"open", "done", "error"}]
NewSearch ==
  [found |-> <<>>, after |-> 0, page |-> 0, seen |-> {}, state |-> "open"]

\* SortSeq and SelectSeq, in a form the provers can open.
Sorted(seq) ==
  LET Until(i) ==
        {j \in DOMAIN seq : seq[j] < seq[i] \/ (seq[j] = seq[i] /\ j <= i)}
  IN  [n \in DOMAIN seq |-> seq[CHOOSE i \in DOMAIN seq : Cardinality(Until(i)) = n]]
Only(seq, positions) ==
  LET order == Ascending(positions) IN [n \in DOMAIN order |-> seq[order[n]]]
TakeFirst(seq, n) == SubSeq(seq, 1, IF n < Len(seq) THEN n ELSE Len(seq))
Slice(seq, from, n) == SubSeq(seq, from + 1, IF from + n < Len(seq) THEN from + n ELSE Len(seq))
Kept(source, seq) ==
  IF source \in ByKey THEN Only(seq, {i \in DOMAIN seq : Entry[seq[i]].complete}) ELSE seq

\* TQC lists an identifier once; the others keep what a page repeats.
Gather(source, found, data) ==
  LET new == IF source = "topological_quantum_chemistry"
               THEN Only(data, {i \in DOMAIN data : ~Contains(found, data[i])}) ELSE data
  IN  TakeFirst(found \o new, MaxRecordsScanned)

\* Mistake: the next page starts one key too far.
KeyedPageSkips(source, rows, s) ==
  LET rest == {id \in rows : id > s.after}
      data == TakeFirst(Ascending(rest), ChunkSize)
      next == IF Len(data) = Cardinality(rest) THEN 0 ELSE Last(data) + 1
  IN  [data |-> data, next |-> next]
\* One page: the entries it holds and the position of the next one, 0 if none.
KeyedPage(source, rows, s) ==
  LET room == MaxRecordsScanned - Len(s.found)
      rest == {id \in rows : id > s.after}
      data == TakeFirst(Ascending(rest), Min({ChunkSize, room}))
      \* the key to go on from, when something is left
      next == IF Len(data) = Cardinality(rest) THEN 0 ELSE Last(data)
  IN  [data |-> data, next |-> next]
NumberedPage(source, rows, s) ==
  LET data == Slice(Ascending(rows), s.page * ChunkSize, ChunkSize)
      more == Cardinality(rows) > (s.page + 1) * ChunkSize
  IN  [data |-> data, next |-> IF more THEN s.page + 1 ELSE 0]

Answered(source, req, listing, s) ==
  LET rows == {id \in listing : Matches(source, req, id)} IN
    CASE source \in ByKey -> KeyedPage(source, rows, s)
      [] source \in ByPage -> NumberedPage(source, rows, s)
      [] OTHER -> [data |-> TakeFirst(Ascending(rows), MaxRecordsScanned), next |-> 0]

\* A stuck server: the page and the position it gave before.  TQC compares
\* the page it asks for with a total, which does not depend on the page.
Repeated(source, req, listing, s) ==
  LET again == [s EXCEPT !.after = 0, !.page = IF s.page = 0 THEN 0 ELSE s.page - 1]
      position == CASE source \in ByKey -> s.after
                    [] source = "topological_quantum_chemistry" ->
                         Answered(source, req, listing, s).next
                    [] OTHER -> s.page
  IN  [Answered(source, req, listing, again) EXCEPT !.next = position]

\* Mistake: positions are not remembered.
NeverSeen(s, position) == FALSE
Seen(s, position) == position \in s.seen

\* The adapter's loop body after one response.
Advance(source, s, answer) ==
  LET found == Gather(source, s.found, Kept(source, answer.data))
      full == Len(found) >= MaxRecordsScanned
      read == [s EXCEPT !.found = found, !.seen = s.seen \cup {answer.next}]
      Ends(state, after) == [after EXCEPT !.state = state]
  IN  IF source \in ByKey THEN
        IF answer.next = 0 THEN Ends("done", read)
        ELSE IF Seen(s, answer.next) \/ answer.data = <<>> THEN Ends("error", s)
        ELSE [read EXCEPT !.after = answer.next, !.state = IF full THEN "done" ELSE "open"]
      ELSE IF answer.next = 0 \/ full THEN Ends("done", read)
      ELSE IF source = "mc3d" /\ Seen(s, answer.next) THEN Ends("error", s)
      ELSE IF source = "c2db" /\ answer.data = <<>> THEN Ends("done", read)
      ELSE [read EXCEPT !.page = s.page + 1]

\* The documents of a finished search, in the order of their material ids.
Documents(s) == Sorted(s.found)
=============================================================================
