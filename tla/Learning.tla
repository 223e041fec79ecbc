------------------------------ MODULE Learning -------------------------------
(***************************************************************************)
(* What Workers learn: ReflectionEngine::record_success() and               *)
(* record_failure() (reflection.cpp), called on the threads of all Workers,  *)
(* index the outcome in the process's TFIDFIndex (tfidf.hpp) and append it to *)
(* an entry of the session's MemoryStore.  The index and the store have a    *)
(* lock each; the sequence index, get, set has none.                        *)
(*                                                                          *)
(* A text is abstracted to its set of terms, and an outcome to its number and *)
(* how many lines its summary has.  recall_experience() changes nothing; what *)
(* it needs of the index is DfCoversDocs.                                   *)
(***************************************************************************)
EXTENDS Naturals, Sequences, FiniteSets

CONSTANTS Learners,    \* threads of Workers
          ExpKeys,     \* "exp:tool:<tool>" and "exp:fail:<error>"
          Contexts,    \* first 30 characters of an input or a context
          Terms,       \* what tfidf_tokenize() finds
          MaxLines,    \* bound: lines of a summary
          MaxRecords   \* bound: outcomes recorded

ASSUME LearningAssumption == MaxLines \in Nat \ {0} /\ MaxRecords \in Nat

VARIABLES
    docs,      \* docs_: documents, one for a key
    df,        \* df_: [Terms -> documents that were ever indexed with the term]
    entries,   \* session_: [ExpKeys -> lines]
    learner,   \* [Learners -> what record_success() is doing]
    records,   \* bound and numbering: outcomes so far
    log,       \* history: [ExpKeys -> outcomes stored, in the order of set()]
    lost       \* history: keys of which a set() overwrote another one's

learningVars == <<docs, df, entries, learner, records, log, lost>>

Resting == [at |-> "rest"]

LrInit ==
    /\ docs = {} /\ df = [x \in Terms |-> 0]
    /\ entries = [k \in ExpKeys |-> << >>] /\ log = [k \in ExpKeys |-> << >>]
    /\ learner = [t \in Learners |-> Resting] /\ records = 0 /\ lost = {}

\* A text without a term is not indexed.
Reindexed(k, terms) ==
    {d \in docs : d.key # k} \cup
        (IF terms = {} THEN {} ELSE {[key |-> k, terms |-> terms]})

\* Fault: uncounts the terms of the old document and counts only new ones.
UpsertRecounting(k, terms) ==
    LET old == UNION {d.terms : d \in {e \in docs : e.key = k}}
    IN  /\ docs' = Reindexed(k, terms)
        /\ df' = [x \in Terms |-> df[x] + (IF x \in terms \ old THEN 1 ELSE 0)
                                        - (IF x \in old THEN 1 ELSE 0)]

\* upsert(): the old document goes, its terms stay counted.
Upsert(k, terms) ==
    /\ docs' = Reindexed(k, terms)
    /\ df' = [x \in Terms |-> df[x] + (IF x \in terms THEN 1 ELSE 0)]

\* A Worker has an outcome to record.
RecordOutcome(t) ==
    /\ learner[t].at = "rest" /\ records < MaxRecords
    /\ \E k \in ExpKeys, p \in Contexts, terms \in SUBSET Terms, n \in 1..MaxLines :
         /\ Upsert(<<k, p>>, terms)
         /\ learner' = [learner EXCEPT ![t] =
                          [at |-> "get", key |-> k, id |-> records + 1, lines |-> n]]
    /\ records' = records + 1
    /\ UNCHANGED <<entries, log, lost>>

Get(t) ==
    /\ learner[t].at = "get"
    /\ learner' = [learner EXCEPT ![t] =
                     [at |-> "set", existing |-> entries[@.key],
                      key |-> @.key, id |-> @.id, lines |-> @.lines]]
    /\ UNCHANGED <<docs, df, entries, records, log, lost>>

LinesOf(id, n) == [i \in 1..n |-> <<id, i>>]

\* Fault: a cap of two.
AppendedToLast(existing, entry) ==
    (IF Len(existing) + 1 > 2 THEN Tail(existing) ELSE existing) \o entry

\* "Keep last 3": the new entry counts as one line whatever it holds, and one
\* line of the old ones is erased.
Appended(existing, entry) ==
    (IF Len(existing) + 1 > 3 THEN Tail(existing) ELSE existing) \o entry

Set(t) ==
    /\ learner[t].at = "set"
    /\ LET r == learner[t] IN
         /\ entries' = [entries EXCEPT ![r.key] = Appended(r.existing, LinesOf(r.id, r.lines))]
         /\ log' = [log EXCEPT ![r.key] = Append(@, [id |-> r.id, lines |-> r.lines])]
         /\ lost' = IF entries[r.key] = r.existing THEN lost ELSE lost \cup {r.key}
    /\ learner' = [learner EXCEPT ![t] = Resting]
    /\ UNCHANGED <<docs, df, records>>

LrNext == \E t \in Learners : RecordOutcome(t) \/ Get(t) \/ Set(t)

LrSpec == LrInit /\ [][LrNext]_learningVars

-----------------------------------------------------------------------------
\* query() divides the number of documents by df_ for every term of every
\* document and tests df_ only for the terms of the query: no term of a
\* document has a count below the documents that hold it.
DfCoversDocs ==
    \A x \in Terms : df[x] >= Cardinality({d \in docs : x \in d.terms})

\* Of the newest outcome of an entry every line is in it, and of the one before
\* every line but the first one of three or more, unless two Workers recorded
\* under that key at once and one lost what the other set.
NewestTwoKept ==
    \A k \in ExpKeys \ lost :
        \A i \in DOMAIN log[k] : i + 2 > Len(log[k]) =>
            \A n \in 1..log[k][i].lines :
                \/ i + 1 = Len(log[k]) /\ n = 1 /\ log[k][i].lines > 2
                \/ \E j \in DOMAIN entries[k] : entries[k][j] = <<log[k][i].id, n>>
=============================================================================
