------------------------------- MODULE Paging -------------------------------
(***************************************************************************)
(* The paged lists of the RPC API (api/rpc/services.py): ListSessions,     *)
(* newest first with a cursor of (started_at, id); ListRuns, newest first  *)
(* with a cursor of created_at alone; ListRunResults, oldest first with an *)
(* offset.  A client reads page after page while rows come and, for        *)
(* sessions, go.  Rows with equal created_at come from Postgres in any     *)
(* order, a different one for each query.  Rows are stamped by the clock   *)
(* of the process that makes them, so a later row may be stamped earlier.  *)
(***************************************************************************)
EXTENDS Integers, FiniteSets, Sequences, SequencesExt

CONSTANTS
  ListIds,      \* rows, numbered: ids are compared
  MaxStamp,     \* timestamps are 1 .. MaxStamp
  PageSize      \* page.limit

ASSUME PagingAssumption ==
  ListIds \subseteq Nat /\ MaxStamp \in Nat \ {0} /\ PageSize \in Nat \ {0}

VARIABLES
  listed,     \* which list is read: "sessions", "runs", "results"
  stamp,      \* each row's timestamp, 0: it is not there
  pages,      \* "first", "next" or "over"
  token,      \* page_token: [stamp, id] of the last row, or [offset]
  read,       \* the rows the client has got, in order
  lasting,    \* rows there since the first page
  backdated   \* a row came with a stamp no later than another's

gvars == <<listed, stamp, pages, token, read, lasting, backdated>>

Rows(st) == {i \in ListIds : st[i] # 0}

PagingInit ==
  /\ listed \in {"sessions", "runs", "results"}
  /\ stamp \in {st \in [ListIds -> 0 .. MaxStamp] :
                  /\ IsFiniteSet(Rows(st))
                  /\ listed = "results" => \A i, j \in Rows(st) : i # j => st[i] # st[j]}
  /\ pages = "first" /\ token = [stamp |-> 0, id |-> 0, offset |-> 0]
  /\ read = <<>> /\ lasting = {} /\ backdated = FALSE

\* Does i come before j in the list?
Before(i, j) ==
  CASE listed = "sessions" -> stamp[i] > stamp[j] \/ (stamp[i] = stamp[j] /\ i > j)
    [] listed = "runs"     -> stamp[i] > stamp[j]
    [] listed = "results"  -> stamp[i] < stamp[j]

\* What the page token leaves of the list.
After(i) ==
  CASE listed = "sessions" -> stamp[i] < token.stamp \/ (stamp[i] = token.stamp /\ i < token.id)
    [] listed = "runs"     -> stamp[i] < token.stamp
    [] listed = "results"  -> TRUE
Matching == {i \in Rows(stamp) : pages = "first" \/ After(i)}

\* The query's answers: the rows in order, equal ones in any order.
Orders == {s \in SetToSeqs(Matching) : \A m, n \in DOMAIN s : Before(s[m], s[n]) => m < n}

\* A page, and a token when rows are left.
ReadPage ==
  /\ pages # "over"
  /\ \E order \in Orders :
       LET from == IF listed = "results" THEN token.offset ELSE 0
           to   == IF from + PageSize < Len(order) THEN from + PageSize ELSE Len(order)
           page == SubSeq(order, from + 1, to)
       IN  /\ read' = read \o page
           /\ IF to < Len(order)
                THEN /\ pages' = "next"
                     /\ token' = [stamp |-> stamp[Last(page)], id |-> Last(page), offset |-> to]
                ELSE pages' = "over" /\ UNCHANGED token
  /\ lasting' = IF pages = "first" THEN Rows(stamp) ELSE lasting
  /\ UNCHANGED <<listed, stamp, backdated>>

RowComes(i, t) ==
  /\ stamp[i] = 0 /\ i \notin lasting
  /\ \A n \in DOMAIN read : read[n] # i
  /\ stamp' = [stamp EXCEPT ![i] = t]
  /\ backdated' = (backdated \/ \E j \in Rows(stamp) : t <= stamp[j])
  /\ UNCHANGED <<listed, pages, token, read, lasting>>

\* Sessions are evicted or cleared; runs and results stay.
RowGoes(i) ==
  /\ listed = "sessions" /\ stamp[i] # 0
  /\ stamp' = [stamp EXCEPT ![i] = 0]
  /\ lasting' = lasting \ {i}
  /\ UNCHANGED <<listed, pages, token, read, backdated>>

PagingNext ==
  \/ ReadPage
  \/ \E i \in ListIds : RowGoes(i) \/ \E t \in 1 .. MaxStamp : RowComes(i, t)

PagingSpec == PagingInit /\ [][PagingNext]_gvars

(***************************************************************************)
(* Properties.                                                             *)
(***************************************************************************)

PagingTypeOK ==
  /\ stamp \in [ListIds -> 0 .. MaxStamp] /\ pages \in {"first", "next", "over"}
  /\ lasting \subseteq Rows(stamp)

\* A client that reads to the end has got every row that was there all along,
\* and each once, however the list changed between its pages.  Two exceptions
\* are the code's: runs that share created_at with another, since the cursor
\* skips all of an instant (services.py:245-252), and results one of which
\* was stamped no later than an older one, since the offset then shifts
\* (services.py:267-272).
EachRowOnce ==
  pages = "over" =>
    \A i \in lasting :
      \/ listed = "runs" /\ \E j \in Rows(stamp) : j # i /\ stamp[j] = stamp[i]
      \/ listed = "results" /\ backdated
      \/ Cardinality({n \in DOMAIN read : read[n] = i}) = 1
=============================================================================
