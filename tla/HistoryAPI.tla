----------------------------- MODULE HistoryAPI -----------------------------
(***************************************************************************)
(* Cursor pagination of the History DB list queries served to the API      *)
(* (historydb: GetBatchesAPI, GetBidsAPI, GetTokensAPI, GetTxsAPI,         *)
(* GetExitsAPI, GetCoordinatorsAPI, GetAccountsAPI), against a table the   *)
(* synchronizer keeps writing while a client pages through it.             *)
(*                                                                         *)
(* Each query selects the rows of its table that its joins keep and its    *)
(* filters match, and, when fromItem is given, item_id >= fromItem (ASC)   *)
(* or item_id <= fromItem (DESC); orders by item_id; applies LIMIT; and    *)
(* reports pendingItems from total_items = COUNT( * ) OVER (), the number  *)
(* of rows of the WHERE clause before the LIMIT.  The filters of every     *)
(* endpoint are abstracted to "tag = f" or no filter.  Two joins make a    *)
(* row visible or not: GetTxsAPI keeps only forged txs (tx.batch_num IS    *)
(* NOT NULL) and GetCoordinatorsAPI keeps only the latest row of each      *)
(* bidder (MAX(item_id) GROUP BY bidder_addr).                             *)
(*                                                                         *)
(* The writer (the synchronizer, whose History DB writes are outside this *)
(* repository) inserts rows with increasing item_ids, forges L1 txs and,  *)
(* on a reorg, deletes the rows added after some point, which are the     *)
(* rows of highest item_id.  The API client (outside this repository)     *)
(* pages: first call without fromItem, next calls from just past the last *)
(* item returned, until pendingItems is 0.  pendingItems is a uint64,     *)
(* computed modulo 2^UintWidth (TLC cannot hold 2^64; any width wraps the *)
(* same way for these counts).                                            *)
(***************************************************************************)
EXTENDS Integers, FiniteSets

CONSTANTS
  Endpoints,   \* the queries the client may page through
  MaxItemID,   \* item_ids are 1..MaxItemID
  InitRows,    \* rows in the table when the client starts
  Tags,        \* values the filters compare with
  Keys,        \* bidder_addr of coordinator rows
  Limits,      \* page sizes the client may ask for
  UintWidth,   \* width of pendingItems
  Writes,      \* does the synchronizer write while the client pages?
  SQLErrors,   \* the errors a query may fail with (a ctx timeout, ...)
  MaxSQLErrors \* failed queries in one paging session (bound)

ASSUME MaxItemID \in Nat \ {0} /\ InitRows \in 0..MaxItemID
ASSUME Limits \subseteq Nat \ {0} /\ UintWidth \in Nat \ {0}
ASSUME Writes \in BOOLEAN /\ MaxSQLErrors \in Nat

NoItem == -1           \* fromItem == nil
AnyTag == "any"        \* no filter
Orders == {"ASC", "DESC"}
DefaultKey == CHOOSE k \in Keys : TRUE
NoSQLErr == "none"     \* err == nil
NoStatus == 0          \* no response yet

VARIABLES
  endpoint,   \* the query the client pages through
  rows,       \* the table: item_id -> [tag, key, forged, live]
  nextId,     \* item_id the next inserted row gets
  order,      \* the client's order, filter and limit
  filter,
  limit,
  cursor,     \* fromItem of the next call, NoItem for the first one
  seen,       \* item_ids returned so far
  returned,   \* number of rows returned so far
  pending,    \* pendingItems of the last call
  phase,      \* "start" | "paging" | "done"
  stable,     \* entities selected at every step since the first call
  status,     \* HTTP status of the last response
  sqlErrors   \* queries that failed so far

vars == <<endpoint, rows, nextId, order, filter, limit, cursor, seen, returned,
          pending, phase, stable, status, sqlErrors>>

\* the rows a table of endpoint e may hold (keys and forging matter only
\* to the endpoints whose joins look at them)
RowKinds(e) ==
  [tag : Tags,
   key : IF e = "GetCoordinatorsAPI" THEN Keys ELSE {DefaultKey},
   forged : IF e = "GetTxsAPI" THEN BOOLEAN ELSE {TRUE},
   live : {TRUE}]

Uint(x) == x % (2 ^ UintWidth)

(***************************************************************************)
(* The WHERE clause of each query, over a table T.                         *)
(***************************************************************************)
\* Mutant: the cursor excludes the fromItem row itself
FromItemStrict(i, o, from) ==
  from = NoItem \/ (o = "ASC" /\ i > from) \/ (o = "DESC" /\ i < from)

\* pagination clause: item_id >= fromItem (ASC) or <= fromItem (DESC)
FromItemClause(i, o, from) ==
  from = NoItem \/ (o = "ASC" /\ i >= from) \/ (o = "DESC" /\ i <= from)

\* the endpoint's own filters (ethAddr, bjj, tokenID, idx, batchNum, ...)
FilterOK(T, i, f) == f = AnyTag \/ T[i].tag = f

\* GetTxsAPI: filters, fromItem, then tx.batch_num IS NOT NULL
TxsWhere(T, i, f, o, from) ==
  FilterOK(T, i, f) /\ FromItemClause(i, o, from) /\ T[i].forged

\* GetCoordinatorsAPI: the latest row of each bidder, filters, fromItem
CoordinatorsWhere(T, i, f, o, from) ==
  /\ \A j \in DOMAIN T : T[j].live /\ T[j].key = T[i].key => j <= i
  /\ FilterOK(T, i, f) /\ FromItemClause(i, o, from)

\* GetBatchesAPI, GetBidsAPI, GetTokensAPI, GetExitsAPI, GetAccountsAPI:
\* the endpoint's filters, then fromItem
BatchesWhere(T, i, f, o, from) == FilterOK(T, i, f) /\ FromItemClause(i, o, from)
BidsWhere(T, i, f, o, from) == FilterOK(T, i, f) /\ FromItemClause(i, o, from)
TokensWhere(T, i, f, o, from) == FilterOK(T, i, f) /\ FromItemClause(i, o, from)
ExitsWhere(T, i, f, o, from) == FilterOK(T, i, f) /\ FromItemClause(i, o, from)
AccountsWhere(T, i, f, o, from) == FilterOK(T, i, f) /\ FromItemClause(i, o, from)

Where(T, e, i, f, o, from) ==
  /\ T[i].live
  /\ CASE e = "GetTxsAPI"          -> TxsWhere(T, i, f, o, from)
       [] e = "GetCoordinatorsAPI" -> CoordinatorsWhere(T, i, f, o, from)
       [] e = "GetBatchesAPI"      -> BatchesWhere(T, i, f, o, from)
       [] e = "GetBidsAPI"         -> BidsWhere(T, i, f, o, from)
       [] e = "GetTokensAPI"       -> TokensWhere(T, i, f, o, from)
       [] e = "GetExitsAPI"        -> ExitsWhere(T, i, f, o, from)
       [] e = "GetAccountsAPI"     -> AccountsWhere(T, i, f, o, from)

Matching(T, e, f, o, from) == {i \in DOMAIN T : Where(T, e, i, f, o, from)}

\* total_items: COUNT( * ) OVER () over the rows of the WHERE clause
TotalItems(T, e, f, o, from) == Cardinality(Matching(T, e, f, o, from))

Precedes(i, j, o) == IF o = "ASC" THEN i < j ELSE i > j

\* ORDER BY item_id ASC|DESC LIMIT l
Page(S, o, l) == {i \in S : Cardinality({j \in S : Precedes(j, i, o)}) < l}

\* Mutant: the inverted formula of GetTokensAPI
PendingInverted(total, n) == Uint(n - total)

\* pendingItems: rows[0].TotalItems - uint64(len(rows))
PendingItems(total, n) == Uint(total - n)

\* GetTokensAPI: uint64(len(tokens)) - tokens[0].TotalItems
TokensPendingItems(total, n) == Uint(n - total)

MaxItem(S) == CHOOSE x \in S : \A y \in S : y <= x
MinItem(S) == CHOOSE x \in S : \A y \in S : x <= y

\* Mutant: the client sends the last item it got as the next fromItem
CursorAtLast(p, o) == IF o = "ASC" THEN MaxItem(p) ELSE MinItem(p)

\* the client's next fromItem: just past the last item of the page
NextCursor(p, o) == IF o = "ASC" THEN MaxItem(p) + 1 ELSE MinItem(p) - 1

\* an entity is a row, except for coordinators, where it is the bidder
Entity(T, i) == IF endpoint = "GetCoordinatorsAPI" THEN T[i].key ELSE i
Entities(T, S) == {Entity(T, i) : i \in S}

\* the entities the query with filter f selects in table T, whatever the cursor
Selected(T, f) == Entities(T, Matching(T, endpoint, f, "ASC", NoItem))

(***************************************************************************)
(* One call of a list query: the page it returns and its pendingItems.     *)
(* An empty page returns pendingItems 0; otherwise the endpoint computes   *)
(* it from total_items of the first row and the number of rows returned.  *)
(***************************************************************************)
ListQuery(T, e, f, o, l, from) ==
  [page |-> Page(Matching(T, e, f, o, from), o, l), total |-> TotalItems(T, e, f, o, from)]

\* the endpoint's pendingItems p, or 0 for an empty page
WithPending(r, p) == [page |-> r.page, pending |-> IF r.page = {} THEN 0 ELSE p]

GetBatchesAPI(T, f, o, l, from) ==
  LET r == ListQuery(T, "GetBatchesAPI", f, o, l, from)
  IN WithPending(r, PendingItems(r.total, Cardinality(r.page)))
GetBidsAPI(T, f, o, l, from) ==
  LET r == ListQuery(T, "GetBidsAPI", f, o, l, from)
  IN WithPending(r, PendingItems(r.total, Cardinality(r.page)))
GetTokensAPI(T, f, o, l, from) ==
  LET r == ListQuery(T, "GetTokensAPI", f, o, l, from)
  IN WithPending(r, TokensPendingItems(r.total, Cardinality(r.page)))
GetTxsAPI(T, f, o, l, from) ==
  LET r == ListQuery(T, "GetTxsAPI", f, o, l, from)
  IN WithPending(r, PendingItems(r.total, Cardinality(r.page)))
GetExitsAPI(T, f, o, l, from) ==
  LET r == ListQuery(T, "GetExitsAPI", f, o, l, from)
  IN WithPending(r, PendingItems(r.total, Cardinality(r.page)))
GetCoordinatorsAPI(T, f, o, l, from) ==
  LET r == ListQuery(T, "GetCoordinatorsAPI", f, o, l, from)
  IN WithPending(r, PendingItems(r.total, Cardinality(r.page)))
GetAccountsAPI(T, f, o, l, from) ==
  LET r == ListQuery(T, "GetAccountsAPI", f, o, l, from)
  IN WithPending(r, PendingItems(r.total, Cardinality(r.page)))

Query(T, e, f, o, l, from) ==
  CASE e = "GetBatchesAPI"      -> GetBatchesAPI(T, f, o, l, from)
    [] e = "GetBidsAPI"         -> GetBidsAPI(T, f, o, l, from)
    [] e = "GetTokensAPI"       -> GetTokensAPI(T, f, o, l, from)
    [] e = "GetTxsAPI"          -> GetTxsAPI(T, f, o, l, from)
    [] e = "GetExitsAPI"        -> GetExitsAPI(T, f, o, l, from)
    [] e = "GetCoordinatorsAPI" -> GetCoordinatorsAPI(T, f, o, l, from)
    [] e = "GetAccountsAPI"     -> GetAccountsAPI(T, f, o, l, from)

(***************************************************************************)
(* The HTTP handlers (api: getCoordinators, getHistoryTxs, getExits,       *)
(* getBids, getTokens): the query's rows and pendingItems with status 200, *)
(* or, when the query fails, the status retSQLErr gives its error.  The    *)
(* client sends valid parameters, so the parsers' 400 does not occur.     *)
(* res is the query's answer [err, page, pending].                         *)
(***************************************************************************)
\* retSQLErr: the ctx timeout, a duplicated key (pq 23505), sql.ErrNoRows, other
RetSQLErr(err) ==
  [status |-> CASE err = "timeout" -> 503
                [] err = "23505"   -> 409
                [] err = "noRows"  -> 404
                [] OTHER           -> 500,
   page |-> {}, pending |-> 0]

\* Mutant: the query's error is discarded (items, pendingItems, _ := ...)
ListHandlerIgnoreErr(res) == [status |-> 200, page |-> res.page, pending |-> res.pending]

\* the body of every list handler: retSQLErr and return, or 200 and the items
ListHandler(res) ==
  IF res.err # NoSQLErr THEN RetSQLErr(res.err)
                        ELSE [status |-> 200, page |-> res.page, pending |-> res.pending]

getCoordinators(res) == ListHandler(res)
getHistoryTxs(res) == ListHandler(res)
getExits(res) == ListHandler(res)
getBids(res) == ListHandler(res)
getTokens(res) == ListHandler(res)

\* the handler of each endpoint; those of batches and accounts are not in
\* this repository and are taken to have the same shape
Handler(e, res) ==
  CASE e = "GetCoordinatorsAPI" -> getCoordinators(res)
    [] e = "GetTxsAPI"          -> getHistoryTxs(res)
    [] e = "GetExitsAPI"        -> getExits(res)
    [] e = "GetBidsAPI"         -> getBids(res)
    [] e = "GetTokensAPI"       -> getTokens(res)
    [] OTHER                    -> ListHandler(res)

\* the query's answer: its rows, or one of the errors still allowed
Answers(f, o, l, from) ==
  {LET q == Query(rows, endpoint, f, o, l, from)
   IN  [err |-> NoSQLErr, page |-> q.page, pending |-> q.pending]}
    \cup {[err |-> e, page |-> {}, pending |-> 0] :
             e \in IF sqlErrors < MaxSQLErrors THEN SQLErrors ELSE {}}

\* One call through the handler.  On a 200 the client records the page and
\* moves its cursor just past its last item; on an error it keeps its
\* cursor and calls again (a transient error is retried).
CallQuery(f, o, l, from) ==
  \E res \in Answers(f, o, l, from) :
    LET r == Handler(endpoint, res) IN
    /\ status' = r.status
    /\ sqlErrors' = IF res.err = NoSQLErr THEN sqlErrors ELSE sqlErrors + 1
    /\ seen' = seen \cup r.page
    /\ returned' = returned + Cardinality(r.page)
    /\ pending' = IF r.status = 200 THEN r.pending ELSE pending
    /\ cursor' = IF r.page = {} THEN from ELSE NextCursor(r.page, o)

-----------------------------------------------------------------------------
(***************************************************************************)
(* The API client.                                                         *)
(***************************************************************************)
FirstPage ==
  /\ phase = "start"
  /\ \E o \in Orders, f \in Tags \cup {AnyTag}, l \in Limits :
       /\ order' = o /\ filter' = f /\ limit' = l
       /\ CallQuery(f, o, l, NoItem)
       /\ stable' = Selected(rows, f)
  /\ phase' = IF status' = 200 THEN "paging" ELSE "start"
  /\ UNCHANGED <<endpoint, rows, nextId>>

NextPage ==
  /\ phase = "paging"
  /\ pending # 0 \/ status # 200
  /\ CallQuery(filter, order, limit, cursor)
  /\ UNCHANGED <<endpoint, rows, nextId, order, filter, limit, phase, stable>>

LastPage ==
  /\ phase = "paging"
  /\ pending = 0 /\ status = 200
  /\ phase' = "done"
  /\ UNCHANGED <<endpoint, rows, nextId, order, filter, limit, cursor, seen,
                 returned, pending, stable, status, sqlErrors>>

(***************************************************************************)
(* The synchronizer's writes to the table, while the client pages.         *)
(***************************************************************************)
clientVars == <<order, filter, limit, cursor, seen, returned, pending, phase,
                status, sqlErrors>>

\* an entity stops counting as stable once the query no longer selects it
Track(T) == IF phase = "start" THEN stable ELSE stable \cap Selected(T, filter)

InsertRow ==
  /\ Writes /\ phase # "done"
  /\ nextId <= MaxItemID
  /\ \E r \in RowKinds(endpoint) :
       rows' = [i \in 1..nextId |-> IF i = nextId THEN r ELSE rows[i]]
  /\ nextId' = nextId + 1
  /\ stable' = Track(rows')
  /\ UNCHANGED <<endpoint, clientVars>>

\* an L1 tx, stored when its block is synced, is forged by a later batch
ForgeTx ==
  /\ Writes /\ phase # "done"
  /\ \E i \in DOMAIN rows :
       /\ rows[i].live /\ ~rows[i].forged
       /\ rows' = [rows EXCEPT ![i].forged = TRUE]
  /\ stable' = Track(rows')
  /\ UNCHANGED <<endpoint, nextId, clientVars>>

\* historyDB.Reorg: the rows of the discarded blocks are the newest ones
ReorgRows ==
  /\ Writes /\ phase # "done"
  /\ \E k \in DOMAIN rows :
       /\ rows[k].live
       /\ rows' = [i \in DOMAIN rows |->
                     IF i >= k THEN [rows[i] EXCEPT !.live = FALSE] ELSE rows[i]]
  /\ stable' = Track(rows')
  /\ UNCHANGED <<endpoint, nextId, clientVars>>

Init ==
  /\ endpoint \in Endpoints
  /\ rows \in [1..InitRows -> RowKinds(endpoint)]
  /\ nextId = InitRows + 1
  /\ order = "ASC" /\ filter = AnyTag /\ limit = CHOOSE l \in Limits : TRUE
  /\ cursor = NoItem /\ seen = {} /\ returned = 0 /\ pending = 0
  /\ phase = "start" /\ stable = {}
  /\ status = NoStatus /\ sqlErrors = 0

Next == FirstPage \/ NextPage \/ LastPage \/ InsertRow \/ ForgeTx \/ ReorgRows

Spec == Init /\ [][Next]_vars

-----------------------------------------------------------------------------
TypeOK ==
  /\ endpoint \in Endpoints
  /\ DOMAIN rows = 1..(nextId - 1) /\ nextId \in 1..(MaxItemID + 1)
  /\ \A i \in DOMAIN rows : rows[i] \in [tag : Tags, key : Keys,
                                         forged : BOOLEAN, live : BOOLEAN]
  /\ order \in Orders /\ filter \in Tags \cup {AnyTag} /\ limit \in Limits
  /\ cursor \in {NoItem} \cup 0..(MaxItemID + 1)
  /\ seen \subseteq 1..MaxItemID /\ returned \in 0..MaxItemID
  /\ pending \in 0..(2 ^ UintWidth - 1)
  /\ phase \in {"start", "paging", "done"}
  /\ status \in {NoStatus, 200, 404, 409, 500, 503} /\ sqlErrors \in 0..MaxSQLErrors

(***************************************************************************)
(* On a table nobody writes to, pendingItems of every page is the number   *)
(* of selected rows the client has not been given yet (spec: totalMatching *)
(* - returnedSoFar), for every endpoint's joins and both orders.           *)
(***************************************************************************)
PendingItemsExact ==
  phase # "start" =>
    pending = Cardinality(Matching(rows, endpoint, filter, "ASC", NoItem) \ seen)

(***************************************************************************)
(* When pendingItems tells the client it is done, it has been given every  *)
(* entity the query selected during the whole paging, and no entity twice, *)
(* whatever the synchronizer inserted, forged or reorged meanwhile.        *)
(***************************************************************************)
PaginationComplete ==
  phase = "done" => /\ stable \subseteq Entities(rows, seen)
                    /\ returned = Cardinality(Entities(rows, seen))

=============================================================================
