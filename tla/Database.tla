------------------------------- MODULE Database -------------------------------
(***************************************************************************)
(* What the services do through database/sql.                              *)
(* pkg/sqltransaction and pkg/sqlxtransaction run a caller's function in a *)
(* transaction; the context may end at any moment, and database/sql then   *)
(* rolls back by itself.  pkg/enumdb reads tables into the two maps of     *)
(* pkg/enumcache.  pkg/sqlutil quotes names and values, which a server     *)
(* reads back.  pkg/errutil and errors.Join keep every error met: joining  *)
(* gives an error with the joined ones as its parts.                       *)
(***************************************************************************)
EXTENDS Integers, SequencesExt, FiniteSetsExt

CONSTANTS
  Tables,   \* the contents the tables to load may have: sequences of sequences of [id, name]
  IDs,      \* identifiers
  Names,    \* names, as integers in the order of sort.Strings
  Chars,    \* the characters of the texts to quote
  MaxChars, \* bound on their length
  MaxWrites \* bound on the changes to loaded caches

ASSUME TablesAssumption == Tables \subseteq Seq(Seq([id : IDs, name : Names])) /\ MaxWrites \in Nat

VARIABLES
  task,                                \* what is under way: "tx", a transaction, "enum", a load, or "sql", a clause
  txpc, server, finished, own, alive,  \* a transaction: where the call is, what the server did, is database/sql's handle finished,
                                       \* did run finish it, and is the context live?
  told, unsure, stuck, ran, txerr,     \* Commit told of a success, or of an error; a rollback failed; how run ended; the error
  tables, loadpc, todo, table, row,    \* a load: the tables, where it is, those to come, the one that is read, and its next row
  opened, cache, enums, loaderr, writes, \* result sets that are open, the cache being filled, those that are, the error, and later writes
  clause                               \* a clause, with what it was built from

txVars == <<txpc, server, finished, own, alive, told, unsure, stuck, ran, txerr>>
loadVars == <<tables, loadpc, todo, table, row, opened, cache, enums, loaderr, writes>>
dbVars == <<task, txVars, loadVars, clause>>

-----------------------------------------------------------------------------
(* Errors *)

Error(e) == [is |-> e, parts |-> <<>>]
nil == Error("nil")
Aggregate(parts) == [is |-> "join", parts |-> parts]

\* An aggregate of those that are not nil: joining an aggregate nests it.
Join(e, f) ==
  CASE e = nil /\ f = nil -> nil
    [] e = nil /\ f # nil -> Aggregate(<<f>>)
    [] e # nil /\ f = nil -> Aggregate(<<e>>)
    [] OTHER -> Aggregate(<<e, f>>)

\* The function's error joins the one at hand; no function at all is an error too.
JoinFnError(err, fn) == IF fn = "none" THEN Join(err, Error("ErrNilErrorFunc")) ELSE IF fn = "ok" THEN err ELSE Join(err, Error(fn))
\* The parts of an aggregate, one level of them, or the error itself.
Errors(err) == IF err = nil THEN <<>> ELSE IF err.is = "join" THEN err.parts ELSE <<err>>
\* Trace wraps: what errors.Is finds stays.
Trace(err) == err

-----------------------------------------------------------------------------
(* Transactions *)

IdleTx ==
  /\ txpc = "begin" /\ server = "none" /\ finished = FALSE /\ own = FALSE /\ alive = TRUE
  /\ told = FALSE /\ unsure = FALSE /\ stuck = FALSE /\ ran = "no" /\ txerr = nil

InTx(place) == task = "tx" /\ txpc = place
TxMoves(place) == txpc' = place /\ UNCHANGED <<task, loadVars, clause>>

\* ExecWithOptions up to the call of run: a nil argument is an error at once.
BeginFails == \E e \in {"ErrNilDB", "ErrNilExecFunc", "begin"} :
  /\ InTx("begin")
  /\ txerr' = Error(e)
  /\ TxMoves("returned")
  /\ UNCHANGED <<server, finished, own, alive, told, unsure, stuck, ran>>
BeginTx ==
  /\ InTx("begin") /\ alive
  /\ server' = "open"
  /\ TxMoves("run")
  /\ UNCHANGED <<finished, own, alive, told, unsure, stuck, ran, txerr>>

\* The function may finish the transaction it was given.
RunFinishes == \E how \in {"committed", "undone"} :
  /\ InTx("run") /\ ~finished
  /\ finished' = TRUE /\ own' = TRUE /\ server' = how
  /\ TxMoves("run")
  /\ UNCHANGED <<alive, told, unsure, stuck, ran, txerr>>

RunReturns == \E r \in {"nil", "error", "panic"} :
  /\ InTx("run")
  /\ txerr' = IF r = "error" THEN Error("run") ELSE txerr
  /\ ran' = r
  /\ TxMoves(IF r = "nil" THEN "commit" ELSE "rollback")
  /\ UNCHANGED <<server, finished, own, alive, told, unsure, stuck>>

\* tx.Commit of a handle that is finished, or whose context ended.
CommitRefused ==
  /\ InTx("commit") /\ (finished \/ ~alive)
  /\ txerr' = IF finished THEN Error("ErrTxDone") ELSE Error("context")
  /\ TxMoves("rollback")
  /\ UNCHANGED <<server, finished, own, alive, told, unsure, stuck, ran>>
\* The handle is finished whatever the driver says, and after an error nobody knows whether
\* the server has it.
Commit == \E ok, applied \in BOOLEAN :
  /\ InTx("commit") /\ ~finished /\ alive
  /\ ok => applied
  /\ finished' = TRUE /\ server' = IF applied THEN "committed" ELSE "undone"
  /\ told' = ok /\ unsure' = ~ok /\ txerr' = IF ok THEN nil ELSE Error("commit")
  /\ TxMoves("rollback")
  /\ UNCHANGED <<own, alive, stuck, ran>>

\* Mutant: a panic, which sets no error, is taken for a success.
RollsBack_OnError == txerr # nil

RollsBack == ~told

\* The deferred function: it runs on a panic as well, whose caller gets no error, and lets
\* ErrTxDone pass.
Rollback == \E ok \in BOOLEAN :
  /\ InTx("rollback")
  /\ IF ~RollsBack \/ finished THEN UNCHANGED <<server, finished, stuck, txerr>>
     ELSE /\ finished' = TRUE /\ stuck' = ~ok
          /\ server' = IF ok THEN "undone" ELSE server
          /\ txerr' = IF ok THEN txerr ELSE Join(txerr, Error("rollback"))
  /\ TxMoves("returned")
  /\ UNCHANGED <<own, alive, told, unsure, ran>>

EndContext ==
  /\ task = "tx" /\ txpc # "returned" /\ alive
  /\ alive' = FALSE
  /\ TxMoves(txpc)
  /\ UNCHANGED <<server, finished, own, told, unsure, stuck, ran, txerr>>

\* database/sql's own goroutine.
AwaitDone ==
  /\ task = "tx" /\ ~alive /\ server = "open" /\ ~finished
  /\ finished' = TRUE /\ server' = "undone"
  /\ TxMoves(txpc)
  /\ UNCHANGED <<own, alive, told, unsure, stuck, ran, txerr>>

TxNext == BeginFails \/ BeginTx \/ RunFinishes \/ RunReturns \/ CommitRefused \/ Commit \/ Rollback \/ EndContext \/ AwaitDone

-----------------------------------------------------------------------------
(* Enumerations *)

NoEnum == [id |-> <<>>, name |-> <<>>]
Put(f, k, v) == [x \in DOMAIN f \cup {k} |-> IF x = k THEN v ELSE f[x]]
Without(f, k) == [x \in DOMAIN f \ {k} |-> f[x]]

\* Mutant: the identifier a renamed entry had is left behind.
set_KeepsOldID(c, id, name) ==
  LET ids == IF id \in DOMAIN c.name /\ c.name[id] # name THEN Without(c.id, c.name[id]) ELSE c.id
  IN  [id |-> Put(ids, name, id), name |-> Put(c.name, id, name)]

\* set: a pair replaces what its identifier and its name were paired with.
set(c, id, name) ==
  LET ids   == IF id \in DOMAIN c.name /\ c.name[id] # name THEN Without(c.id, c.name[id]) ELSE c.id
      names == IF name \in DOMAIN ids /\ ids[name] # id THEN Without(c.name, ids[name]) ELSE c.name
  IN  [id |-> Put(ids, name, id), name |-> Put(names, id, name)]

DeleteEnum(c, id) ==
  IF id \notin DOMAIN c.name THEN c ELSE [name |-> Without(c.name, id), id |-> Without(c.id, c.name[id])]

HasName(c, name) == name \in DOMAIN c.id
HasID(c, id) == id \in DOMAIN c.name
ID(c, name) == IF HasName(c, name) THEN [ok |-> TRUE, v |-> c.id[name]] ELSE [ok |-> FALSE, v |-> 0]
Name(c, id) == IF HasID(c, id) THEN [ok |-> TRUE, v |-> c.name[id]] ELSE [ok |-> FALSE, v |-> 0]
LenOf(c) == Cardinality(DOMAIN c.id)

\* A load of one table after the other, in the order a map of Go gives them.
IdleLoad(contents) ==
  /\ tables = contents /\ loadpc = "pick" /\ todo = DOMAIN contents /\ table = 0 /\ row = 0
  /\ opened = 0 /\ cache = NoEnum /\ enums = <<>> /\ loaderr = nil /\ writes = 0

InLoad(place) == task = "enum" /\ loadpc = place
LoadMoves(place) == loadpc' = place /\ UNCHANGED <<task, txVars, tables, clause>>
Rows == tables[table]

\* New's loop: what was loaded is lost with an error.
QueryFails ==
  /\ InLoad("pick") /\ todo # {}
  /\ enums' = <<>> /\ loaderr' = Error("query")
  /\ LoadMoves("failed")
  /\ UNCHANGED <<todo, table, row, opened, cache, writes>>
NextTable == \E t \in todo :
  /\ InLoad("pick")
  /\ table' = t /\ todo' = todo \ {t} /\ row' = 1 /\ opened' = opened + 1 /\ cache' = NoEnum
  /\ LoadMoves("rows")
  /\ UNCHANGED <<enums, loaderr, writes>>

\* rows.Next and rows.Scan.
ReadRow ==
  /\ InLoad("rows") /\ row <= Len(Rows)
  /\ cache' = set(cache, Rows[row].id, Rows[row].name) /\ row' = row + 1
  /\ LoadMoves("rows")
  /\ UNCHANGED <<todo, table, opened, enums, loaderr, writes>>
\* A row does not scan, or the connection breaks; or rows.Next is false at the end.
RowsEnd == \E e \in {nil, Error("scan"), Error("rows")} :
  /\ InLoad("rows")
  /\ IF e = Error("scan") THEN row <= Len(Rows) ELSE e = nil => row > Len(Rows)
  /\ loaderr' = e
  /\ LoadMoves("close")
  /\ UNCHANGED <<todo, table, row, opened, cache, enums, writes>>

\* The deferred Close of loadTableEnumCache, then New's test of the error.
CloseRows == \E c \in {"ok", "close"} :
  /\ InLoad("close")
  /\ opened' = opened - 1
  /\ loaderr' = JoinFnError(loaderr, c)
  /\ IF loaderr' # nil THEN enums' = <<>> /\ LoadMoves("failed")
     ELSE enums' = Put(enums, table, cache) /\ LoadMoves(IF todo = {} THEN "loaded" ELSE "pick")
  /\ UNCHANGED <<todo, table, row, cache, writes>>
\* No table at all is loaded at once.
NoTables ==
  /\ InLoad("pick") /\ todo = {}
  /\ LoadMoves("loaded")
  /\ UNCHANGED <<todo, table, row, opened, cache, enums, loaderr, writes>>

\* The writers of a cache, each under its lock; SetAllIDByName and SetAllNameByID set a batch, in any order.
Update == \E t \in DOMAIN enums :
  /\ InLoad("loaded") /\ writes < MaxWrites
  /\ \/ \E id \in IDs, name \in Names : enums' = [enums EXCEPT ![t] = set(@, id, name)]
     \/ \E id \in IDs : enums' = [enums EXCEPT ![t] = DeleteEnum(@, id)]
     \/ \E p, q \in IDs \X Names : (p[1] # q[1] \/ p[2] # q[2]) /\ enums' = [enums EXCEPT ![t] = set(set(@, p[1], p[2]), q[1], q[2])]
  /\ writes' = writes + 1
  /\ LoadMoves("loaded")
  /\ UNCHANGED <<todo, table, row, opened, cache, loaderr>>

LoadNext == QueryFails \/ NextTable \/ ReadRow \/ RowsEnd \/ CloseRows \/ NoTables \/ Update

-----------------------------------------------------------------------------
(* Clauses: a text is a sequence of the characters "q" ', "b" backtick, "s" \, "z" NUL, *)
(* "n", "d" ., "," and letters *)

\* Mutant: only the quote is doubled.
escapeByte_QuoteOnly(ch) == IF ch = "q" THEN <<"q", "q">> ELSE <<ch>>

\* Every byte that the server would read as something else.
escapeByte(ch) == CASE ch = "z" -> <<"s", "0">> [] ch = "lf" -> <<"s", "n">> [] ch = "cr" -> <<"s", "r">>
                    [] ch = "s" -> <<"s", "s">> [] ch = "sub" -> <<"s", "Z">> [] ch = "q" -> <<"q", "q">> [] OTHER -> <<ch>>

escapeValue(s) ==
  IF ToSet(s) \cap {"q", "z", "lf", "cr", "s", "sub"} = {} THEN s
  ELSE FlattenSeq([i \in DOMAIN s |-> escapeByte(s[i])])
defaultQuoteValue(s) == <<"q">> \o escapeValue(s) \o <<"q">>

\* strings.Split at the dots.
SplitDots(s) == FoldLeft(LAMBDA acc, ch : IF ch = "d" THEN Append(acc, <<>>) ELSE [acc EXCEPT ![Len(acc)] = Append(@, ch)], << <<>> >>, s)
JoinWith(parts, sep) == IF parts = <<>> THEN <<>> ELSE Tail(FlattenSeq([i \in DOMAIN parts |-> <<sep>> \o parts[i]]))
QuotePart(v) == <<"b">> \o FlattenSeq([i \in DOMAIN v |-> IF v[i] = "b" THEN <<"b", "b">> ELSE <<v[i]>>]) \o <<"b">>
defaultQuoteID(s) == IF s = <<>> THEN s ELSE LET parts == SplitDots(s) IN JoinWith([i \in DOMAIN parts |-> QuotePart(parts[i])], "d")

formatStrings(values) == [i \in DOMAIN values |-> defaultQuoteValue(values[i])]
\* Integers have no character of the quoting's: one letter stands for a number's digits.
formatInts(values) == values

\* The clause as the tokens of its shape; no value at all is a condition of its own.
composeInClause(condition, field, values) ==
  IF values = <<>> THEN [cond |-> IF condition = "NOT IN" THEN "1 = 1" ELSE "1 = 0", id |-> <<>>, list |-> <<>>]
  ELSE [cond |-> condition, id |-> defaultQuoteID(field), list |-> JoinWith(values, ",")]

BuildString(condition, field, values) == composeInClause(condition, field, formatStrings(values))
BuildInt(condition, field, values) == composeInClause(condition, field, formatInts(values))

\* A SQLUtil has both functions or does not exist.
validateQuotes(idFn, valueFn) == IF idFn = "nil" THEN "ErrNilQuoteIDFunc" ELSE IF valueFn = "nil" THEN "ErrNilQuoteValueFunc" ELSE ""

Texts == UNION {[1..n -> Chars] : n \in 0..MaxChars}
\* Long values with the empty name, long names with a short value.
Inputs == (Texts \X {<<>>, << <<"q">> >>}) \cup ({<<>>} \X ({<<v>> : v \in Texts} \cup {<<v, w>> : v \in Texts, w \in {<<>>, <<"q">>}}))
Build ==
  /\ task = "sql" /\ ~clause.built /\ validateQuotes("default", "default") = ""
  /\ \E cond \in {"IN", "NOT IN"}, in \in Inputs :
       clause' = [built |-> TRUE, cond |-> cond, field |-> in[1], values |-> in[2], out |-> BuildString(cond, in[1], in[2]),
                  ints |-> BuildInt(cond, in[1], [i \in DOMAIN in[2] |-> <<"1">>])]
  /\ UNCHANGED <<task, txVars, loadVars>>

NoClause == clause = [built |-> FALSE]

DbIdle(doing, contents) == task = doing /\ IdleTx /\ IdleLoad(contents) /\ NoClause
DbInit == \/ \E what \in {"tx", "sql"} : DbIdle(what, <<>>)
          \/ \E contents \in Tables : DbIdle("enum", contents)

DbNext == TxNext \/ LoadNext \/ Build

DbSpec == DbInit /\ [][DbNext]_dbVars

-----------------------------------------------------------------------------
(* Properties *)

\* However a transaction's call ends, a panic and a context that ended included, its handle is
\* finished; nil means that the server committed, and a server that committed without the
\* caller being told is a commit whose answer was lost or one that run made itself; nothing is
\* left open on the server but by a rollback that failed, which the error tells unless a panic
\* takes its place; and an error of run, or of Commit, is the first the caller is given,
\* whatever the rollback adds to it, as it was returned.
TransactionsSettle ==
  task = "tx" /\ txpc = "returned" /\ server # "none" =>
    /\ finished
    /\ txerr = nil /\ ran # "panic" => server = "committed"
    /\ server = "committed" => told \/ unsure \/ own
    /\ server = "open" => stuck
    /\ stuck /\ ran # "panic" => Last(Errors(txerr)) = Error("rollback")
    /\ ran = "error" => Errors(txerr) # <<>> /\ Errors(txerr)[1] = Error("run")
    /\ unsure => Errors(txerr) # <<>> /\ Errors(txerr)[1] = Error("commit")

MutuallyInverse(c) ==
  /\ \A n \in DOMAIN c.id : HasID(c, c.id[n]) /\ c.name[c.id[n]] = n
  /\ \A id \in DOMAIN c.name : HasName(c, c.name[id]) /\ c.id[c.name[id]] = id

\* A pair of a row that no later row, of the first k, has displaced.
Lasts(rows, i, k) == \A j \in (i + 1)..k : rows[j].id # rows[i].id /\ rows[j].name # rows[i].name
HoldsRows(c, rows, k) ==
  /\ \A i \in 1..k : Lasts(rows, i, k) => Name(c, rows[i].id) = [ok |-> TRUE, v |-> rows[i].name]
  /\ \A id \in DOMAIN c.name : \E i \in 1..k : Lasts(rows, i, k) /\ rows[i].id = id

\* Names and identifiers stay inverse to each other through any sequence of writes, in any
\* order, so that every lookup and length agree; every result set is closed when the load
\* returns, whichever of its steps failed; a load gives all of its tables, each with the last
\* pair of every row's identifier and name that no later row displaced and no other pair, or none.
EnumerationsAreWhole ==
  task = "enum" =>
    /\ \A c \in {cache} \cup {enums[t] : t \in DOMAIN enums} :
         /\ MutuallyInverse(c) /\ LenOf(c) = Cardinality(DOMAIN c.name)
         /\ \A id \in IDs, n \in Names : (Name(c, id) = [ok |-> TRUE, v |-> n]) <=> (ID(c, n) = [ok |-> TRUE, v |-> id])
    /\ loadpc \in {"loaded", "failed"} => opened = 0 /\ (loadpc = "failed" <=> Errors(Trace(loaderr)) # <<>>)
    /\ loadpc = "failed" => enums = <<>>
    /\ loadpc = "loaded" => DOMAIN enums = DOMAIN tables
    /\ loadpc = "loaded" /\ writes = 0 => \A t \in DOMAIN tables : HoldsRows(enums[t], tables[t], Len(tables[t]))

\* Transactions settle, and enumerations are whole.
DatabaseIsLeftClean == TransactionsSettle /\ EnumerationsAreWhole

\* What MySQL reads in a list of string literals: a state machine over its characters.
ReadList(s) ==
  LET step(acc, ch) ==
        CASE acc.mode = "out" -> CASE ch = "q" -> [acc EXCEPT !.mode = "in", !.got = Append(@, <<>>)]
                                   [] ch = "," -> acc
                                   [] OTHER -> [acc EXCEPT !.ok = FALSE]
          [] acc.mode = "in" -> CASE ch = "q" -> [acc EXCEPT !.mode = "quote"]
                                  [] ch = "s" -> [acc EXCEPT !.mode = "esc"]
                                  [] OTHER -> [acc EXCEPT !.got[Len(acc.got)] = Append(@, ch)]
          [] acc.mode = "esc" -> [acc EXCEPT !.mode = "in", !.got[Len(acc.got)] =
                                    Append(@, CASE ch = "0" -> "z" [] ch = "n" -> "lf" [] ch = "r" -> "cr" [] ch = "Z" -> "sub" [] OTHER -> ch)]
          [] OTHER -> IF ch = "q" THEN [acc EXCEPT !.mode = "in", !.got[Len(acc.got)] = Append(@, "q")]
                      ELSE [acc EXCEPT !.mode = "out", !.ok = @ /\ ch = ","]
  IN  FoldLeft(step, [mode |-> "out", ok |-> TRUE, got |-> <<>>], s)

\* The parts of a quoted identifier.
ReadID(s) ==
  LET step(acc, ch) ==
        CASE acc.mode = "out" -> IF ch = "b" THEN [acc EXCEPT !.mode = "in", !.got = Append(@, <<>>)] ELSE [acc EXCEPT !.ok = FALSE]
          [] acc.mode = "in" -> IF ch = "b" THEN [acc EXCEPT !.mode = "tick"] ELSE [acc EXCEPT !.got[Len(acc.got)] = Append(@, ch)]
          [] OTHER -> IF ch = "b" THEN [acc EXCEPT !.mode = "in", !.got[Len(acc.got)] = Append(@, "b")]
                      ELSE [acc EXCEPT !.mode = "out", !.ok = @ /\ ch = "d"]
  IN  FoldLeft(step, [mode |-> "out", ok |-> TRUE, got |-> <<>>], s)

\* A server in its default mode reads back exactly the values and the parts of the name that
\* were quoted, whatever characters they hold; an empty list never becomes a syntax error.
ClausesReadBack ==
  task = "sql" /\ clause.built =>
    IF clause.values = <<>> THEN clause.out.cond = (IF clause.cond = "IN" THEN "1 = 0" ELSE "1 = 1") /\ clause.ints = clause.out
    ELSE LET r == ReadList(clause.out.list)
             f == ReadID(clause.out.id)
         IN  /\ r.ok /\ r.mode = "quote" /\ r.got = clause.values
             /\ clause.field # <<>> => f.ok /\ f.mode = "tick" /\ f.got = SplitDots(clause.field)
             /\ clause.ints.cond = clause.cond /\ clause.ints.id = clause.out.id

=============================================================================
