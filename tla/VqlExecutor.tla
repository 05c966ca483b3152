------------------------------- MODULE VqlExecutor -------------------------------
(***************************************************************************)
(* The VQL text endpoint (verisim-api/src/vql.rs): a statement is split    *)
(* into tokens, routed by its first word, turned into one call of the      *)
(* hexad store and carried out; EXPLAIN names the call without making it.  *)
(*                                                                         *)
(* A text is a sequence of symbols: blanks, quotes, punctuation, and whole *)
(* words and numbers, whose letters nothing here looks at.  A token is the *)
(* sequence of symbols between unquoted blanks.  line, explained and made  *)
(* are history.                                                            *)
(***************************************************************************)
EXTENDS Naturals, Sequences, SequencesExt, FiniteSets

CONSTANTS Lines,         \* what clients write: [words, gap, meant]
          Lower,         \* lower case spellings -> the keyword
          Numbers,       \* symbols that are numbers -> their value
          Dimension,     \* ApiConfig::vector_dimension
          DefaultRows,   \* the limit without LIMIT, 100
          MostRows,      \* the cap on LIMIT and on COUNT, 1000
          MaxInserted    \* bound

VARIABLES stored,        \* id -> [title, body]
          insertCount,   \* number of inserts so far, the next id
          line,          \* the last statement and its tokens
          vqlAnswer,     \* rows or error of the last statement
          explained,     \* the last EXPLAIN answered: [words, plan]
          made           \* the last call made: [words, call]

vqlVars == <<stored, insertCount, line, vqlAnswer, explained, made>>

Blanks(n) == [i \in 1..n |-> " "]

(* A client joins its words with blanks and ends with a semicolon.         *)
Rendered(l) ==
    LET upTo[i \in 1..Len(l.words)] == IF i = 1 THEN l.words[1] ELSE upTo[i - 1] \o Blanks(l.gap) \o l.words[i]
    IN  Append(upTo[Len(l.words)], ";")

(* The text between the first symbol outside left and the last outside     *)
(* right.                                                                  *)
Stripped(text, left, right) ==
    LET from == {i \in DOMAIN text : text[i] \notin left}
        to == {i \in DOMAIN text : text[i] \notin right}
    IN  IF from = {} \/ to = {} THEN <<>>
        ELSE SubSeq(text, CHOOSE i \in from : \A j \in from : i <= j, CHOOSE i \in to : \A j \in to : i >= j)

Uppercase(t) == [i \in DOMAIN t |-> IF t[i] \in DOMAIN Lower THEN Lower[t[i]] ELSE t[i]]

Scanned == [tokens |-> <<>>, current |-> <<>>, single |-> FALSE, double |-> FALSE]

Flush(s) == IF s.current = <<>> THEN s ELSE [s EXCEPT !.tokens = Append(@, s.current), !.current = <<>>]

Scan(s, ch) ==
    LET more == [s EXCEPT !.current = Append(@, ch)] IN
    IF ch = "'" /\ ~s.double THEN [more EXCEPT !.single = ~@]
    ELSE IF ch = "dq" /\ ~s.single THEN [more EXCEPT !.double = ~@]
    ELSE IF ch = " " /\ ~s.single /\ ~s.double THEN Flush(s)
    ELSE more

Tokenize(text) ==
    LET upTo[i \in 0..Len(text)] == IF i = 0 THEN Scanned ELSE Scan(upTo[i - 1], text[i])
    IN  Flush(upTo[Len(text)]).tokens

(* A lone quote, on which the slice of unquote panics, is not among the    *)
(* inputs.                                                                 *)
Unquote(t) ==
    IF Len(t) >= 2 /\ t[1] = t[Len(t)] /\ t[1] \in {"'", "dq"} THEN SubSeq(t, 2, Len(t) - 1) ELSE t

IsNumber(t) == Len(t) = 1 /\ t[1] \in DOMAIN Numbers

FirstOr(S, other) == IF S = {} THEN other ELSE CHOOSE i \in S : \A j \in S : i <= j

(* The first LIMIT that a number follows.                                  *)
ParseLimit(tokens) ==
    LET at == {i \in 1..(Len(tokens) - 1) : Uppercase(tokens[i]) = <<"LIMIT">> /\ IsNumber(tokens[i + 1])}
        i == FirstOr(at, Len(tokens) + 1)
    IN  [at |-> i,
         limit |-> IF at = {} THEN DefaultRows
                   ELSE LET n == Numbers[tokens[i + 1][1]] IN IF n < MostRows THEN n ELSE MostRows]

FindWhereId(tokens) ==
    LET at == {i \in 1..(Len(tokens) - 3) :
                  /\ Uppercase(tokens[i]) = <<"WHERE">>
                  /\ tokens[i + 1] = <<"id">> /\ tokens[i + 2] = <<"=">>}
    IN  IF at = {} THEN <<>> ELSE Unquote(tokens[FirstOr(at, 0) + 3])

(* Brackets and commas around the components are dropped.                  *)
ParseVector(tokens) == SelectSeq(FlattenSeq(tokens), LAMBDA ch : ch \notin {"[", "]", ","})

IsPrefixUpper(text, p) == Len(text) >= Len(p) /\ Uppercase(SubSeq(text, 1, Len(p))) = p

(* Parentheses are trimmed, then every comma becomes a blank, the ones     *)
(* inside quotes too, although the code's comment says that quotes are     *)
(* respected.                                                              *)
ParseInsertValues(text) ==
    LET rest == SubSeq(text, FirstOr({i \in DOMAIN text : Uppercase(text)[i] = "VALUES"}, 0) + 1, Len(text))
        inner == Stripped(Stripped(rest, {" "}, {" "}), {"("}, {")"})
        words == Tokenize([i \in DOMAIN inner |-> IF inner[i] = "," THEN " " ELSE inner[i]])
        value(k) == IF k \in DOMAIN words THEN Unquote(words[k]) ELSE <<>>
    IN  [title |-> value(1), body |-> value(2)]

Refused == [method |-> "refused", limit |-> 0, id |-> <<>>]
CallOf(method, limit, id) == [method |-> method, limit |-> limit, id |-> id]

SelectCall(tokens) ==
    IF FindWhereId(tokens) # <<>> THEN CallOf("get", 1, FindWhereId(tokens))
    ELSE CallOf("list", ParseLimit(tokens).limit, <<>>)

SearchCall(tokens) ==
    LET l == ParseLimit(tokens) IN
    IF Len(tokens) < 3 THEN Refused
    ELSE CASE Uppercase(tokens[2]) = <<"TEXT">> -> CallOf("search_text", l.limit, Unquote(tokens[3]))
           [] Uppercase(tokens[2]) = <<"VECTOR">> ->
                IF LET v == ParseVector(SubSeq(tokens, 3, l.at - 1))
                   IN  ToSet(v) \subseteq DOMAIN Numbers /\ Len(v) = Dimension
                THEN CallOf("search_similar", l.limit, <<>>) ELSE Refused
           [] Uppercase(tokens[2]) = <<"RELATED">> -> CallOf("query_related", MostRows, Unquote(tokens[3]))
           [] OTHER -> Refused

(* The long form needs VALUES somewhere, the short one two more tokens.    *)
InsertCall(text, tokens) ==
    IF IF IsPrefixUpper(text, <<"INSERT", " ", "INTO">>) THEN "VALUES" \in ToSet(Uppercase(text)) ELSE Len(tokens) >= 3
    THEN CallOf("create", 1, <<>>) ELSE Refused

DeleteCall(tokens) ==
    IF FindWhereId(tokens) = <<>> THEN Refused ELSE CallOf("delete", 1, FindWhereId(tokens))

ShowCall(tokens) ==
    IF Len(tokens) < 2 THEN Refused
    ELSE LET target == Uppercase(tokens[2]) IN
         CASE target \in {<<"STATUS">>, <<"HEALTH">>} -> CallOf("health", 1, <<>>)
           [] target \in {<<"DRIFT">>, <<"NORMALIZER">>} -> CallOf("metrics", 1, <<>>)
           [] target = <<"HEXADS">> -> CallOf("list", ParseLimit(tokens).limit, <<>>)
           [] OTHER -> Refused

CountCall == CallOf("list", MostRows, <<>>)

(* The plan EXPLAIN describes; SHOW and COUNT are not recognized.          *)
ExplainCall(tokens) ==
    LET l == ParseLimit(tokens).limit
        verb == Uppercase(tokens[1])
        kind == IF Len(tokens) < 2 THEN <<>> ELSE Uppercase(tokens[2])
    IN  CASE verb = <<"SELECT">> /\ FindWhereId(tokens) # <<>> -> [method |-> "get", limit |-> 1]
          [] verb = <<"SELECT">> /\ FindWhereId(tokens) = <<>> -> [method |-> "list", limit |-> l]
          [] verb = <<"SEARCH">> /\ kind = <<"TEXT">> -> [method |-> "search_text", limit |-> l]
          [] verb = <<"SEARCH">> /\ kind = <<"VECTOR">> -> [method |-> "search_similar", limit |-> l]
          [] verb = <<"SEARCH">> /\ kind = <<"RELATED">> -> [method |-> "query_related", limit |-> MostRows]
          [] verb = <<"INSERT">> -> [method |-> "create", limit |-> 1]
          [] verb = <<"DELETE">> -> [method |-> "delete", limit |-> 1]
          [] OTHER -> [method |-> "unknown", limit |-> 0]

CallFor(text, tokens) ==
    LET verb == Uppercase(tokens[1]) IN
    CASE verb = <<"SELECT">> -> SelectCall(tokens)
      [] verb = <<"SEARCH">> -> SearchCall(tokens)
      [] verb = <<"INSERT">> -> InsertCall(text, tokens)
      [] verb = <<"DELETE">> -> DeleteCall(tokens)
      [] verb = <<"SHOW">> -> ShowCall(tokens)
      [] verb = <<"COUNT">> -> CountCall
      [] verb = <<"EXPLAIN">> -> IF Len(tokens) < 2 THEN Refused ELSE CallOf("explain", 1, <<>>)
      [] OTHER -> Refused

NotAnswered == [rows |-> 0, found |-> TRUE]

VqlInit ==
    /\ stored = [i \in {} |-> <<>>] /\ insertCount = 0 /\ vqlAnswer = NotAnswered
    /\ line = [words |-> <<>>, tokens |-> <<>>] /\ explained = [words |-> <<>>, plan |-> <<>>] /\ made = [words |-> <<>>, call |-> Refused]

IdOf(n) == <<ToString(n)>>

ContainsAny(words) == {i \in DOMAIN stored : \E k \in DOMAIN words : words[k] \in ToSet(stored[i].title) \cup ToSet(stored[i].body)}

Smaller(m, n) == IF m < n THEN m ELSE n

(* The rows a read returns; over this endpoint nothing gets a vector or a  *)
(* relationship.                                                           *)
RowsOf(call) ==
    CASE call.method = "get" -> IF call.id \in DOMAIN stored THEN 1 ELSE 0
      [] call.method = "list" -> Smaller(call.limit, Cardinality(DOMAIN stored))
      [] call.method = "search_text" -> Smaller(call.limit, Cardinality(ContainsAny(call.id)))
      [] call.method \in {"search_similar", "query_related", "refused"} -> 0
      [] OTHER -> 1

Document(text, tokens) ==
    IF IsPrefixUpper(text, <<"INSERT", " ", "INTO">>) THEN ParseInsertValues(text)
    ELSE [title |-> Unquote(tokens[2]), body |-> Unquote(tokens[3])]

(* vql_execute_handler, with the line as the client wrote it.              *)
VqlExecute(l) ==
    LET text == Stripped(Rendered(l), {" "}, {" ", ";"})
        tokens == Tokenize(text)
        call == CallFor(text, tokens)
        inner == Tail(tokens)
        id == IdOf(insertCount)
    IN  /\ tokens # <<>> /\ (call.method = "create" => insertCount < MaxInserted)
        /\ line' = [words |-> l.words, tokens |-> tokens]
        /\ vqlAnswer' = [rows |-> RowsOf(call), found |-> call.method \in {"get", "delete"} => call.id \in DOMAIN stored]
        /\ explained' = IF call.method = "explain"
                        THEN [words |-> inner, plan |-> ExplainCall(inner)] ELSE explained
        /\ made' = IF call.method \in {"refused", "explain"} THEN made ELSE [words |-> tokens, call |-> call]
        /\ CASE call.method = "create" ->
                  /\ stored' = [i \in DOMAIN stored \cup {id} |->
                                  IF i # id THEN stored[i]
                                  ELSE LET d == Document(text, tokens) IN
                                       [title |-> d.title, body |-> d.body, meant |-> l.meant,
                                        long |-> l.words[2] = <<"INTO">>, gap |-> l.gap]]
                  /\ insertCount' = insertCount + 1
             [] call.method = "delete" ->
                  stored' = [i \in DOMAIN stored \ {call.id} |-> stored[i]] /\ UNCHANGED insertCount
             [] OTHER -> UNCHANGED <<stored, insertCount>>

VqlNext == \E l \in Lines : VqlExecute(l)

-----------------------------------------------------------------------------

(* The tokens of a statement are the words the client joined with blanks:  *)
(* a quoted word with blanks, or with the other kind of quote, in it stays *)
(* whole, and a second blank adds no token.                                *)
TokensAreWords == line.tokens = line.words

(* EXPLAIN names the call that the same statement makes when it is         *)
(* executed, with the same limit, whatever is stored by then; a statement  *)
(* it does not recognize is one of SHOW and COUNT.                         *)
ExplainTruthful ==
    (explained.words = made.words /\ made.words # <<>>) =>
        IF explained.plan.method = "unknown" THEN Uppercase(made.words[1]) \in {<<"SHOW">>, <<"COUNT">>}
        ELSE explained.plan = [method |-> made.call.method, limit |-> made.call.limit]

NoCommas(d) == "," \notin ToSet(d.title) \cup ToSet(d.body)

(* A document holds the title and the body that the client quoted: in the  *)
(* short form of INSERT always, in the long one when INSERT and INTO are   *)
(* one blank apart and the quoted values hold no comma.                    *)
DocumentsAsQuoted ==
    \A i \in DOMAIN stored :
        (stored[i].long => stored[i].gap = 1 /\ NoCommas(stored[i].meant)) =>
            [title |-> stored[i].title, body |-> stored[i].body] = stored[i].meant

(* The same of every document.  Not so: commas are replaced before quotes  *)
(* are looked at, and two blanks after INSERT hide the long form.          *)
DocumentsAsWritten ==
    \A i \in DOMAIN stored : [title |-> stored[i].title, body |-> stored[i].body] = stored[i].meant
=============================================================================
