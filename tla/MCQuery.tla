-------------------------------- MODULE MCQuery --------------------------------
(* The planner, the plan cache, the slow query log and the handlers of the *)
(* API, one of them at a time: focus is chosen at the start.               *)
EXTENDS QueryPlanner, PlanCache, SlowQueryLog, ApiGateway, FederationApi, ApiTransactions,
        HexadApi, HexadReads, PlannerApi, VqlExecutor

VARIABLE focus

Cond(tag, m, op) == [tag |-> tag, modality |-> m, op |-> op, k |-> 10, complete |-> TRUE]

Proof(type) == [tag |-> "Proof", type |-> type]

mcQuery == [tag |-> "Query", modalities |-> <<"document", "graph">>, source |-> [tag |-> "Hexad", modality |-> "none"],
            where |-> <<>>, proof |-> <<>>, group_by |-> FALSE, order_by |-> FALSE,
            limit |-> NoLimit, offset |-> 0, projections |-> <<>>]

mcWide == [mcQuery EXCEPT !.modalities = <<"All", "vector">>, !.proof = <<Proof("integrity")>>,
             !.where = <<Cond("VectorSimilar", "none", "none"), Cond("Or", "none", "none"),
                         Cond("FieldCondition", "All", "=")>>,
             !.order_by = TRUE, !.limit = 1]
mcNarrow == [mcQuery EXCEPT !.modalities = <<"graph", "vector", "graph">>,
             !.where = <<Cond("FulltextContains", "none", "none"), Cond("FieldCondition", "graph", "!="),
                         Cond("FieldCondition", "All", ">")>>,
             !.group_by = TRUE, !.limit = 0, !.offset = 1]
mcProof == [mcQuery EXCEPT !.modalities = <<"document", "semantic">>, !.proof = <<Proof("existence"), Proof("custom")>>,
             !.projections = <<[modality |-> "document"], [modality |-> "none"]>>, !.offset = 1]
mcRefused == [mcQuery EXCEPT !.where = <<Cond("ModalityDrift", "All", "none")>>]

mcQueries == {mcWide, mcNarrow, mcProof, mcRefused, [mcQuery EXCEPT !.tag = "Mutation"],
              [mcQuery EXCEPT !.modalities = <<>>]}

mcMeasurements == {[ms |-> 100000, rows |-> 0], [ms |-> 700000, rows |-> 90]}

Token(w, up) == [word |-> w, upper |-> up]

mcTexts == {[tokens |-> <<Token("where", TRUE), Token("$x", FALSE)>>, spacing |-> 1],
            [tokens |-> <<Token("where", FALSE), Token("$x", FALSE)>>, spacing |-> 2],
            [tokens |-> <<Token("name", FALSE)>>, spacing |-> 1],
            [tokens |-> <<Token("name", TRUE)>>, spacing |-> 1]}

mcExecutions == {[ms |-> 3, times |-> <<1, 2>>], [ms |-> 5, times |-> <<5>>], [ms |-> 1, times |-> <<1, 1, 1>>]}
mcFirstConfig == [threshold |-> 2, max |-> 2, enabled |-> TRUE, multi |-> 0]
mcLogConfigs == {mcFirstConfig,
                 [threshold |-> 4, max |-> 1, enabled |-> TRUE, multi |-> 3],
                 [threshold |-> 0, max |-> 1, enabled |-> FALSE, multi |-> 0]}

mcKey(k) == [kind |-> "key", key |-> k]
mcJwt(sub, role, signed, expires, exp) ==
    [kind |-> "jwt", sub |-> sub, role |-> role, wellFormed |-> TRUE, signed |-> signed, expires |-> expires, exp |-> exp]
mcRequest(m, a, e, c) == [method |-> m, area |-> a, entity |-> e, credential |-> c]
mcHttpRequests == {mcRequest("GET", "health", "none", [kind |-> "none"]),
                   mcRequest("PUT", "hexads", "h1", mcKey("k1")),
                   mcRequest("POST", "search vector", "none", mcKey("k1")),
                   mcRequest("GET", "drift entity", "h1", mcJwt("sub", "writer", TRUE, TRUE, 1)),
                   mcRequest("PUT", "planner config", "none", mcJwt("sub", "guest", FALSE, FALSE, 0))}
mcRole(name, global, onVector) == [name |-> name, global |-> global, modality |-> [vector |-> onVector]]
mcRoleChanges == {mcRole("reader", {"read"}, {"execute"}), mcRole("reader", {"read", "execute"}, {"read"}),
                  mcRole("writer", {"read"}, {"write"})}
mcAclEntries == {<<"h1", "k1", {"write"}>>}
mcAuth(enabled, publicHealth, limit, jwt) ==
    [enabled |-> enabled, publicHealth |-> publicHealth, limit |-> limit, jwt |-> jwt]
mcAuthConfigs == {mcAuth(TRUE, TRUE, 1, TRUE), mcAuth(TRUE, FALSE, 0, FALSE), mcAuth(FALSE, FALSE, 1, TRUE)}

mcPeerStores == {<<"/uni", "/ox">>, <<"/uni", "2">>, <<"self">>}
mcPeerKeys == [s \in mcPeerStores |-> IF s = <<"/uni", "/ox">> THEN "p1" ELSE "p2"]
mcHoldings == [s \in mcPeerStores |-> IF s = <<"/uni", "/ox">> THEN <<9, 8, 2>> ELSE <<10, 3>>]
mcFedQueries == {[pattern |-> [kind |-> "all"], modalities |-> {}, policy |-> "strict", limit |-> 2],
                 [pattern |-> [kind |-> "under", prefix |-> <<"/uni">>], modalities |-> {"vector"}, policy |-> "tolerate", limit |-> 4],
                 [pattern |-> [kind |-> "exact", store |-> <<"self">>], modalities |-> {}, policy |-> "latest", limit |-> 0]}
mcSelf == <<"self">>

mcHexad(t, b, e, y, x) == [title |-> t, body |-> b, embedding |-> e, types |-> y, tensor |-> x]
mcRequests == {mcHexad("t1", "b1", "e1", "none", 40), mcHexad("t2", "none", "empty", "y1", 0)}

mcRelevance == <<"h2", "h1", "h3">>

mcConfig(m, w, a, t) == [mode |-> m, weight |-> w, adaptive |-> a, threshold |-> t]
mcFirstSettings == mcConfig("balanced", 7, TRUE, 3)
mcSettings == {mcConfig("", 0, FALSE, 2), mcConfig("turbo", 5, TRUE, 0), mcConfig("aggressive", 9, FALSE, 1)}

W(w) == <<w>>
Quoted(t) == <<"'">> \o t \o <<"'">>
NoMeaning == [title |-> <<>>, body |-> <<>>]
Line(words, gap) == [words |-> words, gap |-> gap, meant |-> NoMeaning]
mcScan == <<W("SELECT"), W("*"), W("FROM"), W("hexads"), W("limit"), W("9")>>
mcLookup == <<W("SELECT"), W("*"), W("FROM"), W("hexads"), W("where"), W("id"), W("="), <<"dq", "0", "dq">>>>
mcText == <<W("SEARCH"), W("TEXT"), Quoted(<<"x", " ", "dq", "LIMIT">>), W("LIMIT"), W("1")>>
mcVector == <<W("SEARCH"), W("VECTOR"), <<"[", "1", ",">>, <<"1", "]">>>>
mcInto == <<W("INSERT"), W("INTO"), W("hexads")>>
mcInsert == [words |-> mcInto \o <<W("VALUES"), <<"(", "'", "x", " ", "y", "'", ",">>, <<"'", "z", "'", ")">>>>, gap |-> 1,
             meant |-> [title |-> <<"x", " ", "y">>, body |-> <<"z">>]]
mcComma == [words |-> mcInto \o <<W("VALUES"), <<"(", "'", "x", "'", ",">>, <<"'", "z", ",", "x", "'", ")">>>>, gap |-> 1,
            meant |-> [title |-> <<"x">>, body |-> <<"z", ",", "x">>]]
mcShort == [words |-> <<W("INSERT"), Quoted(<<"z", " ", "dq">>), W("y")>>, gap |-> 2,
            meant |-> [title |-> <<"z", " ", "dq">>, body |-> <<"y">>]]
mcLines == {Line(mcScan, 1), Line(mcLookup, 1), Line(mcText, 2), Line(mcVector, 1), 
            mcInsert, [mcInsert EXCEPT !.gap = 2], mcComma, mcShort, Line(mcInto, 1),
            Line(<<W("SEARCH"), W("RELATED"), W("0")>>, 1), Line(<<W("SEARCH"), W("VECTOR"), W("1")>>, 1),
            Line(<<W("DELETE"), W("FROM"), W("hexads"), W("WHERE"), W("id"), W("="), Quoted(<<"0">>)>>, 1),
            Line(<<W("SHOW"), W("HEXADS")>>, 1), Line(<<W("COUNT")>>, 1), Line(<<W("SHOW"), W("STATUS")>>, 1), Line(<<W("DROP")>>, 1),
            Line(<<W("EXPLAIN")>> \o mcScan, 1), Line(<<W("EXPLAIN")>> \o mcLookup, 2), Line(<<W("EXPLAIN")>> \o mcText, 1), Line(<<W("EXPLAIN")>> \o mcVector, 1),
            Line(<<W("EXPLAIN"), W("COUNT")>>, 1)}
mcLower == [limit |-> "LIMIT", where |-> "WHERE"]
mcNumbers == [x \in {"0", "1", "9"} |-> CASE x = "0" -> 0 [] x = "1" -> 1 [] x = "9" -> 9]

vars == <<focus, plannerVars, cacheVars, logVars, gatewayVars, fedVars, txnApiVars, apiVars, planApiVars, vqlVars, readVars>>

Init ==
    /\ focus \in {"planner", "cache", "slow log", "gateway", "federation", "transactions", "hexads", "plans", "vql", "reads"}
    /\ PlannerInit /\ CacheInit /\ LogInit /\ GatewayInit /\ FedInit /\ TxnInit
    /\ ApiInit /\ PlanApiInit /\ VqlInit /\ ReadsInit
    /\ focus # "cache" => maxEntries = 2
    /\ focus # "gateway" => authConfig = mcAuth(TRUE, TRUE, 1, TRUE)

Next ==
    /\ UNCHANGED focus
    /\ \/ focus = "planner" /\ PlannerNext
       \/ focus = "cache" /\ CacheNext
       \/ focus = "slow log" /\ LogNext
       \/ focus = "gateway" /\ GatewayNext
       \/ focus = "federation" /\ FedNext
       \/ focus = "transactions" /\ TxnNext
       \/ focus = "hexads" /\ ApiNext
       \/ focus = "plans" /\ PlanApiNext
       \/ focus = "vql" /\ VqlNext
       \/ focus = "reads" /\ ReadsNext
    /\ focus # "planner" => UNCHANGED plannerVars
    /\ focus # "cache" => UNCHANGED cacheVars
    /\ focus # "slow log" => UNCHANGED logVars
    /\ focus # "gateway" => UNCHANGED gatewayVars
    /\ focus # "federation" => UNCHANGED fedVars
    /\ focus # "transactions" => UNCHANGED txnApiVars
    /\ focus # "hexads" => UNCHANGED apiVars
    /\ focus # "plans" => UNCHANGED planApiVars
    /\ focus # "vql" => UNCHANGED vqlVars
    /\ focus # "reads" => UNCHANGED readVars

Spec == Init /\ [][Next]_vars /\ FedFairness

-----------------------------------------------------------------------------

(* A plan answers the query it was made for: no condition is lost on the   *)
(* way to the steps, although the operators of comparisons are, steps are  *)
(* ordered by priority, estimates respect LIMIT and cover the steps,       *)
(* statistics, hints and EXPLAIN follow from what was measured, and the    *)
(* tuner comes to rest where latencies are not in two narrow bands.        *)
PlansSound ==
    /\ ConditionsKept /\ StepsOrdered /\ RowsWithinLimit /\ CostCoversSteps
    /\ StatsWithinObserved /\ TunerSettles /\ ExplainAccounts /\ HintsExplained

(* The bounded buffers of the planner stay bounded and account for all     *)
(* they lose, though decisions and changes are made under different locks: *)
(* the two maps of the plan cache and its counters, with what expires on   *)
(* execution the one exception to each, and the slow query log, which is a *)
(* run of the newest records.                                              *)
BuffersCoherent ==
    /\ CacheBounded /\ FingerprintsCover /\ EvictionsCounted /\ GenerationFollows
    /\ LogIsNewestRun /\ SummaryCoherent

(* The gateway lets nobody exceed the limit in any window and nobody       *)
(* starve by refusals, and its audit log holds the latest decisions.       *)
GatewaySound == RateRespected /\ QuietClientServed /\ AuditIsNewest

(* What a handler that reads, lets go and writes later does to the writes  *)
(* of others in between: an optimized query keeps all of them but newer    *)
(* costs, a heartbeat revives no peer, a commit hands its operations over  *)
(* once, and a prepared statement is answered with its own plan unless it  *)
(* was evicted and prepared anew during a request for it.                  *)
HandlersKeepWrites ==
    /\ OptimizeKeepsWrites /\ NoResurrection /\ HandedOverOnce
    /\ PlanIsOfStatement

(* An answer is complete: pages partition the list, hits that vanish hide  *)
(* no others, federated answers are the global top, and a VQL text is      *)
(* taken apart and explained as the client wrote it, and stored so unless  *)
(* it is the long INSERT with a comma in a value or a second blank.        *)
AnswersComplete ==
    /\ PagesPartition /\ AnswerIsTop /\ ResponseIsGlobalTop
    /\ TokensAreWords /\ ExplainTruthful /\ DocumentsAsQuoted

(* A federated query ends though peers never answer, a client can ask for  *)
(* the outcome of its transaction as long as the timeout, and prepare      *)
(* makes room by dropping what was used least recently.                    *)
RequestsServed == QueryReturns /\ OutcomeKept /\ LeastRecentGoes
=============================================================================
