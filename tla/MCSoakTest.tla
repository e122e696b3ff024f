----------------------------- MODULE MCSoakTest -----------------------------
(* Two shards; the sentinel and k1 share a shard and, until it has grown, a *)
(* bucket; k2 lives in the other shard.                                     *)
EXTENDS SoakTest, TLC

CONSTANTS main, w1, w2, sen, k1, k2

MCThreads == {main, w1, w2}
MCPair    == {main, w1}
MCKeys    == {sen, k1, k2}
MCHash    == (sen :> 0) @@ (k1 :> 4) @@ (k2 :> 2)

Insert(k) == Request("insert", k, 0, 0)
Ask(op)   == Request(op, NoValue, 0, 0)

AllCalls == [t \in {w1} |->
    {Insert(k1), Insert(k2), Request("remove", k1, 0, 0), Request("get", k2, 0, 0),
     Request("resize_all", NoValue, 0, 4), Request("set_ttl", NoValue, 0, 2)}
    \cup {Ask(op) : op \in {"len", "current_epoch", "is_empty", "get_ttl"}}]
TtlCalls == [t \in {w1, w2} |-> {Request("set_ttl", NoValue, 0, n) : n \in {1, 2}}]

MCMaxEpoch == (0 :> 4) @@ (1 :> 2)

(* Of a call that has returned only the main thread reads the result.      *)
View == <<shardVars, window, mon, [t \in Threads |->
            IF call[t].stage # "done" THEN <<call[t]>>
            ELSE IF t = Main THEN <<call[t].res>> ELSE <<>>]>>
=============================================================================
