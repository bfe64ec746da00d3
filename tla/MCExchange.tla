---- MODULE MCExchange ----
EXTENDS Exchange

MCRequestsV1 == {[cid |-> "c"]}
MCRequestsV2 == {[op |-> "Pull", subject |-> "c"],
                 [op |-> "ManifestPull", subject |-> "m"]}
MCManifestCids == {"m"}
MCSubjects == {"c", "m"}
====
