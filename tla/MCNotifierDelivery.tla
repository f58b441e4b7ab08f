------------------------- MODULE MCNotifierDelivery -------------------------
EXTENDS NotifierDelivery

NoRows == {}
MCOrderRows == {[status |-> "submitted", id |-> "o1"]}
MCPositionRows == {[symbol |-> "btc", quantity |-> q, tag |-> "p1", intent |-> ""] : q \in {0, 1}}
MCCheckpointRows == {[id |-> "runtime", mode |-> m] : m \in {NORMAL, HALTED}}
MCRiskRows == {[type |-> "runtime_fault", detail |-> "public"]}
=============================================================================
