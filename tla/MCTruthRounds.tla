----------------------------- MODULE MCTruthRounds -----------------------------
(* A security with a truth row that refuses the base run's ending and one without, and
   the runs a change of the rules can give them: the ending and a scored column changed
   with an unscored one, the rows gone with a security. *)
EXTENDS TruthRounds

CONSTANTS checked, other

MCSecs    == {checked, other}
MCColumns == {"last_trade_date", "cash_per_share", "ticker_successor_sec_id"}
MCScored  == {"last_trade_date", "cash_per_share"}
MCBrief   == {"last_trade_date"}

Row(d, c, t) == [f \in MCColumns |-> CASE f = "last_trade_date" -> d [] f = "cash_per_share" -> c [] OTHER -> t]
RunOf(a, b, d) == [rows |-> [s \in MCSecs |-> IF s = checked THEN a ELSE b], secs |-> MCSecs,
                   ends |-> [s \in MCSecs |-> d]]

base == Row("d1", "c1", "t1")

MCBase == RunOf(base, base, "e1")
MCRuns == {MCBase,
           RunOf(Row("d2", "c1", "t1"), Row("d2", "c1", "t2"), "e2"),
           [RunOf(NoRow, NoRow, "") EXCEPT !.secs = {other}]}

MCTruth0 == [s \in {checked} |->
    [cells |-> [f \in MCScored \cup {"status", "fixed_by", "shape", "examined"} |->
                   CASE f = "status" -> "known_wrong" [] f = "fixed_by" -> "5a" [] f = "shape" -> "ending_moved" [] f = "examined" -> "e1"
                     [] f = "last_trade_date" -> "d3" [] OTHER -> "c1"],
     report |-> NoReport]]

(* One for any row, one that carries the row to another sub-plan. *)
MCRulings ==
    {[id |-> "dated", sec |-> checked, owner |-> "", cells |-> [f \in {"last_trade_date"} |-> "d1"]],
     [id |-> "carried", sec |-> checked, owner |-> "5a", cells |-> [f \in {"fixed_by"} |-> "5b"]]}
MCNoRulings == {}
================================================================================
