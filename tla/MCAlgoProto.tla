---------------------------- MODULE MCAlgoProto ----------------------------
EXTENDS AlgoProto, TLC

SourceOfMC == 0 :> "g0" @@ 1 :> "g1"

UnsetTickMC == 0 :> "zero" @@ 1 :> "NaN"

Instrument(weight) == [exchange |-> "e", symbol |-> "s", weight |-> weight]

File(name, type, instruments) ==
    [missing |-> FALSE, unknown |-> FALSE, strategies |-> name :> [type |-> type, instruments |-> instruments]]

Pair == <<Instrument(1), Instrument(-1)>>

ConfigsMC == {
    File("spread_1", "spread", Pair),
    File("spread_2", "spread", Pair),
    File("spread_1", "pairs", Pair),
    File("spread_1", "", Pair),
    File("spread_1", "spread", << >>),
    File("spread_1", "spread", <<Instrument(1)>>),
    File("spread_1", "spread", <<Instrument(1), Instrument(0)>>),
    File("spread_1", "spread", <<Instrument(1), [Instrument(1) EXCEPT !.symbol = ""]>>),
    [File("spread_1", "spread", Pair) EXCEPT !.unknown = TRUE],
    [missing |-> TRUE, unknown |-> FALSE, strategies |-> << >>]}
=============================================================================
