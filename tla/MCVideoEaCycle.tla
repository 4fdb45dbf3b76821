--------------------------- MODULE MCVideoEaCycle ---------------------------
(***************************************************************************)
(* Small instances of the video EA for TLC: histories that break           *)
(* structure, retest and reject, and a plan of a client's own.             *)
(***************************************************************************)
EXTENDS VideoEaCycle

MCCandle(o, h, l, c) == [open |-> 4 * o, high |-> 4 * h, low |-> 4 * l, close |-> 4 * c]
Flat == MCCandle(3, 4, 2, 3)
Up == MCCandle(3, 6, 3, 6)
Dip == MCCandle(5, 6, 3, 5)
Down == MCCandle(3, 3, 1, 1)

MCHistories ==
    {<<Flat, Dip, Up, Flat, Up>> \o s : s \in [1 .. 3 -> {Up, Dip, Down}]}

MCBase ==
    [mode |-> "pa_filtered", profile |-> "set_equity", lookback |-> 8, pivot |-> 1, atrPeriod |-> 2,
     buffer |-> 0, tolerance |-> 1, zone |-> 1, wick |-> 1, step |-> 1, tick |-> 4, lower |-> 0,
     upper |-> 0, levels |-> 3, quantity |-> 1, maxQuantity |-> 4, maxPending |-> 4, stop |-> 2,
     confirm |-> TRUE]

MCConfigs ==
    {MCBase,
     [MCBase EXCEPT !.profile = "generic_research", !.lower = 8, !.upper = 24],
     [MCBase EXCEPT !.profile = "generic_research", !.mode = "symmetric_research"]}

\* A plan of a client's own, whose two triggers have one key.
MCClientPlans ==
    {[bias |-> "long", anchor |-> 4, invalidation |-> 0,
      triggers |-> {[side |-> "buy", level |-> k, price |-> 16 * k, key |-> <<"buy", 1, 16>>] : k \in 1 .. 2}]}
=============================================================================
