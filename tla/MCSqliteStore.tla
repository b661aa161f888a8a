----------------------------- MODULE MCSqliteStore -----------------------------
(***************************************************************************)
(* The database for TLC: a gateway and a capture command.  Two snapshots   *)
(* of one content that are near each other and one that is late enough to  *)
(* hide the first from a query that looks at one row; a replay result; a   *)
(* candle of the mock provider that claims to be live.                     *)
(***************************************************************************)
EXTENDS SqliteStore, TLC

Snapshot(at) ==
  [table |-> "market_snapshots", provider |-> "polymarket-clob-public", sourceType |-> "live",
   symbol |-> "BTC", marketId |-> "m", rawHash |-> "h", checkedAt |-> at]

Replay(at) ==
  [table |-> "replay_results", sourceType |-> "live", symbol |-> "BTC", window |-> "1d",
   strategyId |-> "fair-value-v1", checkedAt |-> at]

FalseCandle ==
  [table |-> "underlying_candles", provider |-> "mock", sourceType |-> "live",
   symbol |-> "BTCUSDT", interval |-> "1m", openTime |-> 0, checkedAt |-> 0]

SomeRecords == {Snapshot(0), Snapshot(1), Snapshot(3), Replay(2), FalseCandle}

\* The processes run the same code, and no property names one.
SqliteSymmetry == Permutations(Processes)
=============================================================================
