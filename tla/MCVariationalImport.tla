-------------------------- MODULE MCVariationalImport --------------------------
(***************************************************************************)
(* Exports for TLC.  Trades: x is pending in file 1 and confirmed in 2, y  *)
(* is in both; file 3 has y with another price and a row that is no        *)
(* perpetual.  Transfers: file 4 has funding and a withdrawal of a         *)
(* negative amount, file 5 repeats the funding, adds a fee of the same     *)
(* millisecond that is earlier and has y twice, differently spelled.       *)
(* File 6 is no export at all.                                             *)
(***************************************************************************)
EXTENDS VariationalImport

CONSTANTS x, y, z

Trade(id, at, status, instrument, price) ==
  [id |-> id, created_at |-> at, status |-> status,
   instrument_type |-> instrument, symbol |-> TRUE, side |-> "buy",
   price |-> price, qty |-> 1, text |-> ""]

Transfer(id, at, type, qty, text) ==
  [id |-> id, created_at |-> at, status |-> "confirmed",
   transfer_type |-> type, symbol |-> None, qty |-> qty, rate |-> TRUE,
   text |-> text]

MCFile == 1 .. 6
MCFolderOf == [f \in MCFile |-> IF f \in {4, 5} THEN "transfers" ELSE "trades"]

MCContent ==
  <<<<Trade(x, 2, "pending", "perpetual_future", 5),
      Trade(y, 4, "confirmed", "perpetual_rwa_future", 5)>>,
    <<Trade(x, 2, "confirmed", "perpetual_future", 5),
      Trade(y, 4, "confirmed", "perpetual_rwa_future", 5)>>,
    <<Trade(y, 4, "confirmed", "perpetual_future", 6),
      Trade(z, 6, "confirmed", "option", 6)>>,
    <<Transfer(x, 3, "funding", -2, "-2"),
      Transfer(y, 3, "withdrawal", -1, "-1")>>,
    <<Transfer(x, 3, "funding", -2, "-2"), Transfer(z, 2, "fee", 1, "1"),
      Transfer(y, 3, "deposit", 1, "1"), Transfer(y, 3, "deposit", 1, "1.0")>>,
    <<>>>>
===============================================================================
