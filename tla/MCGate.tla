------------------------------- MODULE MCGate -------------------------------
(***************************************************************************)
(* Gate for TLC: two places of one rule in one file, so that code can move *)
(* and one entry covers both, and a secret in another file.                *)
(***************************************************************************)
EXTENDS Gate, TLC

Rules == ("e1" :> "EVAL") @@ ("e2" :> "EVAL") @@ ("k1" :> "KEY")
Places == ("e1" :> "app") @@ ("e2" :> "app") @@ ("k1" :> "env")

E(rule, paths, expires) == [rule_id |-> rule, path |-> paths, sound |-> TRUE, expires |-> expires]

(* Days 19781, 19782, 19783 are 2024-02-28, -29 and 2024-03-01. *)
Short == <<2024, 2, 28>>
Leap == <<2024, 2, 30>>
Year == <<2025, 1, 1>>
NoDate == <<2024, 13, 1>>
MCExpiries == {Short, Leap, Year, NoDate}

(* Live, expired and overlapping entries in both orders, an entry for each *)
(* kind of finding, and entries that are not sound.                        *)
Files ==
  LET short == E("EVAL", {"app"}, Short)
      long == E("EVAL", {"app", "env"}, Leap)
      key == E("KEY", {"env"}, Year)
  IN  {<<short, long>>, <<long, short>>, <<key, short>>,
       <<long, E("EVAL", {"app"}, NoDate)>>, <<[long EXCEPT !.sound = FALSE]>>}
=============================================================================
