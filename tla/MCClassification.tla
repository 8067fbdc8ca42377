--------------------------- MODULE MCClassification ---------------------------
(* Classification over a docket whose days lie on both sides of every window. *)
EXTENDS Classification

F(form, day, items, says) == [form |-> form, day |-> day, items |-> items, says |-> says]

MCDocket ==
    {F("8-K", -500, {"1.03"}, {"bankruptcy"}),          \* an old bankruptcy
     F("8-K", -60, {"1.03"}, {"unread"}),
     F("8-K", 40, {"1.03"}, {"bankruptcy"}),
     F("8-K", 60, {"2.01"}, {}),                        \* sold out of bankruptcy
     F("8-K", -100, {"2.01", "5.01"}, {}),              \* only the scan back finds it
     F("8-K", -31, {"5.01", "3.03"}, {}),               \* a day before the end's window
     F("8-K", -15, {"3.01"}, {"deficiency"}),
     F("8-K", -15, {"3.01"}, {"winding_down"}),
     F("8-K", -15, {"3.01"}, {"transfer"}),
     F("8-K", -15, {"3.01"}, {"unread"}),
     F("8-K", 0, {"2.01", "3.01", "5.01"}, {}),
     F("8-K", 0, {"2.01", "3.01"}, {"acquirer"}),
     F("8-K", 0, {"2.01", "3.01"}, {"for_part"}),
     F("8-K", 2, {"1.03", "5.01"}, {}),                 \* a tag its text does not confirm
     F("8-K", 2, {}, {"for_one"}), F("8-K", 2, {}, {"for_another"}),
     F("8-K", 5, {"2.04", "3.01"}, {}),
     F("8-K/A", 5, {"5.01"}, {}),
     F("8-K12B", 5, {}, {}),
     F("6-K", 5, {}, {"completed"}),
     F("25-NSE", -100, {}, {}), F("25-NSE", -5, {}, {}), F("25-NSE", 10, {}, {"acquired"}),
     F("15-12B", 20, {}, {}),
     F("DEFM14A", -200, {}, {}), F("S-4", -450, {}, {}),
     F("NT 10-K", -90, {}, {}),
     F("10-K", -50, {}, {}), F("10-K", 181, {}, {}),
     F("REVOKED", -3, {}, {}), F("REVOKED", 300, {}, {})}
=============================================================================
