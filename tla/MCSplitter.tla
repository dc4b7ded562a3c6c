----------------------------- MODULE MCSplitter -----------------------------
(***************************************************************************)
(* Small sheets: up to three rows of at least two course numbers, of two   *)
(* courses, whose classes come in either order or are missing, with cells  *)
(* that cannot be read.  The term begins in winter; spring is on day 6.    *)
(***************************************************************************)
EXTENDS Splitter

A1 == [prefix |-> "a", num |-> 1]
B == [prefix |-> "b", num |-> 0]
Weeks(f, t, p) == [from |-> f, to |-> t, parity |-> p]
SheetRow(s, c, a, r, d, p, w) ==
  [seq |-> s, course |-> IF s = 3 THEN "" ELSE "course", code |-> c, admins |-> a,
   room |-> r, weekday |-> d, periods |-> p, weeks |-> w,
   teacher |-> IF d = 8 THEN "" ELSE IF d = 5 THEN "u" ELSE "v", grade |-> IF s = 0 THEN "23" ELSE ""]

Slots3 == {<<"r", 1, <<1, 2>>, <<Weeks(1, 1, "all"), Weeks(1, 2, "even")>>>>,
           <<"r", 5, <<1, 1>>, <<Weeks(1, 1, "all")>>>>,
           <<"halted", 1, <<1, 2>>, <<Weeks(1, 2, "all")>>>>}
SheetRows ==
  {SheetRow(s, "k", a, t[1], t[2], t[3], t[4]) :
     s \in {1, 2}, a \in {<<A1, B>>, <<B, A1>>, <<>>}, t \in Slots3}
  \cup {SheetRow(0, "k", <<A1>>, "q", 1, <<1, 1>>, <<Weeks(1, 1, "all")>>),
        SheetRow(2, "", <<A1>>, "r", 8, <<1, 1>>, <<Weeks(1, 2, "all")>>),
        SheetRow(3, "m", <<B, A1>>, "r", 1, <<2, 2>>, <<Weeks(2, 1, "all")>>),
        SheetRow(3, "m", <<A1, B>>, "r", 1, <<2, 2>>, <<Weeks(2, 2, "odd"), Weeks(1, 1, "odd")>>)}
SmallSheets ==
  {q \in BoundedSeq(SheetRows, 3) : Cardinality({q[i].seq : i \in DOMAIN q}) # 1}

Winter == [id |-> 1, start |-> 1001, periods |-> {1}]
Spring == [id |-> 2, start |-> 301, periods |-> {1, 2}]
Years == 0 :> "" @@ 1 :> "24"
RegimenSets == {{}, {Winter, Spring}, {[Spring EXCEPT !.start = 501]}}
Term == [n \in 1 .. 14 |-> IF n <= 5 THEN 223 + n ELSE 295 + n]
=============================================================================
