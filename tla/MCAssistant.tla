----------------------------- MODULE MCAssistant -----------------------------
(* Small values for Assistant: bell times with and without a summer.       *)
EXTENDS Assistant

Summer == [id |-> 1, start |-> 501, periods |-> {1, 2}]
Winter == [id |-> 2, start |-> 1001, periods |-> {1}]
BellTimes == {{Winter}, {Summer, Winter}}

Slot(d, f, t) == [date |-> d, from |-> f, to |-> t]
AskedSlots == {Slot(601, 1, 2), Slot(101, 1, 1), Slot(101, 1, 2), Slot(601, 2, 1), Slot(601, 0, 1)}
==============================================================================
