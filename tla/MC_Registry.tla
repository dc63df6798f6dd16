------------------------------- MODULE MC_Registry ------------------------------
(* Two organizations; three providers, of which SPRegistry takes two, with  *)
(* two offers each.  The database is in one of ten contents: in order, with *)
(* another payee and capacity and an address that is none, and with         *)
(* something wrong: in each one thing in the row of the first organization, *)
(* in most another in the offers of the second, which a run for p2 meets    *)
(* alone.                                                                   *)
EXTENDS Registry

CONSTANTS o1, o2, p1, p2, p3, a1, a2

Fine == [kind |-> "offer", price |-> 1]
Cheap == [kind |-> "offer", price |-> 0]
Kind(kind) == [kind |-> kind, price |-> 1]

First == [approved |-> TRUE, written |-> "well", miners |-> {p1}, twice |-> {}, address |-> "eth",
          payable |-> TRUE, payee |-> a1, bytes |-> 2, min |-> 2, max |-> 3, classes |-> <<Fine>>]
Second == [approved |-> TRUE, written |-> "well", miners |-> {p2}, twice |-> {}, address |-> "fil",
           payable |-> TRUE, payee |-> a2, bytes |-> 1, min |-> 1, max |-> 5, classes |-> <<Fine>>]

Both(x, y) == [o \in Orgs |-> IF o = o1 THEN x ELSE y]

MCDatabases ==
  {Both(First, Second),
   Both([First EXCEPT !.payee = a2, !.bytes = 1, !.classes = <<Fine, Kind("left"), Fine>>],
        [Second EXCEPT !.address = "bad"]),
   Both([First EXCEPT !.miners = {p1, p2}], [Second EXCEPT !.payable = FALSE, !.twice = {p2}]),
   Both([First EXCEPT !.written = "unsized"], [Second EXCEPT !.classes = <<Cheap>>]),
   Both([First EXCEPT !.bytes = 0], [Second EXCEPT !.min = 5, !.max = 6]),
   Both([First EXCEPT !.written = "unreadable"], [Second EXCEPT !.approved = FALSE]),
   Both([First EXCEPT !.miners = {p1, p3}], [Second EXCEPT !.classes = <<Kind("unreadable")>>]),
   Both([First EXCEPT !.address = "lost"], [Second EXCEPT !.classes = <<Kind("unsupported")>>]),
   Both([First EXCEPT !.address = "zero"], [Second EXCEPT !.approved = FALSE]),
   Both([First EXCEPT !.payee = Nobody, !.classes = <<Fine, Fine>>], [Second EXCEPT !.approved = FALSE])}

MCCommitted == [p \in Providers |-> IF p = p1 THEN 1 ELSE 0]
MCMaxFaults == [k \in FaultKinds |-> IF k = "all" THEN 2 ELSE 1]
MCSelections == {[Everything EXCEPT !.providers = {p2}]}
=============================================================================
