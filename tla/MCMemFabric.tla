----------------------------- MODULE MCMemFabric -----------------------------
(***************************************************************************)
(* Two hosts with the same request ids share a basicmem and, through two   *)
(* memnics, two netmems.  Addresses 0 and 1 are in the basicmem, 2 to 4 in *)
(* the netmems behind the first memnic; 5 is, behind the other memnic, the *)
(* same cell as 3.  Nothing is at 6.                                       *)
(***************************************************************************)
EXTENDS MemFabric

MCRoutes ==
  << [start |-> 0, end |-> 2, phys |-> 0, dev |-> "b"],
     [start |-> 2, end |-> 5, phys |-> 0, dev |-> "m1"],
     [start |-> 5, end |-> 6, phys |-> 1, dev |-> "m2"] >>

MCMapTable ==
  << [start |-> 0, end |-> 1, phys |-> 0, node |-> "r1"],
     [start |-> 2, end |-> 2, phys |-> 0, node |-> "r2"] >>

MCHome ==
  [addr \in 0..6 |-> CASE addr < 2      -> <<"b", addr>>
                       [] addr = 2      -> <<"r1", 0>>
                       [] addr \in {3, 5} -> <<"r1", 1>>
                       [] addr = 4      -> <<"r2", 0>>
                       [] addr = 6      -> <<"none", 0>>]

Rd(addr) == [kind |-> "read", addr |-> addr]
Wr(addr) == [kind |-> "write", addr |-> addr]
Po(addr) == [kind |-> "posted", addr |-> addr]

Prog(p1, p2) == [h \in {"h1", "h2"} |-> IF h = "h1" THEN p1 ELSE p2]

(* Static entries for two netmems, and none. *)
Static(p1, p2) == [x \in {"r1", "r2"} |-> IF x = "r1" THEN p1 ELSE p2]
None == [x \in {} |-> x]

Whole == [cap |-> 4, sync |-> TRUE, ports |-> {"m1", "m2", "r1", "r2"}, static |-> Static("r1", "r2"),
          prog |-> Prog(<<Wr(3), Rd(3)>>, <<Wr(3), Rd(3)>>), window |-> 2]

(* Provided for: both hosts in one cell, behind two memnics, in two netmems, in *)
(* the basicmem with a posted write, and a switch that learns its only netmem.  *)
(* Not provided for: rings of one and two slots, with and without               *)
(* synchronisation, a netmem the switch floods for, a posted write to a memnic, *)
(* an address without a device, two netmems the switch floods for, and static   *)
(* entries in the wrong order.                                                  *)
MCConfigs ==
  { Whole,
    [Whole EXCEPT !.prog = Prog(<<Wr(3), Rd(3)>>, <<Wr(5)>>)],
    [Whole EXCEPT !.prog = Prog(<<Wr(2), Rd(4)>>, <<Wr(4)>>)],
    [Whole EXCEPT !.cap = 5, !.prog = Prog(<<Po(0), Rd(0)>>, <<Wr(0), Rd(1)>>)],
    [Whole EXCEPT !.ports = {"m1", "r1"}, !.static = None, !.prog = Prog(<<Wr(2), Rd(2)>>, <<Rd(2)>>)],
    [Whole EXCEPT !.cap = 1, !.prog = Prog(<<Wr(2), Rd(2)>>, <<Rd(2)>>)],
    [Whole EXCEPT !.cap = 2, !.window = 4, !.prog = Prog(<<Wr(2), Rd(2), Rd(2), Rd(2)>>, <<>>)],
    [Whole EXCEPT !.cap = 2, !.window = 4, !.sync = FALSE,
                  !.prog = Prog(<<Wr(2), Rd(2), Rd(2), Rd(2)>>, <<>>)],
    [Whole EXCEPT !.ports = {"m1", "m2", "r1"}, !.static = None,
                  !.prog = Prog(<<Wr(2), Rd(5)>>, <<Rd(5)>>)],
    [Whole EXCEPT !.prog = Prog(<<Po(2), Rd(2)>>, <<Rd(0)>>)],
    [Whole EXCEPT !.prog = Prog(<<Wr(0), Rd(6)>>, <<Rd(3), Wr(6)>>)],
    [Whole EXCEPT !.static = None, !.prog = Prog(<<Wr(2)>>, <<Rd(3)>>)],
    [Whole EXCEPT !.static = Static("r2", "r1"), !.prog = Prog(<<Wr(2), Rd(2)>>, <<Rd(4)>>)] }

==============================================================================
