------------------------ MODULE MCSimulationExecutor ------------------------
(* A network listens on channels a and b, and a proxy, for a memory with    *)
(* blocking_conn, on channel ram.  A second proxy connects to them, to a and *)
(* b in the other order, once its counterpart in another fragment is up.    *)
EXTENDS SimulationExecutor

MCProcs == {"net", "mem", "proxy"}
MCIfs == [net |-> << <<"a", "lis">>, <<"b", "lis">> >>,
          mem |-> << <<"ram", "lis">> >>,
          proxy |-> << <<"ram", "con">>, <<"b", "con">>, <<"a", "con">> >>]
MCExternal == [p \in {"mem", "proxy"} |-> IF p = "proxy" THEN "remote" ELSE NoProxy]

\* Some combinations of modes at the ends of channel a.  Otherwise one thing at a time
\* is wrong: a protocol, the pool of the network, which is too small for two channels,
\* a program that is missing, or a remote proxy that does not come up.
MCEnds == {"a", "b", "ram"} \X {"lis", "con"}
Good == [par |-> [e \in MCEnds |-> [mode |-> "Optional", proto |-> "eth", in |-> <<1, 2>>, out |-> <<1, 3>>]],
         pool |-> [net |-> 10, mem |-> 5, proxy |-> 0], broken |-> {}, silent |-> {}]
ModesOfA == {<<"Optional", "Optional">>, <<"Required", "Optional">>,
             <<"Disabled", "Optional">>, <<"Disabled", "Required">>}
MCSetups ==
  {[Good EXCEPT !.par[<<"a", "lis">>].mode = m[1], !.par[<<"a", "con">>].mode = m[2]] : m \in ModesOfA}
  \cup {[Good EXCEPT !.par[<<"b", "con">>].proto = "mem"], [Good EXCEPT !.pool["net"] = 9],
        [Good EXCEPT !.broken = {"mem"}], [Good EXCEPT !.broken = {"net"}], [Good EXCEPT !.broken = {"proxy"}],
        [Good EXCEPT !.silent = {"remote"}]}
=============================================================================
