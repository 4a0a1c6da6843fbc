------------------------------- MODULE MCSectors -------------------------------
(***************************************************************************)
(* Instances of AtellaConfigFiles for TLC: one sector of up to six hosts,  *)
(* or two sectors that share hosts, in one file or in two, and two loads.  *)
(***************************************************************************)
EXTENDS AtellaConfigFiles

MCAddresses == {"a1", "a2", "a3", "a4", "a5", "a6", "b6"}
MCHostnames == {"h1", "h2", "h3", "h4", "h5", "h6"}

\* Host 6 has two addresses.
E1 == [addresses |-> <<"a1">>, hostname |-> "h1"]
E2 == [addresses |-> <<"a2">>, hostname |-> "h2"]
E3 == [addresses |-> <<"a3">>, hostname |-> "h3"]
E4 == [addresses |-> <<"a4">>, hostname |-> "h4"]
E5 == [addresses |-> <<"a5">>, hostname |-> "h5"]
E6 == [addresses |-> <<"a6", "b6">>, hostname |-> "h6"]

One(e)    == [name |-> "s1", hosts |-> e]
Two(e)    == [name |-> "s2", hosts |-> e]
MCSectorNames == {"s1", "s2"}

\* The agent is host 1, at every place of its sectors.
SingleSectors ==
  { <<>>, <<E2, E3>>, <<E1>>, <<E1, E2>>, <<E6, E1>>, <<E2, E1, E6>>, <<E1, E2, E3, E4>>,
    <<E2, E3, E1, E4, E6>>, <<E1, E2, E3, E4, E5, E6>>, <<E2, E3, E4, E5, E6, E1>>,
    <<E1, E2, E1, E3, E4, E5>> }

SectorPairs ==
  { <<One(<<E1, E2, E3>>), Two(<<E3, E4, E1>>)>>,
    <<Two(<<E5, E6, E2, E1, E3>>), One(<<E6, E2, E1>>)>> }

\* What the sectors of all files of a load may be.
MCFiles == {<<>>} \cup {<<One(e)>> : e \in SingleSectors} \cup SectorPairs

NoChannel == [c \in {} |-> 0]
Main(n, t, s) == [timeout |-> t, hostCnt |-> n, channels |-> NoChannel, sectors |-> s, broken |-> FALSE]
Part(t, c, s) == [timeout |-> t, hostCnt |-> Unnamed, channels |-> c, sectors |-> s, broken |-> FALSE]

MCTimeouts == {"t1", "t2"}
MCChannels == {"Mail"}
Mail(t) == [c \in {"Mail"} |-> t]

\* One file with all sectors, or two: the second may hold a sector, a channel
\* with or without a timeout, and a timeout of the agent.
MCDisks ==
  {<<Main(n, Unnamed, <<One(e)>>)>> : n \in 0 .. MaxHostCnt, e \in SingleSectors}
  \cup {<<Main(n, t, <<p[1]>>), Part(u, Mail(w), <<p[2]>>)>> :
          n \in {1, 3}, p \in SectorPairs, t \in {"t2", Unnamed}, u \in {"t1", Unnamed},
          w \in {"t1", Unnamed}}
  \cup {<<[Main(Unnamed, "t2", <<>>) EXCEPT !.channels = Mail(Unnamed)]>>,
        <<Main(2, Unnamed, <<>>), [Part(Unnamed, NoChannel, <<>>) EXCEPT !.broken = TRUE]>>}

=============================================================================
