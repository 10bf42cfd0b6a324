--------------------------- MODULE MCAttackReplayer ---------------------------
EXTENDS AttackReplayer

transfer == <<169, 5, 156, 187>>
transferFrom == <<35, 184, 114, 221>>
pause == <<132, 86, 203, 89>>
address == [kind |-> "address", size |-> 0]
uint == [kind |-> "uint", size |-> 256]
bool == [kind |-> "bool", size |-> 8]

\* A direct attack, one through a router that first sends the contract ether,
\* and one that never calls the contract.
MCAttacks ==
    {[to |-> Protected, input |-> transfer \o <<0, 0, 7>>, calls |-> <<[to |-> Router, input |-> <<>>]>>,
      storage |-> (0 :> 0)],
     [to |-> Router, input |-> transfer \o <<0, 1, 1>>,
      calls |-> <<[to |-> Protected, input |-> <<>>], [to |-> Protected, input |-> transfer \o <<0, 0, 7>>]>>,
      storage |-> (0 :> 5)],
     [to |-> Router, input |-> transfer \o <<0, 1, 1>>, calls |-> <<>>, storage |-> <<>>]}

\* One through a router, with a call that a candidate's input takes elsewhere.
MCRoutedAttack ==
    {[to |-> Router, input |-> transfer \o <<0, 1, 1>>,
      calls |-> <<[to |-> Protected, input |-> transfer \o <<0, 0, 7>>]>>, storage |-> (0 :> 5)]}

\* A transfer, a transferFrom at the largest word, a call with more data than
\* parameters, and a creation.
MCTransactions ==
    LET prestate == Protected :> (0 :> 150 @@ 3 :> 4096) @@ Router :> (1 :> 1)
    IN  {[to |-> Protected, input |-> transfer \o <<0, 1, 5>> \o <<0, 0, 9>>, prestate |-> prestate],
         [to |-> Protected, input |-> transferFrom \o <<255, 255, 255>>, prestate |-> prestate],
         [to |-> Protected, input |-> pause \o <<0, 0, 1>>, prestate |-> Protected :> <<>>],
         [to |-> NoTo, input |-> transfer \o <<0, 0, 1>>, prestate |-> Router :> (1 :> 1)]}
MCTargets == <<Protected, Router>>
MCAbi ==
    Protected :> (transfer :> <<address, uint>> @@ pause :> <<>>) @@ Router :> (transferFrom :> <<bool>>)

\* Calls whose parameters step past a limit of their type: the largest uint, a
\* uint8 and an int8 near the top, integers around zero; one whose method has no
\* parameter a step changes, one without parameters and one of an unknown method.
uint8 == [kind |-> "uint", size |-> 8]
uint16 == [kind |-> "uint", size |-> 16]
int == [kind |-> "int", size |-> 256]
int8 == [kind |-> "int", size |-> 8]
MCCalls ==
    LET call(types, params, storage) ==
            [types |-> types, input |-> transfer \o params, storage |-> storage]
    IN  {call(<<uint, uint8>>, <<255, 255, 254>> \o <<0, 0, 250>>, 0 :> 5 @@ 7 :> 0 @@ 8 :> 900),
         call(<<int>>, <<255, 255, 240>>, 0 :> 0),
         call(<<int, int8>>, <<127, 255, 255>> \o <<0, 0, 120>>, <<>>),
         call(<<address, bool>>, <<0, 0, 9>> \o <<0, 0, 1>>, 3 :> 16777215),
         call(<<uint16>>, <<0, 1, 0>>, 0 :> 100 @@ 9 :> 1),
         call(<<>>, <<>>, <<>>),
         call(NoMethod, <<1, 2, 3>>, 0 :> 1)}
MCRuleContracts == {Protected, ZeroContract}
MCRandomAddresses == {<<17, 34>>}
MCKnownAddresses == <<<<0, 0>>, <<192, 42>>>>
=============================================================================
